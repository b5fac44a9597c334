-------------------------- MODULE McpBridgeProofs --------------------------
(***************************************************************************)
(* Proofs about McpBridge, for any catalogs, patterns, numbers of requests *)
(* and reloads.  The inductive invariant says what the log of a call holds *)
(* at each of its steps, what a Turn may execute at all, and where an      *)
(* effect of unknown outcome has left its mark.                            *)
(*                                                                         *)
(* They are followed by the proofs about the other things that a Host      *)
(* runs: the process of a tool, the registry of its tools and a Turn whose *)
(* Harness it keeps (ToolProcess, HostTools and RemoteTurn, each reached   *)
(* through an instance: Process, Registry, Remote).                        *)
(***************************************************************************)
EXTENDS McpBridge, SequenceTheorems, FiniteSetTheorems, FiniteSets, TLAPS

\* What the call at hand has put on record.
Accepted == Entry("before_tool", TRUE, bridge.generation)
Refused == Entry("before_tool", FALSE, bridge.generation)
Ran == Entry("execute", TRUE, bridge.generation)
Finished(ok) == Entry("after_tool", ok, bridge.generation)

\* The log of a call at each step, from its validation to its answer.
Recorded ==
    /\ conn.pc \in {"none", "handle", "validate", "before"} => log = <<>>
    /\ conn.pc = "execute" => log = <<Accepted>>
    /\ conn.pc = "running" => log = <<Accepted, Ran>>
    /\ conn.pc = "after" => log = <<Accepted>> \/ log = <<Accepted, Ran>>
    /\ conn.pc = "respond" =>
          \/ conn.id = 0 /\ log = <<>>
          \/ conn.id # 0 /\ log = <<Refused>>
          \/ /\ conn.id # 0
             /\ \E last \in {Finished(TRUE), Finished(FALSE)} :
                   log = <<Accepted, last>> \/ log = <<Accepted, Ran, last>>

\* A call has the id it drew, and a tool it was granted.
Identified ==
    /\ conn.pc \in {"none", "handle"} => conn.id = 0
    /\ conn.pc \in {"validate", "before", "execute", "running", "after"} =>
          conn.id # 0 /\ conn.tool \in bridge.tools
    /\ conn.pc = "handle" => bridge.nextCall <= requests
    /\ bridge.nextCall <= requests + 1

\* The snapshot is the one the Turn began with.
Fixed ==
    /\ bridge.generation = 1
    /\ bridge.tools \subseteq ((Tools \ Native) \cap Allowed) \cup SkillTools

\* When the prompt has ended nothing is being served, and a Turn that has
\* revoked its bridge and counts as answered saw no uncertainty.
Ended ==
    /\ prompt # "open" => conn.pc = "none"
    /\ ~bridge.active => prompt # "open"
    /\ prompt = "answered" /\ ~bridge.active => ~bridge.uncertain

\* An effect of unknown outcome is still running, was abandoned by the
\* Harness, has made the bridge uncertain, or its prompt failed as a whole.
Marked ==
    \/ bridge.uncertain \/ prompt \in {"cancelled", "error"}
    \/ \A i \in unknown : i \in abandoned \/ (conn.pc = "running" /\ i = conn.id)

IInv == TypeOK /\ Recorded /\ Identified /\ Fixed /\ Ended /\ Marked

--------------------
(* Lemmas.                                                                 *)

ConnType ==
    [pc : Pcs, method : Methods \cup {"none"}, tool : Grants \cup {"none"},
     stateless : BOOLEAN, id : 0..MaxRequests, answer : AnswerKinds]
BridgeType ==
    [tools : SUBSET Grants, generation : 1..(MaxReloads + 1), active : BOOLEAN,
     nextCall : 1..(MaxRequests + 1), uncertain : BOOLEAN,
     version : {"none", "known", "latest"}]

\* What an entry of the call at hand says.
LEMMA EntryFacts ==
    ASSUME TypeOK, conn.id # 0, conn.tool \in Grants,
           NEW e \in {"before_tool", "execute", "after_tool"}, NEW ok \in BOOLEAN,
           NEW g \in 1..(MaxReloads + 1)
    PROVE  /\ Entry(e, ok, g) \in Entries
           /\ Entry(e, ok, g).event = e /\ Entry(e, ok, g).ok = ok
           /\ Entry(e, ok, g).id = conn.id /\ Entry(e, ok, g).tool = conn.tool
           /\ Entry(e, ok, g).generation = g
<1>1. conn.id \in 1..MaxRequests
  BY BridgeAssumption DEF TypeOK
<1> QED
  BY <1>1 DEF Entry, Entries

\* The empty connection.
LEMMA NoConnectionFacts ==
    /\ NoConnection \in ConnType
    /\ NoConnection.pc = "none" /\ NoConnection.id = 0
<1>1. 0 \in 0..MaxRequests
  BY BridgeAssumption
<1> QED
  BY <1>1 DEF NoConnection, ConnType, Pcs, Methods, AnswerKinds

\* An answer leaves the connection as it is, up to its step.
LEMMA AnswersFacts ==
    ASSUME TypeOK, NEW a \in AnswerKinds, Answers(a)
    PROVE  /\ conn' \in ConnType
           /\ conn'.pc = "respond" /\ conn'.id = conn.id /\ conn'.tool = conn.tool
<1> QED
  BY DEF Answers, TypeOK, ConnType, Pcs

\* Another step of the connection leaves the rest of it alone.
LEMMA PcFacts ==
    ASSUME TypeOK, NEW pc \in Pcs, conn' = [conn EXCEPT !.pc = pc]
    PROVE  /\ conn' \in ConnType
           /\ conn'.pc = pc /\ conn'.id = conn.id /\ conn'.tool = conn.tool
<1> QED
  BY DEF TypeOK, ConnType, Pcs

--------------------
(* The steps.                                                              *)

\* At first nothing is served.
LEMMA InitIInv == Init => IInv
<1> SUFFICES ASSUME Init PROVE IInv
  OBVIOUS
<1>1. host \in [generation : 1..(MaxReloads + 1), tools : SUBSET Tools]
  <2>1. 1 \in 1..(MaxReloads + 1)
    BY BridgeAssumption
  <2> QED
    BY <2>1 DEF Init
<1>2. /\ Granted(host.tools) \subseteq ((Tools \ Native) \cap Allowed) \cup SkillTools
      /\ Granted(host.tools) \in SUBSET Grants
  BY <1>1 DEF Granted, Grants
<1>3. bridge \in BridgeType /\ bridge.generation = 1 /\ bridge.active
      /\ bridge.nextCall = 1 /\ bridge.tools = Granted(host.tools)
  <2>1. 1 \in 1..(MaxRequests + 1) /\ host.generation = 1
    BY BridgeAssumption DEF Init
  <2> QED
    BY <2>1, <1>1, <1>2 DEF Init, BridgeType
<1>4. TypeOK
  <2>1. log \in Seq(Entries) /\ requests \in 0..MaxRequests
    BY BridgeAssumption DEF Init
  <2>2. conn \in ConnType /\ conn.id < bridge.nextCall
    BY <1>3, NoConnectionFacts DEF Init
  <2> QED
    BY <1>1, <1>3, <2>1, <2>2 DEF Init, TypeOK, BridgeType, ConnType
<1>5. Recorded /\ Identified
  BY <1>3, NoConnectionFacts DEF Init, Recorded, Identified
<1>6. Fixed /\ Ended /\ Marked
  BY <1>2, <1>3 DEF Init, Fixed, Ended, Marked
<1> QED
  BY <1>4, <1>5, <1>6 DEF IInv

\* The entries of a call depend on its id, its tool and the Turn's snapshot.
LEMMA SameEntries ==
    ASSUME conn'.id = conn.id, conn'.tool = conn.tool,
           bridge'.generation = bridge.generation
    PROVE  /\ Accepted' = Accepted /\ Refused' = Refused /\ Ran' = Ran
           /\ Finished(TRUE)' = Finished(TRUE) /\ Finished(FALSE)' = Finished(FALSE)
BY DEF Accepted, Refused, Ran, Finished, Entry

\* What grows by one entry.
LEMMA AppendFacts ==
    ASSUME NEW S, NEW a \in S, NEW b \in S, NEW c \in S
    PROVE  /\ Append(<<>>, a) = <<a>>
           /\ Append(<<a>>, b) = <<a, b>>
           /\ Append(<<a, b>>, c) = <<a, b, c>>
<1>1. Append(<<>>, a) = <<a>>
  OBVIOUS
<1>2. Append(<<a>>, b) = <<a, b>>
  <2>1. /\ <<a>> \in Seq(S) /\ Len(<<a>>) = 1
        /\ <<a, b>> \in Seq(S) /\ Len(<<a, b>>) = 2
    OBVIOUS
  <2>2. /\ Append(<<a>>, b) \in Seq(S) /\ Len(Append(<<a>>, b)) = 2
        /\ Append(<<a>>, b)[1] = a /\ Append(<<a>>, b)[2] = b
    BY <2>1, AppendProperties
  <2>3. \A i \in 1..2 : Append(<<a>>, b)[i] = <<a, b>>[i]
    BY <2>2
  <2> QED
    BY <2>1, <2>2, <2>3, SeqEqual
<1>3. Append(<<a, b>>, c) = <<a, b, c>>
  <2>1. /\ <<a, b>> \in Seq(S) /\ Len(<<a, b>>) = 2
        /\ <<a, b, c>> \in Seq(S) /\ Len(<<a, b, c>>) = 3
    OBVIOUS
  <2>2. /\ Append(<<a, b>>, c) \in Seq(S) /\ Len(Append(<<a, b>>, c)) = 3
        /\ \A i \in 1..2 : Append(<<a, b>>, c)[i] = <<a, b>>[i]
        /\ Append(<<a, b>>, c)[3] = c
    BY <2>1, AppendProperties
  <2>3. \A i \in 1..3 : Append(<<a, b>>, c)[i] = <<a, b, c>>[i]
    BY <2>2
  <2> QED
    BY <2>1, <2>2, <2>3, SeqEqual
<1> QED
  BY <1>1, <1>2, <1>3

\* The Host's catalog is not the Turn's.
LEMMA ReloadStep == ASSUME IInv, Reload PROVE IInv'
<1>1. host' \in [generation : 1..(MaxReloads + 1), tools : SUBSET Tools]
  <2>1. host.generation + 1 \in 1..(MaxReloads + 1)
    BY BridgeAssumption DEF Reload, IInv, TypeOK
  <2> QED
    BY <2>1 DEF Reload
<1>2. UNCHANGED <<bridge, conn, requests, log, prompt, cancelled, unknown, abandoned>>
  BY DEF Reload
<1>3. TypeOK'
  BY <1>1, <1>2 DEF IInv, TypeOK
<1>4. Recorded'
  BY <1>2, SameEntries DEF IInv, Recorded
<1> QED
  BY <1>2, <1>3, <1>4 DEF IInv, Identified, Fixed, Ended, Marked

\* The Turn's token fires.
LEMMA CancelStep == ASSUME IInv, Cancel PROVE IInv'
<1>1. /\ UNCHANGED <<host, bridge, conn, requests, log, prompt, unknown, abandoned>>
      /\ cancelled' = TRUE
  BY DEF Cancel
<1>2. TypeOK'
  BY <1>1 DEF IInv, TypeOK
<1>3. Recorded'
  BY <1>1, SameEntries DEF IInv, Recorded
<1> QED
  BY <1>1, <1>2, <1>3 DEF IInv, Identified, Fixed, Ended, Marked

\* A connection that is accepted has no call yet.
LEMMA AcceptStep == ASSUME IInv, Accept PROVE IInv'
<1>1. /\ prompt = "open" /\ conn.pc = "none" /\ requests < MaxRequests
      /\ requests' = requests + 1
      /\ UNCHANGED <<host, bridge, log, prompt, cancelled, unknown, abandoned>>
  BY DEF Accept
<1>2. conn' \in ConnType /\ conn'.pc \in {"handle", "respond"} /\ conn'.id = 0
  <2>1. CASE \E m \in Methods, s \in BOOLEAN, t \in Tools \cup SkillTools :
               conn' = [NoConnection EXCEPT !.pc = "handle", !.method = m,
                           !.tool = IF m = "tools/call" THEN t ELSE "none",
                           !.stateless = Stateless(m, s)]
    <3>1. PICK m \in Methods, s \in BOOLEAN, t \in Tools \cup SkillTools :
               conn' = [NoConnection EXCEPT !.pc = "handle", !.method = m,
                           !.tool = IF m = "tools/call" THEN t ELSE "none",
                           !.stateless = Stateless(m, s)]
      BY <2>1
    <3>2. Stateless(m, s) \in BOOLEAN
      BY DEF Stateless
    <3>3. (IF m = "tools/call" THEN t ELSE "none") \in Grants \cup {"none"}
      BY DEF Grants
    <3> QED
      BY <3>1, <3>2, <3>3, NoConnectionFacts DEF ConnType, Pcs
  <2>2. CASE conn' = [NoConnection EXCEPT !.pc = "respond", !.answer = "refused"]
    BY <2>2, NoConnectionFacts DEF ConnType, Pcs, AnswerKinds
  <2> QED
    BY <2>1, <2>2 DEF Accept
<1>3. log = <<>>
  BY <1>1 DEF IInv, Recorded
<1>4. TypeOK'
  BY <1>1, <1>2, BridgeAssumption DEF IInv, TypeOK, ConnType
<1>5. Recorded'
  BY <1>1, <1>2, <1>3 DEF Recorded
<1>6. Identified'
  <2>1. bridge.nextCall \in Nat /\ requests \in Nat
    BY BridgeAssumption DEF IInv, TypeOK
  <2> QED
    BY <2>1, <1>1, <1>2 DEF IInv, Identified
<1>7. Fixed' /\ Ended' /\ Marked'
  BY <1>1 DEF IInv, Fixed, Ended, Marked
<1> QED
  BY <1>4, <1>5, <1>6, <1>7 DEF IInv

\* What cannot be read ends the prompt.
LEMMA MalformedStep == ASSUME IInv, Malformed PROVE IInv'
<1>1. /\ prompt = "open" /\ conn.pc = "none" /\ requests < MaxRequests
      /\ requests' = requests + 1 /\ prompt' = "error"
      /\ UNCHANGED <<host, bridge, conn, log, cancelled, unknown, abandoned>>
  BY DEF Malformed
<1>2. TypeOK'
  BY <1>1, BridgeAssumption DEF IInv, TypeOK
<1>3. Recorded'
  BY <1>1, SameEntries DEF IInv, Recorded
<1>4. Identified'
  <2>1. bridge.nextCall \in Nat /\ requests \in Nat
    BY BridgeAssumption DEF IInv, TypeOK
  <2> QED
    BY <2>1, <1>1 DEF IInv, Identified
<1>5. Fixed' /\ Ended' /\ Marked'
  BY <1>1 DEF IInv, Fixed, Ended, Marked
<1> QED
  BY <1>2, <1>3, <1>4, <1>5 DEF IInv

\* An answer without a call.
LEMMA HandleStep == ASSUME IInv, Handle PROVE IInv'
<1>1. /\ conn.pc = "handle" /\ conn.id = 0 /\ log = <<>>
      /\ UNCHANGED <<host, requests, log, prompt, cancelled, unknown, abandoned>>
  BY DEF Handle, IInv, Identified, Recorded
<1>2. PICK a \in AnswerKinds : Answers(a)
  BY DEF Handle, AnswerKinds
<1>3. \/ UNCHANGED bridge
      \/ \E v \in {"known", "latest"} : bridge' = [bridge EXCEPT !.version = v]
  BY DEF Handle
<1>4. /\ conn' \in ConnType /\ conn'.pc = "respond" /\ conn'.id = conn.id
  BY <1>2, AnswersFacts DEF IInv
<1>5. /\ bridge' \in BridgeType /\ bridge'.nextCall = bridge.nextCall
      /\ bridge'.generation = bridge.generation /\ bridge'.tools = bridge.tools
      /\ bridge'.active = bridge.active /\ bridge'.uncertain = bridge.uncertain
  <2>1. bridge \in BridgeType
    BY DEF IInv, TypeOK, BridgeType
  <2> QED
    BY <2>1, <1>3 DEF BridgeType
<1>6. TypeOK'
  BY <1>1, <1>4, <1>5 DEF IInv, TypeOK, ConnType, BridgeType
<1>7. Recorded' /\ Identified'
  BY <1>1, <1>4, <1>5 DEF IInv, Recorded, Identified
<1>8. Fixed' /\ Ended' /\ Marked'
  BY <1>1, <1>4, <1>5 DEF IInv, Fixed, Ended, Marked
<1> QED
  BY <1>6, <1>7, <1>8 DEF IInv

\* A step within a call keeps everything but what the log and the effects say:
\* whether the bridge is uncertain from now on makes no difference.
LEMMA CallGoesOn ==
    ASSUME IInv, conn.pc \in {"validate", "before", "execute", "running", "after"},
           conn' \in ConnType, conn'.id = conn.id, conn'.tool = conn.tool,
           conn'.pc \in {"before", "execute", "running", "after", "respond"},
           UNCHANGED <<host, requests, prompt, cancelled, abandoned>>,
           UNCHANGED bridge \/ Uncertain,
           log' \in Seq(Entries), unknown' \subseteq 1..MaxRequests
    PROVE  /\ TypeOK' /\ Identified' /\ Fixed' /\ Ended'
           /\ bridge.uncertain => bridge'.uncertain
           /\ Uncertain => bridge'.uncertain
           /\ Accepted' = Accepted /\ Refused' = Refused /\ Ran' = Ran
           /\ Finished(TRUE)' = Finished(TRUE) /\ Finished(FALSE)' = Finished(FALSE)
<1>1. /\ bridge' \in BridgeType /\ bridge'.nextCall = bridge.nextCall
      /\ bridge'.generation = bridge.generation /\ bridge'.tools = bridge.tools
      /\ bridge'.active = bridge.active
      /\ bridge.uncertain => bridge'.uncertain
      /\ Uncertain => bridge'.uncertain
  <2>1. bridge \in BridgeType
    BY DEF IInv, TypeOK, BridgeType
  <2>2. CASE UNCHANGED bridge /\ ~Uncertain
    BY <2>1, <2>2
  <2>3. CASE Uncertain
    BY <2>1, <2>3 DEF Uncertain, BridgeType
  <2> QED
    BY <2>2, <2>3
<1>2. TypeOK'
  BY <1>1 DEF IInv, TypeOK, ConnType, BridgeType
<1>3. Identified'
  BY <1>1 DEF IInv, Identified
<1>4. prompt = "open"
  BY DEF IInv, Ended, TypeOK
<1>5. Fixed' /\ Ended'
  BY <1>1, <1>4 DEF IInv, Fixed, Ended
<1> QED
  BY <1>1, <1>2, <1>3, <1>5, SameEntries

\* The entries of a call that has an id and a tool it was granted.
LEMMA CallEntries ==
    ASSUME IInv, conn.pc \in {"validate", "before", "execute", "running", "after"}
    PROVE  /\ conn.id # 0 /\ conn.tool \in Grants
           /\ Accepted \in Entries /\ Refused \in Entries /\ Ran \in Entries
           /\ Finished(TRUE) \in Entries /\ Finished(FALSE) \in Entries
<1>1. conn.id # 0 /\ conn.tool \in Grants /\ bridge.generation \in 1..(MaxReloads + 1)
  BY DEF IInv, Identified, TypeOK
<1> QED
  BY <1>1, EntryFacts DEF IInv, Accepted, Refused, Ran, Finished

\* A call draws the next id.
LEMMA CallStep == ASSUME IInv, Call PROVE IInv'
<1>1. /\ conn.pc = "handle" /\ conn.id = 0 /\ log = <<>>
      /\ UNCHANGED <<host, requests, log, prompt, cancelled, unknown, abandoned>>
  BY DEF Call, IInv, Identified, Recorded
<1>2. CASE conn.tool \notin bridge.tools
  <2>1. Answers("unknown tool") /\ UNCHANGED bridge
    BY <1>2 DEF Call
  <2>2. conn' \in ConnType /\ conn'.pc = "respond" /\ conn'.id = conn.id
    BY <2>1, AnswersFacts DEF IInv, AnswerKinds
  <2>3. TypeOK'
    BY <1>1, <2>1, <2>2 DEF IInv, TypeOK, ConnType
  <2> QED
    BY <1>1, <2>1, <2>2, <2>3 DEF IInv, Recorded, Identified, Fixed, Ended, Marked
<1>3. CASE conn.tool \in bridge.tools
  <2>1. /\ bridge' = [bridge EXCEPT !.nextCall = bridge.nextCall + 1]
        /\ conn' = [conn EXCEPT !.pc = "validate", !.id = bridge.nextCall]
    BY <1>3 DEF Call
  <2>2. /\ bridge.nextCall \in 1..(MaxRequests + 1) /\ bridge.nextCall <= requests
        /\ requests \in 0..MaxRequests /\ bridge.nextCall \in 1..MaxRequests
    BY <1>1, BridgeAssumption DEF IInv, TypeOK, Identified
  <2>3. /\ bridge' \in BridgeType /\ bridge'.nextCall = bridge.nextCall + 1
        /\ bridge'.generation = bridge.generation /\ bridge'.tools = bridge.tools
        /\ bridge'.active = bridge.active /\ bridge'.uncertain = bridge.uncertain
    <3>1. bridge.nextCall + 1 \in 1..(MaxRequests + 1) /\ bridge \in BridgeType
      BY <2>2, BridgeAssumption DEF IInv, TypeOK, BridgeType
    <3> QED
      BY <2>1, <3>1 DEF BridgeType
  <2>4. /\ conn' \in ConnType /\ conn'.pc = "validate" /\ conn'.id = bridge.nextCall
        /\ conn'.tool = conn.tool
    <3>1. conn \in ConnType /\ bridge.nextCall \in 0..MaxRequests
      BY <2>2, BridgeAssumption DEF IInv, TypeOK, ConnType
    <3> QED
      BY <2>1, <3>1 DEF ConnType, Pcs
  <2>5. TypeOK'
    BY <1>1, <2>2, <2>3, <2>4 DEF IInv, TypeOK, ConnType, BridgeType
  <2>6. Recorded' /\ Identified'
    BY <1>1, <1>3, <2>2, <2>3, <2>4 DEF Recorded, Identified
  <2>7. Fixed' /\ Ended' /\ Marked'
    BY <1>1, <2>3, <2>4 DEF IInv, Fixed, Ended, Marked
  <2> QED
    BY <2>5, <2>6, <2>7 DEF IInv
<1> QED
  BY <1>2, <1>3

\* Arguments that do not fit end the call.
LEMMA ValidateStep == ASSUME IInv, Validate PROVE IInv'
<1>1. /\ conn.pc = "validate" /\ log = <<>>
      /\ UNCHANGED <<host, bridge, requests, prompt, cancelled, unknown, abandoned>>
      /\ unknown' \subseteq 1..MaxRequests
  BY DEF Validate, IInv, Recorded, TypeOK
<1>2. CASE conn' = [conn EXCEPT !.pc = "before"] /\ UNCHANGED log
  <2>1. /\ conn' \in ConnType /\ conn'.pc = "before"
        /\ conn'.id = conn.id /\ conn'.tool = conn.tool
    BY <1>2, PcFacts DEF IInv, Pcs
  <2>2. log' \in Seq(Entries)
    BY <1>2 DEF IInv, TypeOK
  <2>3. TypeOK' /\ Identified' /\ Fixed' /\ Ended'
    BY <1>1, <2>1, <2>2, CallGoesOn
  <2>4. Recorded' /\ Marked'
    BY <1>1, <1>2, <2>1 DEF IInv, Recorded, Marked
  <2> QED
    BY <2>3, <2>4 DEF IInv
<1>3. CASE Answers("tool error") /\ Record("before_tool", FALSE)
  <2>1. /\ conn' \in ConnType /\ conn'.pc = "respond"
        /\ conn'.id = conn.id /\ conn'.tool = conn.tool
    BY <1>3, AnswersFacts DEF IInv, AnswerKinds
  <2>2. log' = <<Refused>> /\ Refused \in Entries /\ conn.id # 0
    BY <1>1, <1>3, CallEntries, AppendFacts DEF Record, Refused
  <2>3. log' \in Seq(Entries)
    BY <2>2
  <2>4. TypeOK' /\ Identified' /\ Fixed' /\ Ended' /\ Refused' = Refused
    BY <1>1, <2>1, <2>3, CallGoesOn
  <2>5. Recorded'
    BY <2>1, <2>2, <2>4 DEF Recorded
  <2>6. Marked'
    BY <1>1, <2>1 DEF IInv, Marked
  <2> QED
    BY <2>4, <2>5, <2>6 DEF IInv
<1> QED
  BY <1>2, <1>3 DEF Validate

\* Only a call its hooks accepted is executed.
LEMMA BeforeToolStep == ASSUME IInv, BeforeTool PROVE IInv'
<1>1. /\ conn.pc = "before" /\ log = <<>> /\ unknown' \subseteq 1..MaxRequests
      /\ UNCHANGED <<host, requests, prompt, cancelled, unknown, abandoned>>
  BY DEF BeforeTool, IInv, Recorded, TypeOK
<1>2. UNCHANGED bridge \/ Uncertain
  BY DEF BeforeTool
<1>3. \E ok \in BOOLEAN :
         /\ conn' \in ConnType /\ conn'.pc = (IF ok THEN "execute" ELSE "respond")
         /\ conn'.id = conn.id /\ conn'.tool = conn.tool
         /\ log' = IF ok THEN <<Accepted>> ELSE <<Refused>>
  <2>1. CASE conn' = [conn EXCEPT !.pc = "execute"] /\ Record("before_tool", TRUE)
    <3>1. /\ conn' \in ConnType /\ conn'.pc = "execute"
          /\ conn'.id = conn.id /\ conn'.tool = conn.tool
      BY <2>1, PcFacts DEF IInv, Pcs
    <3>2. log' = <<Accepted>>
      BY <1>1, <2>1, CallEntries, AppendFacts DEF Record, Accepted
    <3> QED
      BY <3>1, <3>2
  <2>2. CASE Answers("tool error") /\ Record("before_tool", FALSE)
    <3>1. /\ conn' \in ConnType /\ conn'.pc = "respond"
          /\ conn'.id = conn.id /\ conn'.tool = conn.tool
      BY <2>2, AnswersFacts DEF IInv, AnswerKinds
    <3>2. log' = <<Refused>>
      BY <1>1, <2>2, CallEntries, AppendFacts DEF Record, Refused
    <3> QED
      BY <3>1, <3>2
  <2> QED
    BY <2>1, <2>2 DEF BeforeTool
<1>4. log' \in Seq(Entries) /\ conn.id # 0
  BY <1>1, <1>3, CallEntries
<1>5. /\ TypeOK' /\ Identified' /\ Fixed' /\ Ended'
      /\ Accepted' = Accepted /\ Refused' = Refused
      /\ bridge.uncertain => bridge'.uncertain
  BY <1>1, <1>2, <1>3, <1>4, CallGoesOn
<1>6. Recorded'
  BY <1>3, <1>4, <1>5 DEF Recorded
<1>7. Marked'
  BY <1>1, <1>5 DEF IInv, Marked
<1> QED
  BY <1>5, <1>6, <1>7 DEF IInv

\* What is executed leaves an entry and an effect whose outcome is not known.
LEMMA ExecuteStep == ASSUME IInv, Execute PROVE IInv'
<1>1. /\ conn.pc = "execute" /\ log = <<Accepted>>
      /\ UNCHANGED <<host, bridge, requests, prompt, cancelled, abandoned>>
  BY DEF Execute, IInv, Recorded
<1>2. conn.id # 0 /\ Accepted \in Entries /\ Ran \in Entries
  BY <1>1, CallEntries
<1>3. CASE conn' = [conn EXCEPT !.pc = "after"] /\ UNCHANGED <<log, unknown>>
  <2>1. /\ conn' \in ConnType /\ conn'.pc = "after"
        /\ conn'.id = conn.id /\ conn'.tool = conn.tool
    BY <1>3, PcFacts DEF IInv, Pcs
  <2>2. log' \in Seq(Entries) /\ unknown' \subseteq 1..MaxRequests
    BY <1>3 DEF IInv, TypeOK
  <2>3. TypeOK' /\ Identified' /\ Fixed' /\ Ended' /\ Accepted' = Accepted
    BY <1>1, <2>1, <2>2, CallGoesOn
  <2>4. Recorded'
    BY <1>1, <1>3, <2>1, <2>3 DEF Recorded
  <2>5. Marked'
    BY <1>1, <1>3, <2>1 DEF IInv, Marked
  <2> QED
    BY <2>3, <2>4, <2>5 DEF IInv
<1>4. CASE Executes /\ host.generation = bridge.generation
  <2>1. /\ conn' \in ConnType /\ conn'.pc = "running"
        /\ conn'.id = conn.id /\ conn'.tool = conn.tool
    BY <1>4, PcFacts DEF Executes, IInv, Pcs
  <2>2. log' = <<Accepted, Ran>>
    BY <1>1, <1>2, <1>4, AppendFacts DEF Executes, Ran
  <2>3. log' \in Seq(Entries)
    BY <1>2, <2>2
  <2>4. unknown' = unknown \cup {conn.id} /\ unknown' \subseteq 1..MaxRequests
    BY <1>2, <1>4, BridgeAssumption DEF Executes, IInv, TypeOK
  <2>5. /\ TypeOK' /\ Identified' /\ Fixed' /\ Ended'
        /\ Accepted' = Accepted /\ Ran' = Ran
    BY <1>1, <2>1, <2>3, <2>4, CallGoesOn
  <2>6. Recorded'
    BY <2>1, <2>2, <2>5 DEF Recorded
  <2>7. Marked'
    BY <1>1, <2>1, <2>4 DEF IInv, Marked
  <2> QED
    BY <2>5, <2>6, <2>7 DEF IInv
<1> QED
  BY <1>3, <1>4 DEF Execute

\* The tool's outcome is known, or the bridge is uncertain.
LEMMA ToolAnswersStep == ASSUME IInv, ToolAnswers PROVE IInv'
<1>1. /\ conn.pc = "running" /\ log = <<Accepted, Ran>>
      /\ conn' = [conn EXCEPT !.pc = "after"]
      /\ UNCHANGED <<host, requests, log, prompt, cancelled, abandoned>>
  BY DEF ToolAnswers, IInv, Recorded
<1>2. \/ unknown' = unknown \ {conn.id} /\ UNCHANGED bridge
      \/ Uncertain /\ UNCHANGED unknown
  BY DEF ToolAnswers
<1>3. /\ conn' \in ConnType /\ conn'.pc = "after"
      /\ conn'.id = conn.id /\ conn'.tool = conn.tool
  BY <1>1, PcFacts DEF IInv, Pcs
<1>4. log' \in Seq(Entries) /\ unknown' \subseteq 1..MaxRequests
  BY <1>1, <1>2 DEF IInv, TypeOK
<1>5. /\ TypeOK' /\ Identified' /\ Fixed' /\ Ended'
      /\ Accepted' = Accepted /\ Ran' = Ran
      /\ bridge.uncertain => bridge'.uncertain
      /\ Uncertain => bridge'.uncertain
  BY <1>1, <1>2, <1>3, <1>4, CallGoesOn
<1>6. Recorded'
  BY <1>1, <1>3, <1>5 DEF Recorded
<1>7. Marked'
  BY <1>1, <1>2, <1>5 DEF IInv, Marked
<1> QED
  BY <1>5, <1>6, <1>7 DEF IInv

\* Every call that was accepted ends with one after_tool outcome.
LEMMA AfterToolStep == ASSUME IInv, AfterTool PROVE IInv'
<1>1. /\ conn.pc = "after"
      /\ log = <<Accepted>> \/ log = <<Accepted, Ran>>
      /\ Answers("tool result") /\ unknown' \subseteq 1..MaxRequests
      /\ UNCHANGED <<host, requests, prompt, cancelled, unknown, abandoned>>
  BY DEF AfterTool, IInv, Recorded, TypeOK
<1>2. UNCHANGED bridge \/ Uncertain
  BY DEF AfterTool
<1>3. PICK last \in {Finished(TRUE), Finished(FALSE)} : log' = Append(log, last)
  BY DEF AfterTool, Record, Finished
<1>4. /\ conn' \in ConnType /\ conn'.pc = "respond"
      /\ conn'.id = conn.id /\ conn'.tool = conn.tool
  BY <1>1, AnswersFacts DEF IInv, AnswerKinds
<1>5. conn.id # 0 /\ Accepted \in Entries /\ Ran \in Entries /\ last \in Entries
  BY <1>1, CallEntries
<1>6. log' = <<Accepted, last>> \/ log' = <<Accepted, Ran, last>>
  <2>1. CASE log = <<Accepted>>
    BY <2>1, <1>3, <1>5, AppendFacts
  <2>2. CASE log = <<Accepted, Ran>>
    BY <2>2, <1>3, <1>5, AppendFacts
  <2> QED
    BY <1>1, <2>1, <2>2
<1>7. log' \in Seq(Entries)
  BY <1>3, <1>5 DEF IInv, TypeOK
<1>8. /\ TypeOK' /\ Identified' /\ Fixed' /\ Ended'
      /\ Accepted' = Accepted /\ Ran' = Ran
      /\ Finished(TRUE)' = Finished(TRUE) /\ Finished(FALSE)' = Finished(FALSE)
      /\ bridge.uncertain => bridge'.uncertain
  BY <1>1, <1>2, <1>4, <1>7, CallGoesOn
<1>9. Recorded'
  <2>1. last \in {Finished(TRUE)', Finished(FALSE)'}
    BY <1>8
  <2>2. \E l \in {Finished(TRUE)', Finished(FALSE)'} :
           log' = <<Accepted', l>> \/ log' = <<Accepted', Ran', l>>
    BY <1>6, <1>8, <2>1
  <2> QED
    BY <1>4, <1>5, <2>2 DEF Recorded
<1>10. Marked'
  BY <1>1, <1>8 DEF IInv, Marked
<1> QED
  BY <1>8, <1>9, <1>10 DEF IInv

\* A connection that is closed, or dropped while its call may be running, leaves
\* no log behind.
LEMMA Closes ==
    ASSUME IInv, conn' = NoConnection, log' = <<>>,
           UNCHANGED <<host, bridge, requests, cancelled, unknown>>,
           prompt' \in {"open", "answered", "cancelled", "error"},
           prompt # "open" => prompt' = prompt,
           abandoned \subseteq abandoned' /\ abandoned' \subseteq 1..MaxRequests,
           \/ conn.pc # "running" \/ conn.id \in abandoned'
           \/ prompt' \in {"cancelled", "error"}
    PROVE  IInv'
<1>1. conn' \in ConnType /\ conn'.pc = "none" /\ conn'.id = 0
  BY NoConnectionFacts
<1>2. TypeOK'
  <2>1. log' \in Seq(Entries) /\ conn'.id < bridge'.nextCall
    BY <1>1 DEF IInv, TypeOK
  <2> QED
    BY <1>1, <2>1 DEF IInv, TypeOK, ConnType
<1>3. Recorded' /\ Identified'
  BY <1>1 DEF IInv, Recorded, Identified
<1>4. Fixed' /\ Ended'
  <2>1. prompt' # "open" \/ prompt = "open"
    OBVIOUS
  <2>2. ~bridge.active => prompt' = prompt
    BY DEF IInv, Ended
  <2> QED
    BY <1>1, <2>1, <2>2 DEF IInv, Fixed, Ended
<1>5. Marked'
  <2>1. CASE prompt \in {"cancelled", "error"}
    BY <2>1 DEF Marked
  <2>2. CASE prompt \notin {"cancelled", "error"}
    BY <2>2, <1>1 DEF IInv, Marked
  <2> QED
    BY <2>1, <2>2
<1> QED
  BY <1>2, <1>3, <1>4, <1>5 DEF IInv

\* The prompt has ended, and the bridge with it.
LEMMA RevokeStep == ASSUME IInv, Revoke PROVE IInv'
<1>1. /\ prompt # "open" /\ bridge' = [bridge EXCEPT !.active = FALSE]
      /\ prompt' = IF prompt = "answered" /\ bridge.uncertain THEN "uncertain" ELSE prompt
      /\ UNCHANGED <<host, conn, requests, log, cancelled, unknown, abandoned>>
  BY DEF Revoke
<1>2. /\ bridge' \in BridgeType /\ bridge'.nextCall = bridge.nextCall
      /\ bridge'.generation = bridge.generation /\ bridge'.tools = bridge.tools
      /\ bridge'.uncertain = bridge.uncertain
  <2>1. bridge \in BridgeType
    BY DEF IInv, TypeOK, BridgeType
  <2> QED
    BY <2>1, <1>1 DEF BridgeType
<1>3. TypeOK'
  BY <1>1, <1>2 DEF IInv, TypeOK, BridgeType
<1>4. Recorded'
  BY <1>1, <1>2, SameEntries DEF IInv, Recorded
<1>5. Identified' /\ Fixed' /\ Ended' /\ Marked'
  BY <1>1, <1>2 DEF IInv, Identified, Fixed, Ended, Marked
<1> QED
  BY <1>3, <1>4, <1>5 DEF IInv

\* Every step keeps the invariant.
LEMMA NextIInv == IInv /\ [Next]_vars => IInv'
<1> SUFFICES ASSUME IInv, [Next]_vars PROVE IInv'
  OBVIOUS
<1>1. CASE Serve
  <2>1. CASE Respond
    <3>1. abandoned' \subseteq 1..MaxRequests /\ prompt' = "open"
      BY <2>1 DEF Respond, IInv, TypeOK, Ended
    <3> QED
      BY <2>1, <3>1, Closes DEF Respond
  <2> QED
    BY <1>1, <2>1, HandleStep, CallStep, ValidateStep, BeforeToolStep, ExecuteStep,
       ToolAnswersStep, AfterToolStep DEF Serve
<1>2. CASE HarnessWritesUpdate \/ PromptAnswered
  <2>1. /\ prompt = "open" /\ conn' = NoConnection /\ log' = <<>> /\ Abandon
        /\ UNCHANGED <<host, bridge, requests, cancelled, unknown>>
        /\ prompt' \in {"open", "answered"}
    BY <1>2 DEF HarnessWritesUpdate, PromptAnswered
  <2>2. abandoned \subseteq abandoned' /\ abandoned' \subseteq 1..MaxRequests
    <3>1. conn.id \in 0..MaxRequests /\ abandoned \subseteq 1..MaxRequests
      BY DEF IInv, TypeOK
    <3>2. abandoned' = abandoned \cup ({conn.id} \ {0})
      BY <2>1 DEF Abandon
    <3>3. \A i \in {conn.id} \ {0} : i \in 1..MaxRequests
      BY <3>1, BridgeAssumption
    <3> QED
      BY <3>1, <3>2, <3>3
  <2>3. conn.pc = "running" => conn.id \in abandoned'
    BY <2>1 DEF Abandon, IInv, Identified
  <2> QED
    BY <2>1, <2>2, <2>3, Closes
<1>3. CASE PromptEnds
  <2>1. /\ prompt = "open" /\ prompt' \in {"cancelled", "error"}
        /\ abandoned' \subseteq 1..MaxRequests
    BY <1>3 DEF PromptEnds, IInv, TypeOK
  <2> QED
    BY <1>3, <2>1, Closes DEF PromptEnds
<1>4. CASE UNCHANGED vars
  <2>1. UNCHANGED <<host, bridge, conn, requests, log, prompt, cancelled, unknown, abandoned>>
    BY <1>4 DEF vars
  <2>2. TypeOK'
    BY <2>1 DEF IInv, TypeOK
  <2>3. Recorded'
    BY <2>1, SameEntries DEF IInv, Recorded
  <2> QED
    BY <2>1, <2>2, <2>3 DEF IInv, Identified, Fixed, Ended, Marked
<1> QED
  BY <1>1, <1>2, <1>3, <1>4, ReloadStep, CancelStep, AcceptStep, MalformedStep,
     RevokeStep DEF Next

--------------------
(* The theorems.                                                           *)

\* What the invariant says of the bridge and its calls holds in every reachable
\* state, for any catalogs and any number of requests (TurnMcpBridge).
THEOREM InvariantHolds == Spec => []IInv
<1> QED
  BY InitIInv, NextIInv, PTL DEF Spec

\* The bridge, its connection and its log keep their types, and ids are drawn in
\* turn.
THEOREM TypeCorrect == Spec => []TypeOK
<1>1. IInv => TypeOK
  BY DEF IInv
<1> QED
  BY <1>1, InvariantHolds, PTL

\* What the entries of the call at hand say.
LEMMA FieldFacts ==
    /\ Accepted.event = "before_tool" /\ Accepted.ok = TRUE
    /\ Refused.event = "before_tool" /\ Refused.ok = FALSE
    /\ Ran.event = "execute"
    /\ Accepted = [Ran EXCEPT !.event = "before_tool", !.ok = TRUE]
    /\ Finished(TRUE).event = "after_tool" /\ Finished(FALSE).event = "after_tool"
<1>1. Accepted.event = "before_tool" /\ Accepted.ok = TRUE
  BY DEF Accepted, Entry
<1>2. Refused.event = "before_tool" /\ Refused.ok = FALSE
  BY DEF Refused, Entry
<1>3. Ran.event = "execute"
  BY DEF Ran, Entry
<1>4. Accepted = [Ran EXCEPT !.event = "before_tool", !.ok = TRUE]
  <2> DEFINE T == [id : {conn.id}, event : {"before_tool"}, ok : {TRUE},
                   tool : {conn.tool}, generation : {bridge.generation}]
             edited == [Ran EXCEPT !.event = "before_tool", !.ok = TRUE]
  <2>1. Accepted \in T
    BY DEF Accepted, Entry
  <2>2. edited \in T
    BY DEF Ran, Entry
  <2>3. ASSUME NEW r \in T
        PROVE  r = [id |-> conn.id, event |-> "before_tool", ok |-> TRUE,
                    tool |-> conn.tool, generation |-> bridge.generation]
    OBVIOUS
  <2> QED
    BY <2>1, <2>2, <2>3
<1>5. Finished(TRUE).event = "after_tool" /\ Finished(FALSE).event = "after_tool"
  BY DEF Finished, Entry
<1> QED
  BY <1>1, <1>2, <1>3, <1>4, <1>5

\* The entries of a log that is written out.
LEMMA TupleFacts ==
    ASSUME NEW a, NEW b, NEW c
    PROVE  /\ DOMAIN <<a>> = {1} /\ <<a>>[1] = a
           /\ DOMAIN <<a, b>> = {1, 2} /\ <<a, b>>[1] = a /\ <<a, b>>[2] = b
           /\ DOMAIN <<a, b, c>> = {1, 2, 3} /\ <<a, b, c>>[1] = a
           /\ <<a, b, c>>[2] = b /\ <<a, b, c>>[3] = c
<1>1. DOMAIN <<a>> = {1} /\ <<a>>[1] = a
  OBVIOUS
<1>2. DOMAIN <<a, b>> = {1, 2} /\ <<a, b>>[1] = a /\ <<a, b>>[2] = b
  OBVIOUS
<1>3. /\ DOMAIN <<a, b, c>> = {1, 2, 3} /\ <<a, b, c>>[1] = a
      /\ <<a, b, c>>[2] = b /\ <<a, b, c>>[3] = c
  OBVIOUS
<1> QED
  BY <1>1, <1>2, <1>3

\* The forms a log can have.
LEMMA LogForms ==
    ASSUME IInv
    PROVE  \/ log = <<>>
           \/ log = <<Refused>> \/ log = <<Accepted>> \/ log = <<Accepted, Ran>>
           \/ \E last \in {Finished(TRUE), Finished(FALSE)} :
                 log = <<Accepted, last>> \/ log = <<Accepted, Ran, last>>
BY DEF IInv, Recorded, TypeOK, Pcs

\* An extension runs only after the before_tool hooks accepted that very call
\* (TurnMcpBridge::call): in the invariant an execution follows its acceptance.
LEMMA GateFollows == IInv => HooksGateExecution
<1> SUFFICES ASSUME IInv, NEW i \in DOMAIN log, log[i].event = "execute"
             PROVE  \E j \in 1..(i - 1) :
                       log[j] = [log[i] EXCEPT !.event = "before_tool", !.ok = TRUE]
  BY DEF HooksGateExecution, Executions
<1>1. i = 2 /\ log[2] = Ran /\ log[1] = Accepted
  <2>1. log # <<>>
    OBVIOUS
  <2>2. CASE log = <<Refused>> \/ log = <<Accepted>>
    <3>1. DOMAIN log = {1} /\ (log[1] = Refused \/ log[1] = Accepted)
      BY <2>2, TupleFacts
    <3> QED
      BY <3>1, FieldFacts
  <2>3. CASE log = <<Accepted, Ran>>
    <3>1. DOMAIN log = {1, 2} /\ log[1] = Accepted /\ log[2] = Ran
      BY <2>3, TupleFacts
    <3> QED
      BY <3>1, FieldFacts
  <2>4. ASSUME NEW last \in {Finished(TRUE), Finished(FALSE)}, log = <<Accepted, last>>
        PROVE  FALSE
    <3>1. last.event = "after_tool"
      BY <2>4, FieldFacts
    <3>2. DOMAIN log = {1, 2} /\ log[1] = Accepted /\ log[2] = last
      BY <2>4, TupleFacts
    <3> QED
      BY <3>1, <3>2, FieldFacts
  <2>5. ASSUME NEW last \in {Finished(TRUE), Finished(FALSE)},
               log = <<Accepted, Ran, last>>
        PROVE  i = 2 /\ log[2] = Ran /\ log[1] = Accepted
    <3>1. last.event = "after_tool"
      BY <2>5, FieldFacts
    <3>2. /\ DOMAIN log = {1, 2, 3} /\ log[1] = Accepted /\ log[2] = Ran
          /\ log[3] = last
      BY <2>5, TupleFacts
    <3> QED
      BY <3>1, <3>2, FieldFacts
  <2> QED
    BY <2>1, <2>2, <2>3, <2>4, <2>5, LogForms
<1> QED
  BY <1>1, FieldFacts

\* Every answered call has its outcomes on record (record_hook): in the invariant
\* the log of an answered call has one of three forms.
LEMMA RecordFollows == IInv => OutcomesAreRecorded
<1> SUFFICES ASSUME IInv, conn.pc = "respond", conn.id # 0
             PROVE  \E i \in DOMAIN log :
                       /\ Records("before_tool") = {i}
                       /\ log[i].ok <=> Records("after_tool") # {}
                       /\ \A j \in Records("after_tool") :
                             i < j /\ Records("after_tool") = {j}
  BY DEF OutcomesAreRecorded
<1>1. CASE log = <<Refused>>
  <2>1. Records("before_tool") = {1} /\ Records("after_tool") = {}
    BY <1>1, FieldFacts DEF Records
  <2> QED
    BY <1>1, <2>1, FieldFacts
<1>2. ASSUME NEW last \in {Finished(TRUE), Finished(FALSE)}, log = <<Accepted, last>>
      PROVE  Records("before_tool") = {1} /\ Records("after_tool") = {2} /\ log[1] = Accepted
             /\ 1 \in DOMAIN log
  <2>1. last.event = "after_tool"
    BY <1>2, FieldFacts
  <2>2. DOMAIN log = {1, 2} /\ log[1] = Accepted /\ log[2] = last
    BY <1>2, TupleFacts
  <2>3. \A i \in DOMAIN log : /\ log[i].event = "before_tool" <=> i = 1
                              /\ log[i].event = "after_tool" <=> i = 2
    BY <2>1, <2>2, FieldFacts
  <2> QED
    BY <2>2, <2>3 DEF Records
<1>3. ASSUME NEW last \in {Finished(TRUE), Finished(FALSE)}, log = <<Accepted, Ran, last>>
      PROVE  Records("before_tool") = {1} /\ Records("after_tool") = {3} /\ log[1] = Accepted
             /\ 1 \in DOMAIN log
  <2>1. last.event = "after_tool"
    BY <1>3, FieldFacts
  <2>2. DOMAIN log = {1, 2, 3} /\ log[1] = Accepted /\ log[2] = Ran /\ log[3] = last
    BY <1>3, TupleFacts
  <2>3. \A i \in DOMAIN log : /\ log[i].event = "before_tool" <=> i = 1
                              /\ log[i].event = "after_tool" <=> i = 3
    BY <2>1, <2>2, FieldFacts
  <2> QED
    BY <2>2, <2>3 DEF Records
<1>4. ASSUME NEW k \in {2, 3}, Records("before_tool") = {1}, Records("after_tool") = {k},
             log[1] = Accepted, 1 \in DOMAIN log
      PROVE  \E i \in DOMAIN log :
                /\ Records("before_tool") = {i}
                /\ log[i].ok <=> Records("after_tool") # {}
                /\ \A j \in Records("after_tool") :
                      i < j /\ Records("after_tool") = {j}
  <2>1. log[1].ok = TRUE /\ Records("after_tool") # {}
    BY <1>4, FieldFacts
  <2>2. \A j \in Records("after_tool") : 1 < j /\ Records("after_tool") = {j}
    BY <1>4
  <2> QED
    BY <1>4, <2>1, <2>2
<1>5. \/ log = <<Refused>>
      \/ \E last \in {Finished(TRUE), Finished(FALSE)} :
            log = <<Accepted, last>> \/ log = <<Accepted, Ran, last>>
  BY DEF IInv, Recorded
<1> QED
  BY <1>1, <1>2, <1>3, <1>4, <1>5

\* An extension effect whose outcome nobody observed makes the Turn uncertain
\* (preserve_effect_uncertainty): a Turn that counts as answered and has revoked
\* its bridge runs nothing, and is not uncertain.
LEMMA UncertaintyFollows == IInv => UncertaintyReachesTheTurn
BY DEF IInv, Ended, Marked, UncertaintyReachesTheTurn

\* What a Harness does through the bridge of its Turn is gated by its hooks, on
\* record, and uncertain when its outcome is (TurnMcpBridge::call).
THEOREM CallsAreGated == Spec => []BridgedCallsAreGated
<1>1. IInv => BridgedCallsAreGated
  BY GateFollows, RecordFollows, UncertaintyFollows DEF IInv, BridgedCallsAreGated
<1> QED
  BY <1>1, InvariantHolds, PTL

\* A reload of the Host's catalog adds no authority to a Turn: what a step executes
\* was granted when the Turn began, and the Host still serves that catalog
\* (for_extensions_and_skills, execute_at_generation).
THEOREM AuthorityStaysFixed == Spec => AuthorityIsFixed
<1> DEFINE Executable ==
      \A i \in DOMAIN log' \ DOMAIN log :
         log'[i].event = "execute" =>
            /\ log'[i].tool \in bridge.tools \cap Allowed
            /\ log'[i].tool \notin Native
            /\ log'[i].generation = 1
<1>1. IInv /\ [Next]_vars => [Executable]_vars
  <2> SUFFICES ASSUME IInv, Next, NEW i \in DOMAIN log', i \notin DOMAIN log,
                      log'[i].event = "execute"
               PROVE  /\ log'[i].tool \in bridge.tools \cap Allowed
                      /\ log'[i].tool \notin Native
                      /\ log'[i].generation = 1
    OBVIOUS
  <2>1. CASE Executes /\ Execute
    <3>1. /\ conn.pc = "execute" /\ log = <<Accepted>> /\ conn.id # 0
          /\ conn.tool \in Grants /\ conn.tool \in bridge.tools
          /\ conn.tool \notin SkillTools /\ host.generation = 1
      <4>1. conn.pc = "execute"
        BY <2>1 DEF Execute
      <4>2. conn' # [conn EXCEPT !.pc = "after"]
        <5>1. conn'.pc = "running"
          BY <2>1 DEF Executes, IInv, TypeOK
        <5>2. [conn EXCEPT !.pc = "after"].pc = "after"
          BY DEF IInv, TypeOK
        <5> QED
          BY <5>1, <5>2
      <4>3. conn.tool \notin SkillTools /\ host.generation = bridge.generation
        BY <2>1, <4>2 DEF Execute
      <4> QED
        BY <4>1, <4>3, CallEntries DEF IInv, Recorded, Identified, Fixed
    <3>2. Ran \in Entries /\ Accepted \in Entries
      BY <3>1, CallEntries
    <3>3. log' = <<Accepted, Ran>>
      <4>1. log' = Append(log, Ran)
        BY <2>1, <3>1 DEF Executes, Ran, IInv, Fixed
      <4> QED
        BY <3>1, <3>2, <4>1, AppendFacts
    <3>4. log'[i] = Ran
      <4>1. DOMAIN log' = {1, 2} /\ log'[2] = Ran /\ DOMAIN log = {1}
        BY <3>1, <3>3, TupleFacts
      <4> QED
        BY <4>1
    <3>5. Ran.tool = conn.tool /\ Ran.generation = bridge.generation
      BY DEF Ran, Entry
    <3>6. conn.tool \in Allowed /\ conn.tool \notin Native /\ bridge.generation = 1
      BY <3>1 DEF IInv, Fixed
    <3> QED
      BY <3>1, <3>4, <3>5, <3>6
  <2>2. ASSUME NEW hook \in {"before_tool", "after_tool"}, NEW ok \in BOOLEAN,
               Record(hook, ok)
        PROVE  FALSE
    <3>1. log \in Seq(Entries)
      BY DEF IInv, TypeOK
    <3>2. i = Len(log) + 1 /\ log'[i] = Entry(hook, ok, bridge.generation)
      BY <2>2, <3>1 DEF Record
    <3>3. Entry(hook, ok, bridge.generation).event = hook
      BY DEF Entry
    <3> QED
      BY <3>2, <3>3
  <2>3. log' # log /\ log' # <<>>
    OBVIOUS
  <2>4. Validate \/ BeforeTool \/ AfterTool => FALSE
    BY <2>2, <2>3 DEF Validate, BeforeTool, AfterTool
  <2>5. Execute
    BY <2>3, <2>4 DEF Next, Serve, Reload, Cancel, Accept, Malformed, Handle, Call,
       ToolAnswers, Respond, HarnessWritesUpdate, PromptAnswered, PromptEnds, Revoke
  <2>6. Executes
    BY <2>3, <2>5 DEF Execute
  <2> QED
    BY <2>1, <2>5, <2>6
<1> QED
  BY <1>1, InvariantHolds, PTL DEF Spec, AuthorityIsFixed

--------------------
(* The process of a tool call (ToolProcess). *)

CONSTANTS
  MaxOutput, MaxWritten, MaxInput, Reject, MayFork

VARIABLES
  leader, waited, descendants, pipe, written, output, discarded, input,
  process_call, process_result, process_cancelled

Process == INSTANCE ToolProcess WITH
  call <- process_call, result <- process_result, cancelled <- process_cancelled

\* The counters are natural numbers, and the type.
ProcessCountersAreNat ==
    /\ pipe \in Nat /\ written \in Nat /\ output \in Nat /\ discarded \in Nat /\ input \in Nat
    /\ waited \in BOOLEAN /\ process_cancelled \in BOOLEAN
    /\ Process!TypeOK

\* Before the operation nothing has happened; in it there is a leader.
ProcessBegins ==
    /\ (process_call = "start") <=> (leader = "none" /\ process_result = "none")
    /\ (process_call = "result") <=> (process_result # "none")
    /\ leader = "none" => ~waited /\ descendants = "none"
    /\ process_call = "start" => pipe = 0 /\ written = 0 /\ output = 0 /\ discarded = 0

\* A reaped leader is dead.
ProcessReaped == waited => leader \in {"exited", "killed"}

\* Nothing of the output is lost while the operation reads, and a successful result
\* was given when nothing could write any more.
ProcessCounted ==
    /\ process_call # "result" \/ process_result = "ok" => written = pipe + output + discarded
    /\ output <= MaxOutput
    /\ discarded > 0 => output = MaxOutput /\ ~Reject
    /\ process_result = "ok" => pipe = 0 /\ ~Process!HoldsPipes

\* After the call the leader is dead, and so is its group unless the leader had been
\* reaped before; only the end of the call kills.
ProcessDead ==
    /\ process_call = "result" => leader # "running"
    /\ process_call = "result" /\ ~waited => ~Process!Alive
    /\ leader = "killed" => process_call = "result"
    /\ process_result = "ok" => waited /\ leader = "exited"

ProcessIInv == ProcessCountersAreNat /\ ProcessBegins /\ ProcessReaped /\ ProcessCounted /\ ProcessDead

\* The invariant says what a call promises about its process.
LEMMA ProcessInvImplies == ProcessIInv => Process!ProcessesEndWithTheirCall
  BY DEF ProcessIInv, ProcessCountersAreNat, ProcessCounted, ProcessDead,
       Process!ProcessesEndWithTheirCall, Process!SuccessIsComplete, Process!OutputIsLimited,
       Process!LeaderDiesWithTheCall, Process!GroupIsKilled

\* The invariant holds before the call.
LEMMA ProcessInitInv == Process!ProcessAssumption /\ Process!Init => ProcessIInv
<1>1. Process!ProcessAssumption => MaxOutput \in Nat /\ MaxInput \in Nat BY DEF Process!ProcessAssumption
<1>2. ASSUME Process!ProcessAssumption, Process!Init PROVE ProcessIInv
  <2>a. waited \in BOOLEAN /\ process_cancelled \in BOOLEAN BY <1>2, Zenon DEF Process!Init
  <2>b. pipe \in Nat /\ written \in Nat /\ output \in Nat /\ discarded \in Nat /\ input \in Nat
    BY <1>1, <1>2 DEF Process!Init
  <2>c. Process!TypeOK BY <1>2 DEF Process!Init, Process!TypeOK
  <2>1. ProcessCountersAreNat BY <2>a, <2>b, <2>c, Zenon DEF ProcessCountersAreNat
  <2>2. ProcessBegins BY <1>2 DEF Process!Init, ProcessBegins
  <2>3. ProcessReaped BY <1>2 DEF Process!Init, ProcessReaped
  <2>4. ProcessCounted BY <1>1, <1>2 DEF Process!Init, ProcessCounted
  <2> QED BY <1>2, <2>1, <2>2, <2>3, <2>4 DEF Process!Init, ProcessDead, ProcessIInv
<1> QED BY <1>2

\* Every step of the process, of its readers and of the call keeps the invariant.
LEMMA ProcessNextInv == ASSUME Process!ProcessAssumption, ProcessIInv, [Process!Next]_Process!vars PROVE ProcessIInv'
<1> MaxOutput \in Nat BY DEF Process!ProcessAssumption
<1> USE DEF ProcessIInv, ProcessCountersAreNat, Process!TypeOK, ProcessBegins, ProcessReaped, ProcessCounted, ProcessDead,
         Process!Alive, Process!HoldsPipes
<1>1. CASE Process!Spawn BY <1>1 DEF Process!Spawn
<1>2. CASE Process!Fork BY <1>2 DEF Process!Fork
<1>3. CASE Process!WriteOutput BY <1>3 DEF Process!WriteOutput
<1>4. CASE Process!LeaderExits BY <1>4 DEF Process!LeaderExits
<1>5. CASE Process!DescendantExits BY <1>5 DEF Process!DescendantExits
<1>6. CASE Process!Wait BY <1>6 DEF Process!Wait
<1>7. CASE Process!ReadOutput BY <1>7 DEF Process!ReadOutput, Process!Ends, Process!KillGroup, Process!HasId
<1>8. CASE Process!WriteInput BY <1>8 DEF Process!WriteInput, Process!Ends, Process!KillGroup, Process!HasId
<1>9. CASE Process!Joined BY <1>9 DEF Process!Joined, Process!Ends
<1>10. CASE Process!TimesOut BY <1>10 DEF Process!TimesOut, Process!Ends, Process!KillGroup, Process!HasId
<1>11. CASE Process!Cancel BY <1>11 DEF Process!Cancel
<1>12. CASE Process!ObservesCancellation
  BY <1>12 DEF Process!ObservesCancellation, Process!Ends, Process!KillGroup, Process!HasId
<1>13. CASE Process!DropCall BY <1>13 DEF Process!DropCall, Process!Ends, Process!KillGroup, Process!HasId
<1>14. CASE Process!Redirect BY <1>14 DEF Process!Redirect
<1>15. CASE UNCHANGED Process!vars BY <1>15 DEF Process!vars
<1> QED BY <1>1, <1>2, <1>3, <1>4, <1>5, <1>6, <1>7, <1>8, <1>9, <1>10, <1>11, <1>12, <1>13, <1>14, <1>15
    DEF Process!Next, Process!Operation

\* A tool's process and its call (capture in mews-host/src/tools/process.rs), for any
\* limits of its input and output, whether or not the leader has descendants: a
\* successful result is that of a leader that exited, and holds everything its group
\* wrote into the pipes but for what bash drops past the limit; nothing is kept past the
\* limit; when the call is over, however it ended, the leader is dead; and if the leader's
\* exit had not been collected before, so is its whole group.
THEOREM ProcessEndsWithItsCall == Process!ProcessAssumption => (Process!Spec => []Process!ProcessesEndWithTheirCall)
<1>1. SUFFICES ASSUME Process!ProcessAssumption PROVE Process!Spec => []Process!ProcessesEndWithTheirCall
  OBVIOUS
<1>2. QED BY ProcessInitInv, ProcessNextInv, ProcessInvImplies, <1>1, PTL DEF Process!Spec


--------------------
(* The tools of a Host (HostTools). *)

CONSTANTS
  Agents, Names, registry_Native, Calls, Nothing, MaxEdits

VARIABLES
  disk, edits, registry, fingerprint, watcher, catalog, hub, calls

Registry == INSTANCE HostTools WITH
  Native <- registry_Native

\* HostTools has its own copy of the operators of FiniteSets.
LEMMA RegistrySets ==
  /\ \A S : Registry!Cardinality(S) = Cardinality(S)
  /\ \A S : Registry!IsFiniteSet(S) <=> IsFiniteSet(S)
<1>1. \A S : Registry!Cardinality(S) = Cardinality(S)
  BY Zenon DEF Registry!Cardinality, Cardinality
<1>2. \A S : Registry!IsFiniteSet(S) <=> IsFiniteSet(S)
  BY Zenon DEF Registry!IsFiniteSet, IsFiniteSet
<1> QED BY <1>1, <1>2
RegistryAnyTool == [agent : Agents \cup {Nothing}, name : Names \cup registry_Native \cup {Nothing}, stamp : 0..MaxEdits]
RegistryAnyCatalog == [generation : Nat, tools : SUBSET RegistryAnyTool, hooks : SUBSET RegistryAnyTool]
RegistryAnyWatcher == [pc : {"sleep", "compare", "fingerprint", "load", "publish"}, todo : SUBSET Agents,
               stamps : [Agents -> 0..MaxEdits], loaded : [Agents -> Registry!Files]]
RegistryAnyCall == [pc : {"none", "before", "hooks", "execute", "running", "done", "unhooked", "refused"},
            agent : Agents \cup {Nothing}, offered : RegistryAnyTool \cup {Nothing}, generation : Nat,
            gate : SUBSET RegistryAnyTool, hooks : SUBSET RegistryAnyTool, ran : RegistryAnyTool \cup {Nothing}]

\* What each variable holds.
RegistryTyped ==
  /\ disk \in [Agents -> Registry!Files]
  /\ edits \in 0..MaxEdits
  /\ registry \in RegistryAnyCatalog /\ catalog \in RegistryAnyCatalog /\ hub \in RegistryAnyCatalog
  /\ fingerprint \in [Agents -> 0..MaxEdits]
  /\ watcher \in RegistryAnyWatcher
  /\ calls \in [Calls -> RegistryAnyCall]

\* In a catalog an Agent has one tool of a name, and none with the name of a native one.
RegistryUnambiguous(s) ==
  /\ \A t, u \in s.tools : t.agent = u.agent /\ t.name = u.name => t = u
  /\ \A t, u \in s.tools : t.agent = Nothing /\ t.name = u.name => u.agent = Nothing

\* A generation is of one catalog: a copy is behind the registry, or it is the registry.
RegistryCopyOf(s) ==
  /\ s.generation <= registry.generation
  /\ s.generation = registry.generation => s = registry

\* What a call carries of the catalog it was validated against.
RegistryCarries(k) ==
  /\ k.generation <= registry.generation
  /\ k.pc \in {"before", "hooks", "execute"} =>
       /\ k.ran = Nothing
       /\ k.generation = registry.generation =>
            /\ k.agent \in Agents /\ k.offered \in registry.tools
            /\ k.offered.agent \in {k.agent, Nothing}
            /\ k.gate = {h \in registry.hooks : h.agent = k.agent}
  /\ k.pc \in {"hooks", "execute"} => k.hooks = k.gate
  /\ k.ran # Nothing => k.ran = k.offered /\ k.hooks = k.gate

RegistryIInv ==
  /\ RegistryTyped
  /\ RegistryUnambiguous(registry)
  /\ RegistryCopyOf(catalog) /\ RegistryCopyOf(hub)
  /\ \A c \in Calls : RegistryCarries(calls[c])

--------------------
\* What the provers need of the constants.
LEMMA RegistryConstant ==
  ASSUME Registry!ToolsAssumption
  PROVE  MaxEdits \in Nat /\ Nothing \notin Agents /\ Nothing \notin registry_Native /\ Nothing \notin Names
         /\ Registry!Cardinality(registry_Native) \in Nat
  BY FS_CardinalityType, RegistrySets DEF Registry!ToolsAssumption

\* The files of nobody, the sleeping watcher and the call that was not made.
LEMMA RegistryBlank ==
  ASSUME Registry!ToolsAssumption
  PROVE  /\ Registry!NoFiles \in Registry!Files /\ Registry!Sleeping \in RegistryAnyWatcher /\ Registry!NotMade \in RegistryAnyCall
         /\ Registry!NotMade.pc = "none" /\ Registry!NotMade.ran = Nothing /\ Registry!NotMade.generation = 0
<1>1. MaxEdits \in Nat BY RegistryConstant
<1>2. Registry!NoFiles \in Registry!Files BY <1>1 DEF Registry!NoFiles, Registry!Files
<1>3. Registry!Sleeping \in RegistryAnyWatcher BY <1>1, <1>2 DEF Registry!Sleeping, RegistryAnyWatcher
<1>4. Registry!NotMade \in RegistryAnyCall BY DEF Registry!NotMade, RegistryAnyCall
<1> QED BY <1>2, <1>3, <1>4 DEF Registry!NotMade

\* The tools and hooks that files declare, and the native tools.
LEMMA RegistryDeclared ==
  ASSUME Registry!ToolsAssumption
  PROVE  /\ Registry!NativeTools \subseteq RegistryAnyTool
         /\ \A t \in Registry!NativeTools : t.agent = Nothing /\ t.name \in registry_Native
         /\ \A t, u \in Registry!NativeTools : t.name = u.name => t = u
<1>1. MaxEdits \in Nat BY RegistryConstant
<1> QED BY <1>1 DEF Registry!NativeTools, Registry!Tool, RegistryAnyTool

\* What the files of the Agents declare belongs to them.
LEMMA RegistryDeclaredBy ==
  ASSUME Registry!ToolsAssumption, NEW d \in [Agents -> Registry!Files]
  PROVE  /\ Registry!ExtensionTools(d) \subseteq RegistryAnyTool /\ Registry!Hooks(d) \subseteq RegistryAnyTool
         /\ \A t \in Registry!ExtensionTools(d) : t.agent \in Agents /\ t.name \in d[t.agent].tools
                                         /\ t = Registry!Tool(t.agent, t.name, d[t.agent].stamp)
<1>1. MaxEdits \in Nat BY RegistryConstant
<1>2. \A a \in Agents : d[a].stamp \in 0..MaxEdits /\ d[a].tools \subseteq Names \cup registry_Native
  BY DEF Registry!Files
<1>3. Registry!Hooks(d) \subseteq RegistryAnyTool BY <1>2 DEF Registry!Hooks, Registry!Tool, RegistryAnyTool
<1>4. ASSUME NEW t \in Registry!ExtensionTools(d)
      PROVE  t \in RegistryAnyTool /\ t.agent \in Agents /\ t.name \in d[t.agent].tools
             /\ t = Registry!Tool(t.agent, t.name, d[t.agent].stamp)
  <2>1. PICK a \in Agents : \E n \in d[a].tools : t = Registry!Tool(a, n, d[a].stamp)
    BY DEF Registry!ExtensionTools
  <2>2. PICK n \in d[a].tools : t = Registry!Tool(a, n, d[a].stamp)
    BY <2>1
  <2> QED BY <1>2, <2>2 DEF Registry!Tool, RegistryAnyTool
<1> QED BY <1>3, <1>4

\* A catalog without a conflict with a native name is unambiguous.
LEMMA RegistryNoConflict ==
  ASSUME Registry!ToolsAssumption, NEW d \in [Agents -> Registry!Files], ~Registry!Conflicts(d), NEW g, NEW h
  PROVE  RegistryUnambiguous([generation |-> g, tools |-> Registry!NativeTools \cup Registry!ExtensionTools(d), hooks |-> h])
<1> DEFINE s == [generation |-> g, tools |-> Registry!NativeTools \cup Registry!ExtensionTools(d), hooks |-> h]
<1>0. Nothing \notin Agents BY RegistryConstant
<1>1. \A t \in Registry!ExtensionTools(d) : t.name \notin registry_Native
  BY RegistryDeclaredBy DEF Registry!Conflicts
<1>2. ASSUME NEW t \in s.tools, NEW u \in s.tools, t.agent = u.agent, t.name = u.name
      PROVE  t = u
  <2>1. CASE t \in Registry!NativeTools /\ u \in Registry!NativeTools BY <2>1, <1>2, RegistryDeclared
  <2>2. CASE t \in Registry!ExtensionTools(d) /\ u \in Registry!ExtensionTools(d)
    BY <2>2, <1>2, RegistryDeclaredBy
  <2>3. CASE t \in Registry!NativeTools /\ u \in Registry!ExtensionTools(d)
    BY <2>3, <1>0, <1>2, RegistryDeclared, RegistryDeclaredBy
  <2>4. CASE t \in Registry!ExtensionTools(d) /\ u \in Registry!NativeTools
    BY <2>4, <1>0, <1>2, RegistryDeclared, RegistryDeclaredBy
  <2> QED BY <2>1, <2>2, <2>3, <2>4
<1>3. ASSUME NEW t \in s.tools, NEW u \in s.tools, t.agent = Nothing, t.name = u.name
      PROVE  u.agent = Nothing
  <2>1. t \in Registry!NativeTools BY <1>0, <1>3, RegistryDeclaredBy
  <2>2. u \notin Registry!ExtensionTools(d) BY <2>1, <1>1, <1>3, RegistryDeclared
  <2> QED BY <2>2, RegistryDeclared
<1> QED BY <1>2, <1>3 DEF RegistryUnambiguous

\* What holds at first.
LEMMA RegistryInitInv == ASSUME Registry!ToolsAssumption, Registry!Init PROVE RegistryIInv
<1>0. MaxEdits \in Nat /\ Registry!Cardinality(registry_Native) \in Nat BY RegistryConstant
<1>1. registry = [generation |-> Registry!Cardinality(registry_Native) + 1, tools |-> Registry!NativeTools, hooks |-> {}]
  BY DEF Registry!Init
<1>2. registry \in RegistryAnyCatalog BY <1>0, <1>1, RegistryDeclared DEF RegistryAnyCatalog
<1>3. RegistryTyped
  <2>1. calls \in [Calls -> RegistryAnyCall] BY RegistryBlank DEF Registry!Init
  <2>2. disk \in [Agents -> Registry!Files] BY RegistryBlank DEF Registry!Init
  <2> QED BY <1>0, <1>2, <2>1, <2>2, RegistryBlank DEF Registry!Init, RegistryTyped
<1>4. RegistryUnambiguous(registry) BY <1>1, RegistryDeclared DEF RegistryUnambiguous
<1>5. RegistryCopyOf(catalog) /\ RegistryCopyOf(hub)
  <2>1. registry.generation \in Nat BY <1>0, <1>1
  <2> QED BY <2>1 DEF Registry!Init, RegistryCopyOf
<1>6. \A c \in Calls : RegistryCarries(calls[c])
  <2>1. \A c \in Calls : calls[c] = Registry!NotMade BY DEF Registry!Init
  <2>2. registry.generation \in Nat BY <1>0, <1>1
  <2> QED BY <2>1, <2>2, RegistryBlank DEF RegistryCarries
<1> QED BY <1>3, <1>4, <1>5, <1>6 DEF RegistryIInv

\* A step about one call.
LEMMA RegistryCallKeeps ==
  ASSUME Registry!ToolsAssumption, RegistryIInv, NEW c \in Calls, NEW k \in RegistryAnyCall, RegistryCarries(k),
         calls' = [calls EXCEPT ![c] = k],
         UNCHANGED <<disk, edits, registry, fingerprint, watcher, catalog, hub>>
  PROVE  RegistryIInv'
<1>1. RegistryTyped' BY DEF RegistryIInv, RegistryTyped
<1>2. RegistryUnambiguous(registry)' /\ RegistryCopyOf(catalog)' /\ RegistryCopyOf(hub)'
  BY DEF RegistryIInv, RegistryUnambiguous, RegistryCopyOf
<1>3. ASSUME NEW d \in Calls PROVE RegistryCarries(calls[d])'
  <2>1. calls'[d] = k \/ calls'[d] = calls[d] BY DEF RegistryIInv, RegistryTyped
  <2>2. RegistryCarries(calls'[d]) BY <2>1 DEF RegistryIInv
  <2> QED BY <2>2 DEF RegistryCarries
<1> QED BY <1>1, <1>2, <1>3 DEF RegistryIInv

\* A call is validated against a catalog somebody has, passes the hooks of that one, and
\* executes what the registry has under its name only at the same generation.
LEMMA RegistryCallInv ==
  ASSUME Registry!ToolsAssumption, RegistryIInv, NEW c \in Calls, Registry!CallStep(c)
  PROVE  RegistryIInv'
<1>0. /\ calls \in [Calls -> RegistryAnyCall] /\ calls[c] \in RegistryAnyCall /\ RegistryCarries(calls[c])
      /\ registry \in RegistryAnyCatalog /\ hub \in RegistryAnyCatalog /\ Nothing \notin Agents
  BY RegistryConstant DEF RegistryIInv, RegistryTyped
<1>1. CASE Registry!Validate(c)
  <2>1. PICK a \in Agents, s \in {hub, registry} : \E t \in {u \in s.tools : u.agent \in {a, Nothing}} :
             calls' = [calls EXCEPT ![c] =
                [Registry!NotMade EXCEPT !.pc = "before", !.agent = a, !.offered = t,
                    !.generation = s.generation, !.gate = {h \in s.hooks : h.agent = a}]]
    BY <1>1 DEF Registry!Validate
  <2>2. PICK t \in s.tools :
          /\ t.agent \in {a, Nothing}
          /\ calls' = [calls EXCEPT ![c] =
                [Registry!NotMade EXCEPT !.pc = "before", !.agent = a, !.offered = t,
                    !.generation = s.generation, !.gate = {h \in s.hooks : h.agent = a}]]
    BY <2>1
  <2>3. PICK k : k = [Registry!NotMade EXCEPT !.pc = "before", !.agent = a, !.offered = t,
                    !.generation = s.generation, !.gate = {h \in s.hooks : h.agent = a}]
    OBVIOUS
  <2>4. s \in RegistryAnyCatalog /\ RegistryCopyOf(s)
    <3>1. RegistryCopyOf(registry) BY <1>0 DEF RegistryCopyOf, RegistryAnyCatalog
    <3> QED BY <3>1, <1>0 DEF RegistryIInv
  <2>5. /\ k.pc = "before" /\ k.agent = a /\ k.offered = t /\ k.generation = s.generation
        /\ k.gate = {h \in s.hooks : h.agent = a} /\ k.hooks = {} /\ k.ran = Nothing
    BY <2>3, RegistryBlank DEF RegistryAnyCall, Registry!NotMade
  <2>6. s.generation \in Nat /\ t \in RegistryAnyTool /\ {h \in s.hooks : h.agent = a} \subseteq RegistryAnyTool
    BY <2>4 DEF RegistryAnyCatalog
  <2>7. k \in RegistryAnyCall
    BY <2>3, <2>6 DEF RegistryAnyCall, Registry!NotMade
  <2>8. RegistryCarries(k)
    BY <2>2, <2>4, <2>5 DEF RegistryCarries, RegistryCopyOf
  <2> QED BY <1>1, <2>2, <2>3, <2>7, <2>8, RegistryCallKeeps DEF Registry!Validate
<1>2. CASE Registry!BeforeTool(c)
  <2>1. PICK k : k = [calls[c] EXCEPT !.pc = IF Registry!Current(c) THEN "hooks" ELSE "refused",
                     !.hooks = IF Registry!Current(c) THEN {h \in registry.hooks : h.agent = calls[c].agent}
                               ELSE {}]
    OBVIOUS
  <2>2. calls' = [calls EXCEPT ![c] = k] BY <1>0, <1>2, <2>1 DEF Registry!BeforeTool
  <2>3. /\ k.pc = (IF Registry!Current(c) THEN "hooks" ELSE "refused")
        /\ k.hooks = (IF Registry!Current(c) THEN {h \in registry.hooks : h.agent = calls[c].agent} ELSE {})
        /\ k.agent = calls[c].agent /\ k.offered = calls[c].offered
        /\ k.generation = calls[c].generation /\ k.gate = calls[c].gate /\ k.ran = calls[c].ran
    BY <1>0, <2>1 DEF RegistryAnyCall
  <2>4. {h \in registry.hooks : h.agent = calls[c].agent} \subseteq RegistryAnyTool
    BY <1>0 DEF RegistryAnyCatalog
  <2>5. k \in RegistryAnyCall BY <1>0, <2>1, <2>4 DEF RegistryAnyCall
  <2>6. RegistryCarries(k)
    <3>1. CASE Registry!Current(c)
      BY <1>0, <1>2, <2>3, <3>1 DEF RegistryCarries, Registry!BeforeTool, Registry!Current
    <3>2. CASE ~Registry!Current(c) BY <1>0, <1>2, <2>3, <3>2 DEF RegistryCarries, Registry!BeforeTool
    <3> QED BY <3>1, <3>2
  <2> QED BY <1>2, <2>2, <2>5, <2>6, RegistryCallKeeps DEF Registry!BeforeTool
<1>3. CASE Registry!HooksRan(c)
  <2>1. PICK pc \in {"execute", "refused"} : calls' = [calls EXCEPT ![c].pc = pc]
    BY <1>3 DEF Registry!HooksRan, Registry!Goes
  <2>2. PICK k : k = [calls[c] EXCEPT !.pc = pc] OBVIOUS
  <2>3. calls' = [calls EXCEPT ![c] = k] /\ k \in RegistryAnyCall BY <1>0, <2>1, <2>2 DEF RegistryAnyCall
  <2>4. /\ k.pc = pc /\ k.hooks = calls[c].hooks
        /\ k.agent = calls[c].agent /\ k.offered = calls[c].offered
        /\ k.generation = calls[c].generation /\ k.gate = calls[c].gate /\ k.ran = calls[c].ran
    BY <1>0, <2>2 DEF RegistryAnyCall
  <2>5. RegistryCarries(k) BY <1>0, <1>3, <2>4 DEF RegistryCarries, Registry!HooksRan
  <2> QED BY <1>3, <2>3, <2>5, RegistryCallKeeps DEF Registry!HooksRan
<1>4. CASE Registry!Execute(c)
  <2>1. CASE Registry!Current(c)
    <3>1. PICK t \in Registry!Lookup(calls[c].agent, calls[c].offered.name) :
               calls' = [calls EXCEPT ![c].pc = "running", ![c].ran = t]
      BY <1>4, <2>1 DEF Registry!Execute
    <3>2. /\ calls[c].agent \in Agents /\ calls[c].offered \in registry.tools
          /\ calls[c].offered.agent \in {calls[c].agent, Nothing} /\ calls[c].hooks = calls[c].gate
      BY <1>0, <1>4, <2>1 DEF RegistryCarries, Registry!Execute, Registry!Current
    <3>3. t = calls[c].offered
      <4>1. t \in registry.tools /\ t.name = calls[c].offered.name
        BY <3>1 DEF Registry!Lookup
      <4>2. CASE calls[c].offered.agent = calls[c].agent
        <5>1. t.agent = calls[c].agent BY <3>1, <3>2, <4>2 DEF Registry!Lookup
        <5> QED BY <3>2, <4>1, <4>2, <5>1 DEF RegistryIInv, RegistryUnambiguous
      <4>3. CASE calls[c].offered.agent = Nothing
        <5>1. t.agent = Nothing BY <3>2, <4>1, <4>3 DEF RegistryIInv, RegistryUnambiguous
        <5> QED BY <3>2, <4>1, <4>3, <5>1 DEF RegistryIInv, RegistryUnambiguous
      <4> QED BY <3>2, <4>2, <4>3
    <3>4. PICK k : k = [calls[c] EXCEPT !.pc = "running", !.ran = t]  OBVIOUS
    <3>5. t \in RegistryAnyTool BY <1>0, <3>2, <3>3 DEF RegistryAnyCatalog
    <3>6. calls' = [calls EXCEPT ![c] = k] /\ k \in RegistryAnyCall
      BY <1>0, <3>1, <3>4, <3>5 DEF RegistryAnyCall
    <3>7. /\ k.pc = "running" /\ k.hooks = calls[c].hooks
          /\ k.agent = calls[c].agent /\ k.offered = calls[c].offered
          /\ k.generation = calls[c].generation /\ k.gate = calls[c].gate /\ k.ran = t
      BY <1>0, <3>4 DEF RegistryAnyCall
    <3>8. RegistryCarries(k) BY <1>0, <3>2, <3>3, <3>7 DEF RegistryCarries
    <3> QED BY <1>4, <3>6, <3>8, RegistryCallKeeps DEF Registry!Execute
  <2>2. CASE ~Registry!Current(c)
    <3>1. PICK k : k = [calls[c] EXCEPT !.pc = "refused"]  OBVIOUS
    <3>2. calls' = [calls EXCEPT ![c] = k] /\ k \in RegistryAnyCall
      BY <1>0, <1>4, <2>2, <3>1 DEF RegistryAnyCall, Registry!Execute, Registry!Goes
    <3>3. /\ k.pc = "refused" /\ k.hooks = calls[c].hooks
          /\ k.agent = calls[c].agent /\ k.offered = calls[c].offered
          /\ k.generation = calls[c].generation /\ k.gate = calls[c].gate /\ k.ran = calls[c].ran
      BY <1>0, <3>1 DEF RegistryAnyCall
    <3>4. RegistryCarries(k) BY <1>0, <3>3 DEF RegistryCarries
    <3> QED BY <1>4, <3>2, <3>4, RegistryCallKeeps DEF Registry!Execute
  <2> QED BY <2>1, <2>2
<1>5. CASE Registry!AfterTool(c)
  <2>1. PICK pc \in {"done", "unhooked"} : calls' = [calls EXCEPT ![c].pc = pc]
    BY <1>5 DEF Registry!AfterTool, Registry!Goes
  <2>2. PICK k : k = [calls[c] EXCEPT !.pc = pc] OBVIOUS
  <2>3. calls' = [calls EXCEPT ![c] = k] /\ k \in RegistryAnyCall BY <1>0, <2>1, <2>2 DEF RegistryAnyCall
  <2>4. /\ k.pc = pc /\ k.hooks = calls[c].hooks
        /\ k.agent = calls[c].agent /\ k.offered = calls[c].offered
        /\ k.generation = calls[c].generation /\ k.gate = calls[c].gate /\ k.ran = calls[c].ran
    BY <1>0, <2>2 DEF RegistryAnyCall
  <2>5. RegistryCarries(k) BY <1>0, <2>4 DEF RegistryCarries
  <2> QED BY <1>5, <2>3, <2>5, RegistryCallKeeps DEF Registry!AfterTool
<1>6. CASE Registry!Forget(c)
  <2>1. RegistryCarries(Registry!NotMade) BY <1>0, RegistryBlank DEF RegistryCarries, RegistryAnyCatalog
  <2> QED BY <1>6, <2>1, RegistryBlank, RegistryCallKeeps DEF Registry!Forget
<1> QED BY <1>1, <1>2, <1>3, <1>4, <1>5, <1>6 DEF Registry!CallStep

\* What is about neither the registry nor its copies nor a call.
LEMMA RegistryQuietKeeps ==
  ASSUME RegistryIInv, RegistryTyped', UNCHANGED <<registry, catalog, hub, calls>>
  PROVE  RegistryIInv'
<1>1. RegistryUnambiguous(registry)' /\ RegistryCopyOf(catalog)' /\ RegistryCopyOf(hub)'
  BY DEF RegistryIInv, RegistryUnambiguous, RegistryCopyOf
<1>2. \A c \in Calls : RegistryCarries(calls[c])'
  BY DEF RegistryIInv, RegistryCarries
<1> QED BY <1>1, <1>2 DEF RegistryIInv

\* The watcher changes the registry only together with its generation.
LEMMA RegistryWatchInv ==
  ASSUME Registry!ToolsAssumption, RegistryIInv, Registry!Watch
  PROVE  RegistryIInv'
<1>0. /\ MaxEdits \in Nat /\ RegistryTyped /\ watcher \in RegistryAnyWatcher /\ disk \in [Agents -> Registry!Files]
      /\ registry \in RegistryAnyCatalog
  BY RegistryConstant DEF RegistryIInv, RegistryTyped
<1>a. ASSUME watcher' \in RegistryAnyWatcher, UNCHANGED <<disk, edits, registry, fingerprint, catalog,
                                                          hub, calls>>
      PROVE  RegistryIInv'
  BY <1>0, <1>a, RegistryQuietKeeps DEF RegistryTyped
<1>1. CASE Registry!Look
  <2>1. watcher' \in RegistryAnyWatcher BY <1>1, RegistryBlank DEF Registry!Look, RegistryAnyWatcher
  <2> QED BY <1>1, <2>1, <1>a DEF Registry!Look
<1>2. CASE Registry!Scan
  <2>1. PICK a \in watcher.todo :
          watcher' = [watcher EXCEPT !.todo = @ \ {a}, !.stamps[a] = disk[a].stamp]
    BY <1>2 DEF Registry!Scan, Registry!ScanNext
  <2>2. a \in Agents /\ disk[a].stamp \in 0..MaxEdits BY <1>0, <2>1 DEF RegistryAnyWatcher, Registry!Files
  <2>3. [watcher.stamps EXCEPT ![a] = disk[a].stamp] \in [Agents -> 0..MaxEdits]
    BY <1>0, <2>2 DEF RegistryAnyWatcher
  <2>4. watcher' = [watcher EXCEPT !.todo = watcher.todo \ {a},
                                   !.stamps = [watcher.stamps EXCEPT ![a] = disk[a].stamp]]
    BY <2>1
  <2>5. watcher' \in RegistryAnyWatcher BY <1>0, <2>3, <2>4 DEF RegistryAnyWatcher
  <2> QED BY <1>2, <2>5, <1>a DEF Registry!Scan, Registry!ScanNext
<1>3. CASE Registry!Compare
  <2>1. watcher' \in RegistryAnyWatcher BY <1>0, <1>3, RegistryBlank DEF Registry!Compare, RegistryAnyWatcher
  <2> QED BY <1>3, <2>1, <1>a DEF Registry!Compare
<1>4. CASE Registry!StartLoading
  <2>1. watcher' \in RegistryAnyWatcher BY <1>0, <1>4 DEF Registry!StartLoading, RegistryAnyWatcher
  <2> QED BY <1>4, <2>1, <1>a DEF Registry!StartLoading
<1>5. ASSUME NEW a \in Agents, Registry!Load(a) PROVE RegistryIInv'
  <2>1. CASE disk[a].loads
    <3>1. watcher' = [watcher EXCEPT !.todo = watcher.todo \ {a},
                                     !.loaded = [watcher.loaded EXCEPT ![a] = disk[a]]]
      BY <1>5, <2>1 DEF Registry!Load
    <3>2. [watcher.loaded EXCEPT ![a] = disk[a]] \in [Agents -> Registry!Files]
      BY <1>0 DEF RegistryAnyWatcher
    <3>3. watcher' \in RegistryAnyWatcher BY <1>0, <3>1, <3>2 DEF RegistryAnyWatcher
    <3> QED BY <1>5, <3>3, <1>a DEF Registry!Load
  <2>2. CASE ~disk[a].loads
    <3>1. watcher' = Registry!Sleeping BY <1>5, <2>2 DEF Registry!Load
    <3> QED BY <1>5, <3>1, RegistryBlank, <1>a DEF Registry!Load
  <2> QED BY <2>1, <2>2
<1>6. CASE Registry!ApplyExtensions
  <2>1. CASE Registry!Conflicts(watcher.loaded)
    <3>1. watcher' = Registry!Sleeping /\ registry' = registry BY <1>6, <2>1 DEF Registry!ApplyExtensions
    <3> QED BY <1>6, <3>1, RegistryBlank, <1>a DEF Registry!ApplyExtensions
  <2>2. CASE ~Registry!Conflicts(watcher.loaded)
    <3>1. PICK d \in [Agents -> Registry!Files] : d = watcher.loaded BY <1>0 DEF RegistryAnyWatcher
    <3>2. /\ registry' = [generation |-> registry.generation + 1,
                          tools |-> Registry!NativeTools \cup Registry!ExtensionTools(d), hooks |-> Registry!Hooks(d)]
          /\ watcher' = [watcher EXCEPT !.pc = "publish"]
          /\ UNCHANGED <<disk, edits, fingerprint, catalog, hub, calls>>
      BY <1>6, <2>2, <3>1 DEF Registry!ApplyExtensions
    <3>3. registry.generation \in Nat /\ registry'.generation = registry.generation + 1
      BY <1>0, <3>2 DEF RegistryAnyCatalog
    <3>4. registry' \in RegistryAnyCatalog
      BY <3>2, <3>3, RegistryDeclared, RegistryDeclaredBy DEF RegistryAnyCatalog
    <3>5. watcher' \in RegistryAnyWatcher BY <1>0, <3>2 DEF RegistryAnyWatcher
    <3>6. RegistryTyped' BY <1>0, <3>2, <3>4, <3>5 DEF RegistryTyped
    <3>7. RegistryUnambiguous(registry)'
      <4>1. RegistryUnambiguous(registry') BY <2>2, <3>1, <3>2, RegistryNoConflict
      <4> QED BY <4>1 DEF RegistryUnambiguous
    <3>8. RegistryCopyOf(catalog)' /\ RegistryCopyOf(hub)'
      <4>1. catalog.generation \in Nat /\ hub.generation \in Nat
        BY <1>0 DEF RegistryTyped, RegistryAnyCatalog
      <4>2. catalog.generation <= registry.generation /\ hub.generation <= registry.generation
        BY DEF RegistryIInv, RegistryCopyOf
      <4> QED BY <4>1, <4>2, <3>2, <3>3 DEF RegistryCopyOf
    <3>9. ASSUME NEW c \in Calls PROVE RegistryCarries(calls[c])'
      <4>1. calls[c].generation \in Nat BY <1>0 DEF RegistryTyped, RegistryAnyCall
      <4>2. RegistryCarries(calls[c]) BY DEF RegistryIInv
      <4>3. calls'[c].generation < registry'.generation BY <4>1, <4>2, <3>2, <3>3 DEF RegistryCarries
      <4> QED BY <4>1, <4>2, <4>3, <3>2, <3>3 DEF RegistryCarries
    <3> QED BY <3>6, <3>7, <3>8, <3>9 DEF RegistryIInv
  <2> QED BY <2>1, <2>2
<1>7. CASE Registry!Publish
  <2>1. RegistryTyped' BY <1>0, <1>7, RegistryBlank DEF Registry!Publish, RegistryTyped, RegistryAnyWatcher
  <2>2. RegistryUnambiguous(registry)' /\ RegistryCopyOf(hub)'
    BY <1>7 DEF Registry!Publish, RegistryIInv, RegistryUnambiguous, RegistryCopyOf
  <2>3. RegistryCopyOf(catalog)' BY <1>0, <1>7 DEF Registry!Publish, RegistryCopyOf, RegistryAnyCatalog
  <2>4. \A c \in Calls : RegistryCarries(calls[c])'
    BY <1>7 DEF Registry!Publish, RegistryIInv, RegistryCarries
  <2> QED BY <2>1, <2>2, <2>3, <2>4 DEF RegistryIInv
<1> QED BY <1>1, <1>2, <1>3, <1>4, <1>5, <1>6, <1>7 DEF Registry!Watch

\* Every step keeps the invariant.
LEMMA RegistryNextInv ==
  ASSUME Registry!ToolsAssumption, RegistryIInv, [Registry!Next]_Registry!vars
  PROVE  RegistryIInv'
<1>0. MaxEdits \in Nat /\ RegistryTyped BY RegistryConstant DEF RegistryIInv
<1>1. ASSUME NEW a \in Agents, Registry!Edit(a) PROVE RegistryIInv'
  <2>1. edits' \in 0..MaxEdits BY <1>0, <1>1 DEF Registry!Edit, RegistryTyped
  <2>2. disk' \in [Agents -> Registry!Files] BY <1>0, <1>1 DEF Registry!Edit, RegistryTyped
  <2>3. RegistryTyped' BY <1>0, <1>1, <2>1, <2>2 DEF Registry!Edit, RegistryTyped
  <2> QED BY <1>1, <2>3, RegistryQuietKeeps DEF Registry!Edit
<1>2. CASE Registry!CatalogChanged
  <2>1. RegistryTyped' BY <1>0, <1>2 DEF Registry!CatalogChanged, RegistryTyped
  <2>2. RegistryUnambiguous(registry)' /\ RegistryCopyOf(catalog)' /\ RegistryCopyOf(hub)'
    BY <1>2 DEF Registry!CatalogChanged, RegistryIInv, RegistryUnambiguous, RegistryCopyOf
  <2>3. \A c \in Calls : RegistryCarries(calls[c])'
    BY <1>2 DEF Registry!CatalogChanged, RegistryIInv, RegistryCarries
  <2> QED BY <2>1, <2>2, <2>3 DEF RegistryIInv
<1>3. CASE UNCHANGED Registry!vars
  <2>1. RegistryTyped' BY <1>0, <1>3 DEF Registry!vars, RegistryTyped
  <2> QED BY <1>3, <2>1, RegistryQuietKeeps DEF Registry!vars
<1> QED BY <1>1, <1>2, <1>3, RegistryCallInv, RegistryWatchInv DEF Registry!Next

\* What the invariant says of the calls.
LEMMA RegistryInvIsHonest == ASSUME RegistryIInv PROVE Registry!ToolsRunAsOffered
<1>1. Registry!TypeOK BY DEF RegistryIInv, RegistryTyped, Registry!TypeOK, RegistryAnyCatalog,
    RegistryAnyWatcher, RegistryAnyCall
<1>2. Registry!RunsWhatWasOffered /\ Registry!GatedByItsOwnHooks
  BY DEF RegistryIInv, RegistryCarries, Registry!RunsWhatWasOffered, Registry!GatedByItsOwnHooks
<1> QED BY <1>1, <1>2 DEF Registry!ToolsRunAsOffered

\* A call runs the definition its arguments were validated against and passes the hooks of
\* the catalog that definition came from (mews-host/src/tools), for any Agents, names and
\* calls and however often extension files are edited and reloaded in between: a
\* generation is of one catalog, and in a catalog an offered tool is found under its name.
THEOREM ToolsStayAsOffered == Registry!ToolsAssumption => (Registry!Spec => []Registry!ToolsRunAsOffered)
<1> SUFFICES ASSUME Registry!ToolsAssumption PROVE Registry!Spec => []Registry!ToolsRunAsOffered
  OBVIOUS
<1>1. Registry!Init => RegistryIInv BY RegistryInitInv
<1>2. RegistryIInv /\ [Registry!Next]_Registry!vars => RegistryIInv' BY RegistryNextInv
<1>3. RegistryIInv => Registry!ToolsRunAsOffered BY RegistryInvIsHonest
<1> QED BY <1>1, <1>2, <1>3, PTL DEF Registry!Spec


--------------------
(* A Turn executed on a Host (RemoteTurn). *)

CONSTANTS
  Turns, Sessions, SessionOf, Controls, Channel, AcpCapacity, MaxEvents,
  FirstPrompt, Faults, Cancels, remote_Uncertain

VARIABLES
  remote_hub, effect, binding, saved, out, back, incoming, reply, link,
  remote_host, callback, events, given, hostContext, controls

Remote == INSTANCE RemoteTurn WITH
  Uncertain <- remote_Uncertain, hub <- remote_hub, host <- remote_host

\* RemoteTurn has its own copy of the operators of FiniteSets.
LEMMA RemoteSets ==
  /\ \A S : Remote!Cardinality(S) = Cardinality(S)
  /\ \A S : Remote!IsFiniteSet(S) <=> IsFiniteSet(S)
<1>1. \A S : Remote!Cardinality(S) = Cardinality(S)
  BY Zenon DEF Remote!Cardinality, Cardinality
<1>2. \A S : Remote!IsFiniteSet(S) <=> IsFiniteSet(S)
  BY Zenon DEF Remote!IsFiniteSet, IsFiniteSet
<1> QED BY <1>1, <1>2
\* How often a queue holds x.
RemoteN(q, x) == Remote!Cardinality({i \in DOMAIN q : q[i] = x})

RemoteResults == {"answered", "failed", "cancelled", "uncertain"}
RemoteKinds == {"execute", "ack", "cancel", "bound", "context", "event"} \cup RemoteResults
RemoteTokens == {"bound", "context", "event"}

\* How often a queue of the link holds each message of Turn t, and one of its own queues
\* each token.
RemoteOf(q, t) == [k \in RemoteKinds |-> RemoteN(q, Remote!Msg(k, t))]
RemoteOwn(q) == [k \in RemoteTokens |-> RemoteN(q, k)]

RemoteAnyMsg == [kind : RemoteKinds, turn : Turns] \cup [kind : {"control"}, turn : Controls]
RemoteAnyHub == [pc : {"idle", "send", "loop", "ack", "drain", "done"}, after : {"loop", "drain"},
           resume : Turns \cup {Remote!None}, stored : Remote!Contexts, cancel : BOOLEAN, grace : BOOLEAN,
           outcome : {Remote!None, "answered", "failed", "uncertain", "error"}]
RemoteAnyHost == [pc : Remote!Working \cup {"idle", "accepted", "ended", "joined", "sent"},
            resume : Turns \cup {Remote!None}, stored : Remote!Contexts, session : Turns \cup {Remote!None},
            context : Remote!Contexts, cancel : BOOLEAN, result : RemoteResults \cup {Remote!None},
            emitted : 0..MaxEvents, prompted : BOOLEAN]
RemoteAnyBinding == [id : Turns \cup {Remote!None}, context : Remote!Contexts, dispatched : BOOLEAN]

RemoteTyped ==
  /\ remote_hub \in [Turns -> RemoteAnyHub] /\ remote_host \in [Turns -> RemoteAnyHost]
  /\ effect \in [Turns -> {Remote!None, "started", "succeeded", "failed", "uncertain"}]
  /\ binding \in [Sessions -> RemoteAnyBinding] /\ saved \in [Turns -> Nat]
  /\ reply \in [Turns -> RemoteResults \cup {Remote!None, "disconnected"}]
  /\ incoming \in [Turns -> Seq(RemoteTokens)] /\ callback \in [Turns -> Seq(RemoteTokens)]
  /\ events \in [Turns -> Seq(RemoteTokens)]
  /\ out \in Seq(RemoteAnyMsg) /\ back \in Seq(RemoteAnyMsg)
  /\ Len(out) <= Channel /\ Len(back) <= Channel
  /\ \A t \in Turns : Len(incoming[t]) <= Channel /\ Len(callback[t]) <= Channel
                      /\ Len(events[t]) <= Channel
  /\ link \in BOOLEAN /\ given = [t \in Turns |-> given[t]] /\ hostContext \in Remote!Contexts
  /\ controls \subseteq Controls

\* A Turn of which the Host knows nothing yet, and one it has no session for.
RemoteEarly == {"idle", "accepted", "new"}
RemoteBefore == RemoteEarly \cup {"binding", "contextual", "dispatching", "ready"}

\* The request of a Turn is on its way at most once, and only before the Host has it; the
\* Host has what the Hub sent.
RemoteSentOnce(t) ==
  /\ remote_hub[t].pc \in {"idle", "send"} => remote_host[t].pc = "idle"
  /\ RemoteOf(out, t)["execute"] <= 1
  /\ remote_hub[t].pc \in {"idle", "send"} \/ remote_host[t].pc # "idle" => RemoteOf(out, t)["execute"] = 0
  /\ remote_host[t].pc # "idle" => remote_host[t].resume = remote_hub[t].resume /\ remote_host[t].stored = remote_hub[t].stored

\* A Turn has an outcome when its task has left the loop, and the effect follows it.
RemoteOutcomeOK(t) ==
  /\ remote_hub[t].pc \in {"idle", "send", "loop"} \/ (remote_hub[t].pc = "ack" /\ remote_hub[t].after = "loop") =>
       remote_hub[t].outcome = Remote!None
  /\ remote_hub[t].pc = "drain" \/ (remote_hub[t].pc = "ack" /\ remote_hub[t].after = "drain") =>
       remote_hub[t].outcome \in {"answered", "failed", "uncertain"}
  /\ remote_hub[t].pc = "done" => remote_hub[t].outcome # Remote!None
  /\ effect[t] = "succeeded" => remote_hub[t].outcome = "answered"
  /\ effect[t] = "failed" => remote_hub[t].outcome = "failed" /\ ~remote_hub[t].cancel /\ remote_hub[t].pc = "done"

\* What the Hub is answered is how the Turn ended on the Host.
RemoteReplyOK(t) ==
  /\ \A r \in RemoteResults : RemoteOf(back, t)[r] > 0 \/ reply[t] = r => remote_host[t].pc = "sent" /\ remote_host[t].result = r
  /\ RemoteOf(back, t)["cancelled"] > 0 \/ reply[t] = "cancelled" => remote_hub[t].cancel
  /\ remote_hub[t].outcome = "answered" => reply[t] = "answered"
  /\ remote_hub[t].outcome = "failed" => \/ remote_host[t].pc = "idle" /\ RemoteOf(out, t)["execute"] = 0
                                         \/ reply[t] \in {"failed", "cancelled", "uncertain"}

\* While the link holds, a Turn is cancelled on the Host only for the Hub.
RemoteCancelOK(t) ==
  /\ link /\ remote_host[t].cancel => remote_hub[t].cancel
  /\ RemoteOf(out, t)["cancel"] > 0 => remote_hub[t].cancel
  /\ remote_host[t].result = "cancelled" => remote_host[t].cancel

\* The Host's thread.
RemoteHostOK(t) ==
  /\ remote_host[t].pc \in {"ended", "joined", "sent"} <=> remote_host[t].result # Remote!None
  /\ remote_host[t].result = "uncertain" => remote_Uncertain
  /\ remote_host[t].pc \in RemoteBefore \ {"ready"} => remote_host[t].session \in {Remote!None, t}
  /\ remote_host[t].pc \in RemoteBefore => remote_host[t].emitted = 0 /\ ~remote_host[t].prompted
  /\ remote_host[t].pc \in {"binding", "contextual", "dispatching"} => remote_host[t].session = t
  /\ remote_host[t].pc \in {"ready", "prompted"} => remote_host[t].session # Remote!None

\* What the Hub acknowledges, and the acknowledgements, are of a Turn that made its session.
RemoteBare(t) ==
  /\ remote_hub[t].pc # "ack" /\ RemoteOf(out, t)["ack"] = 0
  /\ \A x \in {"bound", "context"} : /\ RemoteOwn(incoming[t])[x] = 0 /\ RemoteOwn(callback[t])[x] = 0
                                     /\ RemoteOwn(events[t])[x] = 0 /\ RemoteOf(back, t)[x] = 0
RemoteTokensOK(t) ==
  /\ remote_host[t].pc \in RemoteEarly \/ remote_host[t].session # t => RemoteBare(t)
  /\ remote_host[t].pc \in {"binding", "contextual"} =>
       /\ RemoteOwn(incoming[t])["context"] = 0 /\ RemoteOwn(callback[t])["context"] = 0
       /\ RemoteOwn(events[t])["context"] = 0 /\ RemoteOf(back, t)["context"] = 0

\* What the Hub has stored is the session the Host works in, or will.
RemoteStoredOK(t) ==
  remote_hub[t].pc # "done" =>
    /\ \/ remote_host[t].pc \in {"contextual", "dispatching", "ready", "prompted"}
       \/ remote_host[t].result = "answered"
       => binding[SessionOf[t]].id = remote_host[t].session
    /\ remote_host[t].pc = "binding" /\ (remote_hub[t].pc = "ack" \/ RemoteOf(out, t)["ack"] > 0) =>
         binding[SessionOf[t]].id = t
    /\ remote_host[t].pc \in {"idle", "accepted"} /\ remote_hub[t].pc # "idle" /\ remote_hub[t].resume # Remote!None =>
         binding[SessionOf[t]].id = remote_hub[t].resume

\* Every event of the stream is stored or on its way, at most once, and all of them are
\* while nothing was lost.
RemoteStored(t) == saved[t] + RemoteOwn(incoming[t])["event"]
RemoteComing(t) == RemoteOf(back, t)["event"] + RemoteOwn(events[t])["event"] + RemoteOwn(callback[t])["event"]
RemoteStreamOK(t) ==
  /\ RemoteStored(t) + RemoteComing(t) <= remote_host[t].emitted
  /\ remote_hub[t].outcome = Remote!None /\ reply[t] = Remote!None /\ (link \/ \E r \in RemoteResults : RemoteOf(back, t)[r] > 0) =>
       RemoteStored(t) + RemoteComing(t) = remote_host[t].emitted
  /\ reply[t] = "answered" /\ remote_hub[t].outcome \in {Remote!None, "answered"} => RemoteStored(t) = remote_host[t].emitted
  /\ remote_hub[t].pc = "done" /\ remote_hub[t].outcome = "answered" => RemoteOwn(incoming[t])["event"] = 0
  /\ remote_host[t].pc \in {"joined", "sent"} => RemoteOwn(callback[t])["event"] = 0
  /\ remote_host[t].pc = "sent" => RemoteOwn(events[t])["event"] = 0

RemoteTurnIs(t) ==
  /\ RemoteSentOnce(t) /\ RemoteOutcomeOK(t) /\ RemoteReplyOK(t) /\ RemoteCancelOK(t) /\ RemoteHostOK(t) /\ RemoteTokensOK(t)
  /\ RemoteStoredOK(t) /\ RemoteStreamOK(t)

\* One Turn of a Session at a time.
RemoteResting(h) == h.pc \in {"idle", "done"}
RemoteExclusive ==
  \A t, u \in Turns : t # u /\ SessionOf[t] = SessionOf[u] => RemoteResting(remote_hub[t]) \/ RemoteResting(remote_hub[u])

\* Session x is one that a Turn made, and its context is c.
RemoteMade(x, c) == remote_host[x].pc \notin RemoteEarly /\ (~FirstPrompt => given[x] = c)
RemoteSound ==
  /\ \A s \in Sessions : binding[s].id # Remote!None => RemoteMade(binding[s].id, binding[s].context)
  /\ \A t \in Turns : remote_hub[t].resume # Remote!None => RemoteMade(remote_hub[t].resume, remote_hub[t].stored)
  /\ \A t \in Turns : remote_host[t].session # Remote!None => RemoteMade(remote_host[t].session, remote_host[t].context)

\* Behind the result of a Turn there is no event of it.
RemoteOrdered ==
  \A i, j \in DOMAIN back :
    i < j /\ back[i].kind \in RemoteResults /\ back[j].turn = back[i].turn => back[j].kind # "event"

RemotePermits == Remote!IsFiniteSet(Remote!Running) /\ Remote!Cardinality(Remote!Running) <= AcpCapacity

RemoteIInv ==
  /\ RemoteTyped /\ RemoteExclusive /\ RemoteSound /\ RemoteOrdered /\ RemotePermits
  /\ \A t \in Turns : RemoteTurnIs(t)

--------------------
\* What the provers need of the constants.
LEMMA RemoteConstant ==
  ASSUME Remote!RemoteAssumption
  PROVE  /\ SessionOf \in [Turns -> Sessions] /\ Remote!None \notin Turns
         /\ Channel \in Nat \ {0} /\ AcpCapacity \in Nat \ {0} /\ MaxEvents \in Nat
<1>1. Channel \in {Channel, AcpCapacity} /\ AcpCapacity \in {Channel, AcpCapacity} OBVIOUS
<1> QED BY <1>1 DEF Remote!RemoteAssumption

--------------------
(* How often a queue holds something.                                      *)

\* A queue holds x a number of times, and holds it if that is not zero.
LEMMA RemoteNIs ==
  ASSUME NEW S, NEW q \in Seq(S), NEW x
  PROVE  /\ RemoteN(q, x) \in Nat
         /\ \A i \in DOMAIN q : q[i] = x => RemoteN(q, x) > 0
         /\ RemoteN(q, x) > 0 => \E i \in DOMAIN q : q[i] = x
<1> DEFINE I == {i \in DOMAIN q : q[i] = x}
<1>1. DOMAIN q = 1..Len(q) /\ Len(q) \in Nat OBVIOUS
<1>2. Remote!IsFiniteSet(I)
  <2>1. Remote!IsFiniteSet(1..Len(q)) /\ I \in SUBSET (1..Len(q)) BY <1>1, FS_Interval, RemoteSets
  <2> QED BY <2>1, FS_Subset, RemoteSets
<1>3. Remote!Cardinality(I) \in Nat /\ (Remote!Cardinality(I) = 0 <=> I = {})
  BY <1>2, FS_CardinalityType, FS_EmptySet, RemoteSets
<1>4. RemoteN(q, x) = Remote!Cardinality(I) BY DEF RemoteN
<1> HIDE DEF I
<1>5. RemoteN(q, x) > 0 <=> I # {} BY <1>3, <1>4
<1> QED BY <1>3, <1>4, <1>5 DEF I

\* An empty queue holds nothing.
LEMMA RemoteNEmpty == \A x : RemoteN(<<>>, x) = 0
<1>1. ASSUME NEW x PROVE RemoteN(<<>>, x) = 0
  <2>1. {i \in DOMAIN <<>> : <<>>[i] = x} = {} OBVIOUS
  <2> QED BY <2>1, FS_EmptySet, RemoteSets DEF RemoteN
<1> QED BY <1>1

\* What is put in is held once more.
LEMMA RemoteNAppend ==
  ASSUME NEW S, NEW q \in Seq(S), NEW y \in S, NEW x
  PROVE  RemoteN(Append(q, y), x) = IF x = y THEN RemoteN(q, x) + 1 ELSE RemoteN(q, x)
<1> DEFINE r == Append(q, y)
           I == {i \in DOMAIN q : q[i] = x}
           J == {i \in DOMAIN r : r[i] = x}
           n == Len(q) + 1
<1>1. /\ DOMAIN q = 1..Len(q) /\ Len(q) \in Nat /\ DOMAIN r = 1..n /\ r[n] = y
      /\ \A i \in 1..Len(q) : r[i] = q[i]
  OBVIOUS
<1>2. Remote!IsFiniteSet(I) /\ Remote!Cardinality(I) \in Nat
  <2>1. Remote!IsFiniteSet(1..Len(q)) /\ I \in SUBSET (1..Len(q)) BY <1>1, FS_Interval, RemoteSets
  <2> QED BY <2>1, FS_Subset, FS_CardinalityType, RemoteSets
<1>3. n \notin I BY <1>1
<1>4. CASE x = y
  <2>1. J = I \cup {n} BY <1>1, <1>4
  <2>2. Remote!Cardinality(I \cup {n}) = Remote!Cardinality(I) + 1 BY <1>2, <1>3, FS_AddElement, RemoteSets
  <2> QED BY <1>4, <2>1, <2>2 DEF RemoteN
<1>5. CASE x # y
  <2>1. J = I BY <1>1, <1>5
  <2> QED BY <1>5, <2>1 DEF RemoteN
<1> QED BY <1>4, <1>5

\* What is taken is held once less.
LEMMA RemoteNTail ==
  ASSUME NEW S, NEW q \in Seq(S), q # <<>>, NEW x
  PROVE  RemoteN(q, x) = IF x = Head(q) THEN RemoteN(Tail(q), x) + 1 ELSE RemoteN(Tail(q), x)
<1> DEFINE r == Tail(q)
           I == {i \in DOMAIN q : q[i] = x}
           J == {i \in DOMAIN r : r[i] = x}
           K == I \ {1}
           f == [j \in J |-> j + 1]
<1>1. /\ DOMAIN q = 1..Len(q) /\ Len(q) \in Nat \ {0} /\ DOMAIN r = 1..(Len(q) - 1)
      /\ \A i \in 1..(Len(q) - 1) : r[i] = q[i + 1]
      /\ Head(q) = q[1]
  OBVIOUS
<1>2. Remote!IsFiniteSet(I) /\ Remote!IsFiniteSet(J) /\ Remote!IsFiniteSet(K)
  <2>1. Remote!IsFiniteSet(1..Len(q)) /\ Remote!IsFiniteSet(1..(Len(q) - 1)) BY <1>1, FS_Interval, RemoteSets
  <2>2. I \in SUBSET (1..Len(q)) /\ J \in SUBSET (1..(Len(q) - 1)) /\ K \in SUBSET (1..Len(q))
    BY <1>1
  <2> QED BY <2>1, <2>2, FS_Subset, RemoteSets
<1>3. f \in Bijection(J, K)
  <2>1. f \in [J -> K] BY <1>1
  <2>2. \A a, b \in J : f[a] = f[b] => a = b BY <1>1
  <2>3. \A k \in K : \E j \in J : f[j] = k
    <3>1. ASSUME NEW k \in K PROVE \E j \in J : f[j] = k
      <4>1. k - 1 \in J /\ (k - 1) + 1 = k BY <1>1
      <4> QED BY <4>1
    <3> QED BY <3>1
  <2> QED BY <2>1, <2>2, <2>3 DEF Bijection, Injection, IsInjective, Surjection
<1>4. Remote!Cardinality(J) = Remote!Cardinality(K)
  <2>1. ExistsBijection(J, K) BY <1>3 DEF ExistsBijection
  <2> QED BY <1>2, <2>1, FS_Bijection, RemoteSets
<1>5. Remote!Cardinality(K) \in Nat BY <1>2, FS_CardinalityType, RemoteSets
<1>6. CASE x = Head(q)
  <2>1. I = K \cup {1} /\ 1 \notin K BY <1>1, <1>6
  <2>2. Remote!Cardinality(K \cup {1}) = Remote!Cardinality(K) + 1 BY <1>2, <2>1, FS_AddElement, RemoteSets
  <2> QED BY <1>4, <1>5, <1>6, <2>1, <2>2 DEF RemoteN
<1>7. CASE x # Head(q)
  <2>1. I = K BY <1>1, <1>7
  <2> QED BY <1>4, <1>7, <2>1 DEF RemoteN
<1> QED BY <1>6, <1>7

\* The beginning of a queue holds no more than the queue, and as much of what is not in
\* the rest.
LEMMA RemoteNPrefix ==
  ASSUME NEW S, NEW q \in Seq(S), NEW n \in 0..Len(q), NEW x
  PROVE  /\ RemoteN(SubSeq(q, 1, n), x) <= RemoteN(q, x)
         /\ (\A i \in (n + 1)..Len(q) : q[i] # x) => RemoteN(SubSeq(q, 1, n), x) = RemoteN(q, x)
<1> DEFINE r == SubSeq(q, 1, n)
           I == {i \in DOMAIN q : q[i] = x}
           J == {i \in DOMAIN r : r[i] = x}
<1>1. /\ DOMAIN q = 1..Len(q) /\ Len(q) \in Nat /\ DOMAIN r = 1..n
      /\ \A i \in 1..n : r[i] = q[i] /\ i \in 1..Len(q)
  OBVIOUS
<1>2. Remote!IsFiniteSet(I)
  <2>1. Remote!IsFiniteSet(1..Len(q)) /\ I \in SUBSET (1..Len(q)) BY <1>1, FS_Interval, RemoteSets
  <2> QED BY <2>1, FS_Subset, RemoteSets
<1>3. J \subseteq I BY <1>1
<1>4. Remote!Cardinality(J) <= Remote!Cardinality(I) BY <1>2, <1>3, FS_Subset, RemoteSets
<1>5. ASSUME \A i \in (n + 1)..Len(q) : q[i] # x PROVE J = I
  BY <1>1, <1>5
<1> QED BY <1>4, <1>5 DEF RemoteN

--------------------
(* What a step does to the counts of a Turn.                               *)

\* The messages of a Turn and of a control request.
LEMMA RemoteMessages ==
  /\ \A t \in Turns : \A x \in RemoteKinds : Remote!Msg(x, t) \in RemoteAnyMsg /\ Remote!Msg(x, t).kind = x /\ Remote!Msg(x, t).turn = t
  /\ \A c \in Controls : Remote!Msg("control", c) \in RemoteAnyMsg /\ Remote!Msg("control", c).kind = "control"
  /\ \A m \in RemoteAnyMsg : \A t \in Turns : \A x \in RemoteKinds :
       m = Remote!Msg(x, t) <=> m.kind = x /\ m.turn = t
  /\ \A m \in RemoteAnyMsg : m.kind = "control" \/ (m.kind \in RemoteKinds /\ m.turn \in Turns)
BY DEF RemoteAnyMsg, Remote!Msg, RemoteKinds, RemoteResults

\* The counts are numbers.
LEMMA RemoteCounts ==
  /\ \A q \in Seq(RemoteAnyMsg) : \A t \in Turns : \A x \in RemoteKinds : RemoteOf(q, t)[x] \in Nat
  /\ \A q \in Seq(RemoteTokens) : \A x \in RemoteTokens : RemoteOwn(q)[x] \in Nat
BY RemoteNIs DEF RemoteOf, RemoteOwn

\* A message that is put in counts for its Turn and its kind.
LEMMA RemoteOfAppend ==
  ASSUME NEW q \in Seq(RemoteAnyMsg), NEW m \in RemoteAnyMsg
  PROVE  /\ Append(q, m) \in Seq(RemoteAnyMsg)
         /\ \A t \in Turns : \A x \in RemoteKinds :
              RemoteOf(Append(q, m), t)[x] = IF m.kind = x /\ m.turn = t THEN RemoteOf(q, t)[x] + 1 ELSE RemoteOf(q, t)[x]
         /\ \A t \in Turns : m.kind = "control" \/ m.turn # t => RemoteOf(Append(q, m), t) = RemoteOf(q, t)
<1>1. ASSUME NEW t \in Turns, NEW x \in RemoteKinds
      PROVE  RemoteN(Append(q, m), Remote!Msg(x, t)) = IF m.kind = x /\ m.turn = t THEN RemoteN(q, Remote!Msg(x, t)) + 1
                                          ELSE RemoteN(q, Remote!Msg(x, t))
  <2>1. RemoteN(Append(q, m), Remote!Msg(x, t)) = IF Remote!Msg(x, t) = m THEN RemoteN(q, Remote!Msg(x, t)) + 1 ELSE RemoteN(q, Remote!Msg(x, t))
    BY RemoteNAppend
  <2> QED BY <2>1, RemoteMessages
<1>2. \A x \in RemoteKinds : x # "control"  BY DEF RemoteKinds, RemoteResults
<1> QED BY <1>1, <1>2 DEF RemoteOf

\* A message that is taken counted for its Turn and its kind.
LEMMA RemoteOfTail ==
  ASSUME NEW q \in Seq(RemoteAnyMsg), q # <<>>, NEW m, m = Head(q)
  PROVE  /\ m \in RemoteAnyMsg /\ Tail(q) \in Seq(RemoteAnyMsg) /\ Len(Tail(q)) <= Len(q)
         /\ \A t \in Turns : \A x \in RemoteKinds :
              RemoteOf(q, t)[x] = IF m.kind = x /\ m.turn = t THEN RemoteOf(Tail(q), t)[x] + 1 ELSE RemoteOf(Tail(q), t)[x]
         /\ \A t \in Turns : m.kind = "control" \/ m.turn # t => RemoteOf(Tail(q), t) = RemoteOf(q, t)
<1>1. m \in RemoteAnyMsg /\ Tail(q) \in Seq(RemoteAnyMsg) /\ Len(Tail(q)) <= Len(q) OBVIOUS
<1>2. ASSUME NEW t \in Turns, NEW x \in RemoteKinds
      PROVE  RemoteN(q, Remote!Msg(x, t)) = IF m.kind = x /\ m.turn = t THEN RemoteN(Tail(q), Remote!Msg(x, t)) + 1
                               ELSE RemoteN(Tail(q), Remote!Msg(x, t))
  <2>1. RemoteN(q, Remote!Msg(x, t)) = IF Remote!Msg(x, t) = Head(q) THEN RemoteN(Tail(q), Remote!Msg(x, t)) + 1 ELSE RemoteN(Tail(q), Remote!Msg(x, t))
    BY RemoteNTail
  <2> QED BY <1>1, <2>1, RemoteMessages
<1>3. \A x \in RemoteKinds : x # "control"  BY DEF RemoteKinds, RemoteResults
<1> QED BY <1>1, <1>2, <1>3 DEF RemoteOf

\* The same of the tokens in a queue of one Turn.
LEMMA RemoteOwnAppend ==
  ASSUME NEW q \in Seq(RemoteTokens), NEW y \in RemoteTokens
  PROVE  /\ Append(q, y) \in Seq(RemoteTokens)
         /\ \A x \in RemoteTokens : RemoteOwn(Append(q, y))[x] = IF x = y THEN RemoteOwn(q)[x] + 1 ELSE RemoteOwn(q)[x]
BY RemoteNAppend DEF RemoteOwn

LEMMA RemoteOwnTail ==
  ASSUME NEW q \in Seq(RemoteTokens), q # <<>>, NEW y, y = Head(q)
  PROVE  /\ y \in RemoteTokens /\ Tail(q) \in Seq(RemoteTokens) /\ Len(Tail(q)) <= Len(q)
         /\ \A x \in RemoteTokens : RemoteOwn(q)[x] = IF x = y THEN RemoteOwn(Tail(q))[x] + 1 ELSE RemoteOwn(Tail(q))[x]
<1>1. y \in RemoteTokens /\ Tail(q) \in Seq(RemoteTokens) /\ Len(Tail(q)) <= Len(q) OBVIOUS
<1> QED BY <1>1, RemoteNTail DEF RemoteOwn

\* A queue without events is empty of them.
LEMMA RemoteOwnEmpty == \A x \in RemoteTokens : RemoteOwn(<<>>)[x] = 0
BY RemoteNEmpty DEF RemoteOwn


--------------------
(* What a step leaves alone.                                               *)

\* Every other Turn is as it was.
RemoteElsewhere(t) ==
  \A u \in Turns \ {t} :
    /\ remote_hub'[u] = remote_hub[u] /\ remote_host'[u] = remote_host[u] /\ effect'[u] = effect[u] /\ saved'[u] = saved[u]
    /\ incoming'[u] = incoming[u] /\ reply'[u] = reply[u] /\ callback'[u] = callback[u]
    /\ events'[u] = events[u] /\ given'[u] = given[u]
    /\ RemoteOf(out', u) = RemoteOf(out, u) /\ RemoteOf(back', u) = RemoteOf(back, u)

\* What is sound stays so while every reference is kept or sound, and a session that was made
\* keeps its context.
LEMMA RemoteSoundKeeps ==
  ASSUME RemoteTyped, RemoteSound,
         \A x \in Turns : remote_host[x].pc \notin RemoteEarly =>
            remote_host'[x].pc \notin RemoteEarly /\ (FirstPrompt \/ given'[x] = given[x]),
         \A s \in Sessions :
            \/ binding'[s].id = binding[s].id /\ binding'[s].context = binding[s].context
            \/ RemoteMade(binding[s].id, binding[s].context)',
         \A u \in Turns :
            \/ remote_hub'[u].resume = remote_hub[u].resume /\ remote_hub'[u].stored = remote_hub[u].stored
            \/ remote_hub'[u].resume # Remote!None => RemoteMade(remote_hub[u].resume, remote_hub[u].stored)',
         \A u \in Turns :
            \/ remote_host'[u].session = remote_host[u].session /\ remote_host'[u].context = remote_host[u].context
            \/ remote_host'[u].session # Remote!None => RemoteMade(remote_host[u].session, remote_host[u].context)'
  PROVE  RemoteSound'
<1>1. ASSUME NEW x \in Turns, NEW c, RemoteMade(x, c) PROVE remote_host'[x].pc \notin RemoteEarly /\ (~FirstPrompt => given'[x] = c)
  BY <1>1 DEF RemoteMade
<1>2. \A s \in Sessions : binding[s].id \in Turns \cup {Remote!None} BY DEF RemoteTyped, RemoteAnyBinding
<1>3. \A u \in Turns : remote_hub[u].resume \in Turns \cup {Remote!None} BY DEF RemoteTyped, RemoteAnyHub
<1>4. \A u \in Turns : remote_host[u].session \in Turns \cup {Remote!None} BY DEF RemoteTyped, RemoteAnyHost
<1>5. ASSUME NEW s \in Sessions, binding'[s].id # Remote!None PROVE RemoteMade(binding[s].id, binding[s].context)'
  BY <1>1, <1>2, <1>5 DEF RemoteSound, RemoteMade
<1>6. ASSUME NEW u \in Turns, remote_hub'[u].resume # Remote!None PROVE RemoteMade(remote_hub[u].resume, remote_hub[u].stored)'
  BY <1>1, <1>3, <1>6 DEF RemoteSound, RemoteMade
<1>7. ASSUME NEW u \in Turns, remote_host'[u].session # Remote!None PROVE RemoteMade(remote_host[u].session, remote_host[u].context)'
  BY <1>1, <1>4, <1>7 DEF RemoteSound, RemoteMade
<1> QED BY <1>5, <1>6, <1>7 DEF RemoteSound

\* No more Turns work on the Host than before.
LEMMA RemotePermitsKeep ==
  ASSUME Remote!RemoteAssumption, RemotePermits,
         \A u \in Turns : remote_host'[u].pc \in Remote!Working \cup {"ended"} => remote_host[u].pc \in Remote!Working \cup {"ended"}
  PROVE  RemotePermits'
<1>1. Remote!Running' \in SUBSET Remote!Running BY DEF Remote!Running
<1>2. Remote!IsFiniteSet(Remote!Running') /\ Remote!Cardinality(Remote!Running') <= Remote!Cardinality(Remote!Running)
  BY <1>1, FS_Subset, RemoteSets DEF RemotePermits
<1>3. Remote!Cardinality(Remote!Running) \in Nat /\ Remote!Cardinality(Remote!Running') \in Nat /\ AcpCapacity \in Nat
  BY <1>2, FS_CardinalityType, RemoteSets, RemoteConstant DEF RemotePermits
<1> QED BY <1>2, <1>3 DEF RemotePermits

\* A message taken from the queue of the Host, or one that is no event put behind it,
\* changes no order in it.
LEMMA RemoteOrderKeeps ==
  ASSUME RemoteOrdered, back \in Seq(RemoteAnyMsg),
         \/ back' = back
         \/ back # <<>> /\ back' = Tail(back)
         \/ \E m \in RemoteAnyMsg : m.kind # "event" /\ back' = Append(back, m)
  PROVE  RemoteOrdered'
<1>1. CASE back' = back BY <1>1 DEF RemoteOrdered
<1>2. CASE back # <<>> /\ back' = Tail(back)
  <2> SUFFICES ASSUME NEW i \in DOMAIN back', NEW j \in DOMAIN back', i < j,
                      back'[i].kind \in RemoteResults, back'[j].turn = back'[i].turn
               PROVE  back'[j].kind # "event"
    BY DEF RemoteOrdered
  <2>1. /\ i + 1 \in DOMAIN back /\ j + 1 \in DOMAIN back /\ i + 1 < j + 1
        /\ back'[i] = back[i + 1] /\ back'[j] = back[j + 1]
    BY <1>2
  <2> QED BY <2>1 DEF RemoteOrdered
<1>3. CASE \E m \in RemoteAnyMsg : m.kind # "event" /\ back' = Append(back, m)
  <2> SUFFICES ASSUME NEW i \in DOMAIN back', NEW j \in DOMAIN back', i < j,
                      back'[i].kind \in RemoteResults, back'[j].turn = back'[i].turn
               PROVE  back'[j].kind # "event"
    BY DEF RemoteOrdered
  <2>1. PICK m \in RemoteAnyMsg : m.kind # "event" /\ back' = Append(back, m)  BY <1>3
  <2>2. /\ i \in DOMAIN back /\ back'[i] = back[i]
        /\ (j \in DOMAIN back /\ back'[j] = back[j]) \/ back'[j] = m
    BY <2>1
  <2> QED BY <2>1, <2>2 DEF RemoteOrdered
<1> QED BY <1>1, <1>2, <1>3

\* A step of one Turn on the Hub.
LEMMA RemoteHubKeeps ==
  ASSUME Remote!RemoteAssumption, RemoteIInv, NEW t \in Turns, RemoteTyped', RemoteTurnIs(t)', RemoteOrdered', RemoteElsewhere(t),
         UNCHANGED <<link, remote_host, given>>,
         \A s \in Sessions : binding'[s].id = binding[s].id /\ binding'[s].context = binding[s].context,
         remote_hub'[t].resume = remote_hub[t].resume, remote_hub'[t].stored = remote_hub[t].stored,
         RemoteResting(remote_hub[t]) => RemoteResting(remote_hub'[t])
  PROVE  RemoteIInv'
<1>1. ASSUME NEW u \in Turns PROVE RemoteTurnIs(u)'
  <2>1. CASE u = t BY <2>1
  <2>2. CASE u # t
    <3>1. SessionOf[u] \in Sessions /\ RemoteTurnIs(u) BY RemoteConstant DEF RemoteIInv
    <3> QED BY <2>2, <3>1 DEF RemoteElsewhere, RemoteTurnIs, RemoteSentOnce, RemoteOutcomeOK,
        RemoteReplyOK, RemoteCancelOK, RemoteHostOK, RemoteTokensOK,
         RemoteBare, RemoteStoredOK, RemoteStreamOK, RemoteStored, RemoteComing
  <2> QED BY <2>1, <2>2
<1>2. RemoteSound'
  <2>1. RemoteSound /\ RemoteTyped BY DEF RemoteIInv
  <2>2. \A u \in Turns : remote_hub'[u].resume = remote_hub[u].resume /\ remote_hub'[u].stored = remote_hub[u].stored
    BY DEF RemoteElsewhere
  <2> QED BY <2>1, <2>2, RemoteSoundKeeps
<1>3. RemotePermits' BY RemotePermitsKeep DEF RemoteIInv
<1>4. RemoteExclusive'
  <2>1. \A u \in Turns : RemoteResting(remote_hub[u]) => RemoteResting(remote_hub'[u]) BY DEF RemoteElsewhere
  <2> QED BY <2>1 DEF RemoteIInv, RemoteExclusive, RemoteResting
<1> QED BY <1>1, <1>2, <1>3, <1>4 DEF RemoteIInv

\* A step of one Turn on the Host.
LEMMA RemoteHostKeeps ==
  ASSUME Remote!RemoteAssumption, RemoteIInv, NEW t \in Turns, RemoteTyped', RemoteTurnIs(t)', RemoteOrdered', RemoteSound', RemotePermits',
         RemoteElsewhere(t), UNCHANGED <<link, remote_hub, binding>>
  PROVE  RemoteIInv'
<1>1. ASSUME NEW u \in Turns PROVE RemoteTurnIs(u)'
  <2>1. CASE u = t BY <2>1
  <2>2. CASE u # t
    <3>1. RemoteTurnIs(u) BY DEF RemoteIInv
    <3> QED BY <2>2, <3>1 DEF RemoteElsewhere, RemoteTurnIs, RemoteSentOnce, RemoteOutcomeOK,
        RemoteReplyOK, RemoteCancelOK, RemoteHostOK, RemoteTokensOK,
         RemoteBare, RemoteStoredOK, RemoteStreamOK, RemoteStored, RemoteComing
  <2> QED BY <2>1, <2>2
<1>2. RemoteExclusive' BY DEF RemoteIInv, RemoteExclusive
<1> QED BY <1>1, <1>2 DEF RemoteIInv

\* One that stays in its session.
LEMMA RemoteHostStays ==
  ASSUME Remote!RemoteAssumption, RemoteIInv, NEW t \in Turns, RemoteTyped', RemoteTurnIs(t)', RemoteOrdered',
         RemoteElsewhere(t), UNCHANGED <<link, remote_hub, binding>>,
         remote_host'[t].session = remote_host[t].session, remote_host'[t].context = remote_host[t].context,
         FirstPrompt \/ given'[t] = given[t],
         remote_host[t].pc \notin RemoteEarly => remote_host'[t].pc \notin RemoteEarly,
         remote_host'[t].pc \in Remote!Working \cup {"ended"} => remote_host[t].pc \in Remote!Working \cup {"ended"}
  PROVE  RemoteIInv'
<1>1. RemoteSound'
  <2>1. RemoteSound /\ RemoteTyped BY DEF RemoteIInv
  <2>2. \A u \in Turns : /\ remote_host'[u].session = remote_host[u].session /\ remote_host'[u].context = remote_host[u].context
                         /\ FirstPrompt \/ given'[u] = given[u]
                         /\ remote_host[u].pc \notin RemoteEarly => remote_host'[u].pc \notin RemoteEarly
    BY DEF RemoteElsewhere
  <2> QED BY <2>1, <2>2, RemoteSoundKeeps
<1>2. RemotePermits'
  <2>1. \A u \in Turns : remote_host'[u].pc \in Remote!Working \cup {"ended"} => remote_host[u].pc \in Remote!Working \cup {"ended"}
    BY DEF RemoteElsewhere
  <2> QED BY <2>1, RemotePermitsKeep DEF RemoteIInv
<1> QED BY <1>1, <1>2, RemoteHostKeeps


--------------------
(* Steps of the Hub.                                                       *)

\* What is known of a Turn before a step.
LEMMA RemoteTypes ==
  ASSUME Remote!RemoteAssumption, RemoteTyped, NEW t \in Turns
  PROVE  /\ remote_hub[t] \in RemoteAnyHub /\ remote_host[t] \in RemoteAnyHost /\ saved[t] \in Nat
         /\ incoming[t] \in Seq(RemoteTokens) /\ callback[t] \in Seq(RemoteTokens) /\ events[t] \in Seq(RemoteTokens)
         /\ SessionOf[t] \in Sessions /\ binding[SessionOf[t]] \in RemoteAnyBinding
         /\ \A x \in RemoteTokens : /\ RemoteOwn(incoming[t])[x] \in Nat /\ RemoteOwn(callback[t])[x] \in Nat
                                    /\ RemoteOwn(events[t])[x] \in Nat
         /\ \A x \in RemoteKinds : RemoteOf(out, t)[x] \in Nat /\ RemoteOf(back, t)[x] \in Nat
BY RemoteCounts, RemoteConstant DEF RemoteTyped

LEMMA RemoteSendTurnKeeps ==
  ASSUME Remote!RemoteAssumption, RemoteIInv, NEW t \in Turns, Remote!SendTurn(t)
  PROVE  RemoteIInv'
<1>1. RemoteTyped /\ RemoteTurnIs(t) /\ RemoteOrdered BY DEF RemoteIInv
<1>2. Remote!Msg("execute", t) \in RemoteAnyMsg /\ Remote!Msg("execute", t).kind = "execute" /\ Remote!Msg("execute", t).turn = t
  BY RemoteMessages DEF RemoteKinds
<1>3. /\ out' \in Seq(RemoteAnyMsg) /\ Len(out') <= Channel
      /\ \A x \in RemoteKinds : RemoteOf(out', t)[x] = IF x = "execute" THEN RemoteOf(out, t)[x] + 1 ELSE RemoteOf(out, t)[x]
      /\ \A u \in Turns \ {t} : RemoteOf(out', u) = RemoteOf(out, u)
  BY <1>1, <1>2, RemoteOfAppend, RemoteConstant DEF Remote!SendTurn, Remote!Room, RemoteTyped
<1>4. remote_hub' = [remote_hub EXCEPT ![t].pc = "loop"] /\ remote_hub[t].pc = "send" /\ remote_hub[t] \in RemoteAnyHub
  BY <1>1 DEF Remote!SendTurn, RemoteTyped
<1>5. /\ remote_hub'[t].pc = "loop" /\ remote_hub'[t].after = remote_hub[t].after /\ remote_hub'[t].cancel = remote_hub[t].cancel
      /\ remote_hub'[t].outcome = remote_hub[t].outcome /\ remote_hub'[t].resume = remote_hub[t].resume /\ remote_hub'[t].stored = remote_hub[t].stored
  BY <1>1, <1>4 DEF RemoteTyped, RemoteAnyHub
<1>6. /\ RemoteOf(out', t)["execute"] = RemoteOf(out, t)["execute"] + 1 /\ RemoteOf(out', t)["ack"] = RemoteOf(out, t)["ack"]
      /\ RemoteOf(out', t)["cancel"] = RemoteOf(out, t)["cancel"] /\ RemoteOf(out, t)["execute"] \in Nat
  BY <1>1, <1>3, RemoteTypes DEF RemoteKinds
<1>7. UNCHANGED <<effect, binding, saved, back, incoming, reply, link, remote_host, callback, events, given>>
  BY DEF Remote!SendTurn, Remote!hostVars
<1>8. RemoteTurnIs(t)'
  BY <1>1, <1>4, <1>5, <1>6, <1>7 DEF RemoteTurnIs, RemoteSentOnce, RemoteOutcomeOK, RemoteReplyOK,
       RemoteCancelOK, RemoteHostOK,
     RemoteTokensOK, RemoteBare, RemoteStoredOK, RemoteStreamOK, RemoteStored, RemoteComing, Remote!None, RemoteEarly, RemoteBefore
<1>9. RemoteTyped'
  <2>1. remote_hub' \in [Turns -> RemoteAnyHub] BY <1>1, <1>4 DEF RemoteTyped, RemoteAnyHub
  <2> QED BY <1>1, <1>3, <2>1 DEF Remote!SendTurn, RemoteTyped, Remote!hostVars
<1>10. RemoteElsewhere(t) BY <1>1, <1>3, <1>4, <1>7 DEF RemoteElsewhere, RemoteTyped
<1>11. RemoteOrdered' BY <1>1, <1>7 DEF RemoteOrdered
<1> QED BY <1>4, <1>5, <1>7, <1>8, <1>9, <1>10, <1>11, RemoteHubKeeps DEF RemoteResting

\* The task moves on without the link.
LEMMA RemoteHubAloneKeeps ==
  ASSUME Remote!RemoteAssumption, RemoteIInv, NEW t \in Turns,
         Remote!SendFails(t) \/ Remote!TakeReply(t) \/ Remote!FinishTurn(t) \/ Remote!Cancel(t) \/ Remote!GivesUp(t)
  PROVE  RemoteIInv'
<1>1. RemoteTyped /\ RemoteTurnIs(t) /\ RemoteOrdered BY DEF RemoteIInv
<1>2. UNCHANGED <<binding, saved, out, back, incoming, reply, link, remote_host, callback, events,
                  given, hostContext, controls>>
  BY DEF Remote!SendFails, Remote!TakeReply, Remote!FinishTurn, Remote!Cancel, Remote!GivesUp, Remote!hostVars
<1>3. remote_hub[t] \in RemoteAnyHub BY <1>1 DEF RemoteTyped
<1>4. /\ remote_hub' \in [Turns -> RemoteAnyHub] /\ \A u \in Turns \ {t} : remote_hub'[u] = remote_hub[u]
      /\ remote_hub'[t].resume = remote_hub[t].resume /\ remote_hub'[t].stored = remote_hub[t].stored /\ remote_hub'[t].after = remote_hub[t].after
      /\ ~RemoteResting(remote_hub[t])
  <2>1. CASE Remote!SendFails(t)
    BY <1>1, <1>3, <2>1 DEF Remote!SendFails, RemoteTyped, RemoteAnyHub, RemoteResting
  <2>2. CASE Remote!TakeReply(t)
    <3>1. PICK o \in {"answered", "failed", "uncertain"} : remote_hub' = [remote_hub EXCEPT ![t].pc = "drain", ![t].outcome = o]
      BY <2>2 DEF Remote!TakeReply
    <3>2. remote_hub[t].pc = "loop"  BY <2>2 DEF Remote!TakeReply
    <3>3. [remote_hub[t] EXCEPT !.pc = "drain", !.outcome = o] \in RemoteAnyHub  BY <1>3 DEF RemoteAnyHub
    <3>4. remote_hub' = [remote_hub EXCEPT ![t] = [remote_hub[t] EXCEPT !.pc = "drain", !.outcome = o]]  BY <3>1
    <3>5. remote_hub' \in [Turns -> RemoteAnyHub] BY <1>1, <3>3, <3>4 DEF RemoteTyped
    <3> QED BY <1>1, <1>3, <3>1, <3>2, <3>5 DEF RemoteTyped, RemoteAnyHub, RemoteResting
  <2>3. CASE Remote!FinishTurn(t)
    BY <1>1, <1>3, <2>3 DEF Remote!FinishTurn, RemoteTyped, RemoteAnyHub, RemoteResting
  <2>4. CASE Remote!Cancel(t) BY <1>1, <1>3, <2>4 DEF Remote!Cancel, RemoteTyped, RemoteAnyHub, RemoteResting
  <2>5. CASE Remote!GivesUp(t)
    BY <1>1, <1>3, <2>5 DEF Remote!GivesUp, RemoteTyped, RemoteAnyHub, RemoteResting
  <2> QED BY <2>1, <2>2, <2>3, <2>4, <2>5
<1>5. /\ effect' \in [Turns -> {Remote!None, "started", "succeeded", "failed", "uncertain"}]
      /\ \A u \in Turns \ {t} : effect'[u] = effect[u]
      /\ ~Remote!FinishTurn(t) => effect' = effect
  <2>1. CASE Remote!FinishTurn(t)
    <3>1. Remote!EffectOutcome(t) \in {"succeeded", "failed", "uncertain"}  BY DEF Remote!EffectOutcome
    <3> QED BY <1>1, <2>1, <3>1 DEF Remote!FinishTurn, RemoteTyped
  <2>2. CASE ~Remote!FinishTurn(t)
    BY <1>1, <2>2 DEF Remote!SendFails, Remote!TakeReply, Remote!Cancel, Remote!GivesUp, RemoteTyped
  <2> QED BY <2>1, <2>2
<1>6. RemoteTurnIs(t)'
  <2> USE DEF RemoteTurnIs, RemoteSentOnce, RemoteOutcomeOK, RemoteReplyOK, RemoteCancelOK, RemoteHostOK,
     RemoteTokensOK, RemoteBare, RemoteStoredOK, RemoteStreamOK, RemoteStored, RemoteComing, Remote!None, RemoteEarly, RemoteBefore
  <2>1. CASE Remote!SendFails(t)
    <3>1. remote_hub[t].pc = "send" /\ remote_hub'[t].pc = "drain" /\ remote_hub'[t].outcome = "failed" /\ remote_hub'[t].cancel = remote_hub[t].cancel
      BY <1>1, <1>3, <2>1 DEF Remote!SendFails, RemoteTyped, RemoteAnyHub
    <3>2. effect' = effect BY <2>1 DEF Remote!SendFails
    <3> QED BY <1>1, <1>2, <1>4, <3>1, <3>2
  <2>2. CASE Remote!TakeReply(t)
    <3>1. /\ remote_hub[t].pc = "loop" /\ remote_hub'[t].pc = "drain" /\ remote_hub'[t].cancel = remote_hub[t].cancel /\ reply[t] # Remote!None
          /\ reply[t] = "answered" => remote_hub'[t].outcome = "answered"
          /\ reply[t] = "disconnected" => remote_hub'[t].outcome = "uncertain"
          /\ reply[t] \in RemoteResults \ {"answered"} => remote_hub'[t].outcome = "failed"
      BY <1>1, <1>3, <2>2 DEF Remote!TakeReply, RemoteTyped, RemoteAnyHub, RemoteResults
    <3>2. effect' = effect /\ reply[t] \in RemoteResults \cup {Remote!None, "disconnected"}
      BY <1>1, <2>2 DEF Remote!TakeReply, RemoteTyped
    <3> QED BY <1>1, <1>2, <1>4, <3>1, <3>2 DEF RemoteResults
  <2>3. CASE Remote!FinishTurn(t)
    <3>1. /\ remote_hub[t].pc = "drain" /\ remote_hub'[t].pc = "done" /\ remote_hub'[t].cancel = remote_hub[t].cancel
          /\ remote_hub'[t].outcome = remote_hub[t].outcome /\ incoming[t] = <<>>
      BY <1>1, <1>3, <2>3 DEF Remote!FinishTurn, RemoteTyped, RemoteAnyHub
    <3>2. effect'[t] = Remote!EffectOutcome(t) BY <1>1, <2>3 DEF Remote!FinishTurn, RemoteTyped
    <3>3. RemoteOwn(incoming[t])["event"] = 0  BY <3>1, RemoteOwnEmpty DEF RemoteTokens
    <3> QED BY <1>1, <1>2, <1>4, <3>1, <3>2, <3>3 DEF Remote!EffectOutcome
  <2>4. CASE Remote!Cancel(t)
    <3>1. /\ remote_hub[t].pc \in {"send", "loop", "ack"} /\ remote_hub'[t].pc = remote_hub[t].pc /\ remote_hub'[t].cancel
          /\ remote_hub'[t].outcome = remote_hub[t].outcome
      BY <1>1, <1>3, <2>4 DEF Remote!Cancel, RemoteTyped, RemoteAnyHub
    <3>2. effect' = effect BY <2>4 DEF Remote!Cancel
    <3> QED BY <1>1, <1>2, <1>4, <3>1, <3>2
  <2>5. CASE Remote!GivesUp(t)
    <3>1. remote_hub[t].pc = "loop" /\ remote_hub'[t].pc = "drain" /\ remote_hub'[t].outcome = "uncertain" /\ remote_hub'[t].cancel = remote_hub[t].cancel
      BY <1>1, <1>3, <2>5 DEF Remote!GivesUp, RemoteTyped, RemoteAnyHub
    <3>2. effect' = effect BY <2>5 DEF Remote!GivesUp
    <3> QED BY <1>1, <1>2, <1>4, <3>1, <3>2
  <2> QED BY <2>1, <2>2, <2>3, <2>4, <2>5
<1>7. RemoteTyped' BY <1>1, <1>2, <1>4, <1>5 DEF RemoteTyped
<1>8. RemoteElsewhere(t) BY <1>2, <1>4, <1>5 DEF RemoteElsewhere
<1>9. RemoteOrdered' BY <1>1, <1>2 DEF RemoteOrdered
<1> QED BY <1>2, <1>4, <1>6, <1>7, <1>8, <1>9, RemoteHubKeeps


LEMMA RemoteSendAckKeeps ==
  ASSUME Remote!RemoteAssumption, RemoteIInv, NEW t \in Turns, Remote!SendAck(t)
  PROVE  RemoteIInv'
<1>1. RemoteTyped /\ RemoteTurnIs(t) /\ RemoteOrdered BY DEF RemoteIInv
<1>2. Remote!Msg("ack", t) \in RemoteAnyMsg /\ Remote!Msg("ack", t).kind = "ack" /\ Remote!Msg("ack", t).turn = t
  BY RemoteMessages DEF RemoteKinds
<1>3. /\ out' \in Seq(RemoteAnyMsg) /\ Len(out') <= Channel
      /\ \A x \in RemoteKinds : RemoteOf(out', t)[x] = IF x = "ack" THEN RemoteOf(out, t)[x] + 1 ELSE RemoteOf(out, t)[x]
      /\ \A u \in Turns \ {t} : RemoteOf(out', u) = RemoteOf(out, u)
  BY <1>1, <1>2, RemoteOfAppend, RemoteConstant DEF Remote!SendAck, Remote!Room, RemoteTyped
<1>4. remote_hub' = [remote_hub EXCEPT ![t].pc = remote_hub[t].after] /\ remote_hub[t].pc = "ack" /\ remote_hub[t] \in RemoteAnyHub
  BY <1>1 DEF Remote!SendAck, RemoteTyped
<1>5. /\ remote_hub'[t].pc = remote_hub[t].after /\ remote_hub'[t].after = remote_hub[t].after /\ remote_hub'[t].cancel = remote_hub[t].cancel
      /\ remote_hub'[t].outcome = remote_hub[t].outcome /\ remote_hub'[t].resume = remote_hub[t].resume /\ remote_hub'[t].stored = remote_hub[t].stored
      /\ remote_hub[t].after \in {"loop", "drain"}
  BY <1>1, <1>4 DEF RemoteTyped, RemoteAnyHub
<1>6. /\ RemoteOf(out', t)["execute"] = RemoteOf(out, t)["execute"] /\ RemoteOf(out', t)["ack"] = RemoteOf(out, t)["ack"] + 1
      /\ RemoteOf(out', t)["cancel"] = RemoteOf(out, t)["cancel"] /\ RemoteOf(out, t)["ack"] \in Nat
  BY <1>1, <1>3, RemoteTypes DEF RemoteKinds
<1>7. UNCHANGED <<effect, binding, saved, back, incoming, reply, link, remote_host, callback, events, given>>
  BY DEF Remote!SendAck, Remote!hostVars
<1>8. RemoteTurnIs(t)'
  BY <1>1, <1>4, <1>5, <1>6, <1>7 DEF RemoteTurnIs, RemoteSentOnce, RemoteOutcomeOK, RemoteReplyOK,
       RemoteCancelOK, RemoteHostOK,
     RemoteTokensOK, RemoteBare, RemoteStoredOK, RemoteStreamOK, RemoteStored, RemoteComing, Remote!None, RemoteEarly, RemoteBefore
<1>9. RemoteTyped'
  <2>1. [remote_hub[t] EXCEPT !.pc = remote_hub[t].after] \in RemoteAnyHub BY <1>4, <1>5 DEF RemoteAnyHub
  <2>2. remote_hub' \in [Turns -> RemoteAnyHub] BY <1>1, <1>4, <2>1 DEF RemoteTyped
  <2> QED BY <1>1, <1>3, <2>2 DEF Remote!SendAck, RemoteTyped, Remote!hostVars
<1>10. RemoteElsewhere(t) BY <1>1, <1>3, <1>4, <1>7 DEF RemoteElsewhere, RemoteTyped
<1>11. RemoteOrdered' BY <1>1, <1>7 DEF RemoteOrdered
<1> QED BY <1>4, <1>5, <1>7, <1>8, <1>9, <1>10, <1>11, RemoteHubKeeps DEF RemoteResting

LEMMA RemoteSendCancelKeeps ==
  ASSUME Remote!RemoteAssumption, RemoteIInv, NEW t \in Turns, Remote!SendCancel(t)
  PROVE  RemoteIInv'
<1>1. RemoteTyped /\ RemoteTurnIs(t) /\ RemoteOrdered BY DEF RemoteIInv
<1>2. Remote!Msg("cancel", t) \in RemoteAnyMsg /\ Remote!Msg("cancel", t).kind = "cancel" /\ Remote!Msg("cancel", t).turn = t
  BY RemoteMessages DEF RemoteKinds
<1>3. /\ out' \in Seq(RemoteAnyMsg) /\ Len(out') <= Channel
      /\ \A x \in RemoteKinds \ {"cancel"} : RemoteOf(out', t)[x] = RemoteOf(out, t)[x]
      /\ \A u \in Turns \ {t} : RemoteOf(out', u) = RemoteOf(out, u)
  <2>1. CASE link
    <3>1. out' = Append(out, Remote!Msg("cancel", t)) /\ Len(out) < Channel
      BY <2>1 DEF Remote!SendCancel, Remote!Room
    <3> QED BY <1>1, <1>2, <3>1, RemoteOfAppend, RemoteConstant DEF RemoteTyped
  <2>2. CASE ~link BY <1>1, <2>2 DEF Remote!SendCancel, RemoteTyped
  <2> QED BY <2>1, <2>2
<1>4. remote_hub[t].pc = "loop" /\ remote_hub[t].cancel /\ remote_hub[t] \in RemoteAnyHub
  BY <1>1 DEF Remote!SendCancel, RemoteTyped
<1>5. /\ remote_hub' \in [Turns -> RemoteAnyHub] /\ \A u \in Turns \ {t} : remote_hub'[u] = remote_hub[u]
      /\ remote_hub'[t].after = remote_hub[t].after /\ remote_hub'[t].cancel = remote_hub[t].cancel
      /\ remote_hub'[t].resume = remote_hub[t].resume /\ remote_hub'[t].stored = remote_hub[t].stored
      /\ \/ remote_hub'[t].pc = "loop" /\ remote_hub'[t].outcome = remote_hub[t].outcome
         \/ remote_hub'[t].pc = "drain" /\ remote_hub'[t].outcome = "uncertain"
  <2>1. CASE remote_hub' = [remote_hub EXCEPT ![t].grace = TRUE]
    BY <1>1, <1>4, <2>1 DEF RemoteTyped, RemoteAnyHub
  <2>2. CASE remote_hub' = [remote_hub EXCEPT ![t].pc = "drain", ![t].outcome = "uncertain"]
    BY <1>1, <1>4, <2>2 DEF RemoteTyped, RemoteAnyHub
  <2> QED BY <2>1, <2>2 DEF Remote!SendCancel
<1>6. RemoteOf(out', t)["execute"] = RemoteOf(out, t)["execute"] /\ RemoteOf(out', t)["ack"] = RemoteOf(out, t)["ack"]
  BY <1>3 DEF RemoteKinds
<1>7. UNCHANGED <<effect, binding, saved, back, incoming, reply, link, remote_host, callback, events, given>>
  BY DEF Remote!SendCancel, Remote!hostVars
<1>8. RemoteTurnIs(t)'
  BY <1>1, <1>4, <1>5, <1>6, <1>7 DEF RemoteTurnIs, RemoteSentOnce, RemoteOutcomeOK, RemoteReplyOK,
       RemoteCancelOK, RemoteHostOK,
     RemoteTokensOK, RemoteBare, RemoteStoredOK, RemoteStreamOK, RemoteStored, RemoteComing, Remote!None, RemoteEarly, RemoteBefore
<1>9. RemoteTyped' BY <1>1, <1>3, <1>5 DEF Remote!SendCancel, RemoteTyped, Remote!hostVars
<1>10. RemoteElsewhere(t) BY <1>1, <1>3, <1>5, <1>7 DEF RemoteElsewhere, RemoteTyped
<1>11. RemoteOrdered' BY <1>1, <1>7 DEF RemoteOrdered
<1> QED BY <1>4, <1>5, <1>7, <1>8, <1>9, <1>10, <1>11, RemoteHubKeeps DEF RemoteResting

\* An event is stored.
LEMMA RemotePersistEventKeeps ==
  ASSUME Remote!RemoteAssumption, RemoteIInv, NEW t \in Turns, Remote!PersistEvent(t)
  PROVE  RemoteIInv'
<1>1. RemoteTyped /\ RemoteTurnIs(t) /\ RemoteOrdered BY DEF RemoteIInv
<1>2. incoming[t] \in Seq(RemoteTokens) /\ saved[t] \in Nat BY <1>1 DEF RemoteTyped
<1>3. /\ incoming'[t] = Tail(incoming[t]) /\ saved'[t] = saved[t] + 1 /\ incoming[t] # <<>>
      /\ Head(incoming[t]) = "event" /\ remote_hub[t].pc \in {"loop", "drain"}
      /\ \A u \in Turns \ {t} : incoming'[u] = incoming[u] /\ saved'[u] = saved[u]
  BY <1>1 DEF Remote!PersistEvent, RemoteTyped
<1>4. /\ Tail(incoming[t]) \in Seq(RemoteTokens) /\ Len(Tail(incoming[t])) <= Channel
      /\ RemoteOwn(incoming[t])["event"] = RemoteOwn(incoming'[t])["event"] + 1
      /\ RemoteOwn(incoming'[t])["bound"] = RemoteOwn(incoming[t])["bound"]
      /\ RemoteOwn(incoming'[t])["context"] = RemoteOwn(incoming[t])["context"]
  <2>1. "event" \in RemoteTokens /\ "bound" \in RemoteTokens /\ "context" \in RemoteTokens
    BY DEF RemoteTokens
  <2>2. Len(incoming[t]) <= Channel /\ Channel \in Nat BY <1>1, RemoteConstant DEF RemoteTyped
  <2> QED BY <1>2, <1>3, <2>1, <2>2, RemoteOwnTail
<1>5. /\ RemoteOwn(incoming[t])["event"] \in Nat /\ RemoteOwn(incoming'[t])["event"] \in Nat
      /\ RemoteOwn(callback[t])["event"] \in Nat /\ RemoteOwn(events[t])["event"] \in Nat /\ RemoteOf(back, t)["event"] \in Nat
  BY <1>1, <1>3, <1>4, RemoteTypes, RemoteCounts DEF RemoteTokens, RemoteKinds
<1>6. UNCHANGED <<remote_hub, effect, binding, out, back, reply, link, remote_host, callback, events, given>>
  BY DEF Remote!PersistEvent, Remote!hostVars
<1>7. RemoteTurnIs(t)'
  <2>1. RemoteStreamOK(t)'
    <3>1. RemoteStored(t)' = RemoteStored(t) /\ RemoteComing(t)' = RemoteComing(t)
      BY <1>2, <1>3, <1>4, <1>5, <1>6 DEF RemoteStored, RemoteComing
    <3>2. remote_hub[t].pc # "done"  BY <1>3
    <3> QED BY <1>1, <1>6, <3>1, <3>2 DEF RemoteTurnIs, RemoteStreamOK
  <2>2. RemoteTokensOK(t)' BY <1>1, <1>4, <1>6 DEF RemoteTurnIs, RemoteTokensOK, RemoteBare
  <2> QED BY <1>1, <1>6, <2>1, <2>2 DEF RemoteTurnIs, RemoteSentOnce, RemoteOutcomeOK, RemoteReplyOK,
      RemoteCancelOK, RemoteHostOK, RemoteStoredOK
<1>8. RemoteTyped'
  <2>1. incoming' = [incoming EXCEPT ![t] = Tail(@)] /\ saved' = [saved EXCEPT ![t] = @ + 1]
    BY DEF Remote!PersistEvent
  <2>2. incoming' \in [Turns -> Seq(RemoteTokens)] /\ saved' \in [Turns -> Nat]
    BY <1>1, <1>4, <2>1 DEF RemoteTyped
  <2>3. \A u \in Turns : Len(incoming'[u]) <= Channel BY <1>1, <1>3, <1>4 DEF RemoteTyped
  <2> QED BY <1>1, <2>2, <2>3 DEF Remote!PersistEvent, RemoteTyped, Remote!hostVars
<1>9. RemoteElsewhere(t) BY <1>3, <1>6 DEF RemoteElsewhere
<1>10. RemoteOrdered' BY <1>1, <1>6 DEF RemoteOrdered
<1> QED BY <1>6, <1>7, <1>8, <1>9, <1>10, RemoteHubKeeps


\* A binding or a dispatch is stored, and the task goes to its acknowledgement.  The binding is
\* of this Turn, which made the session, and no other Turn of the Session is under way.
LEMMA RemotePersistKeeps ==
  ASSUME Remote!RemoteAssumption, RemoteIInv, NEW t \in Turns, Remote!PersistBinding(t) \/ Remote!PersistDispatch(t)
  PROVE  RemoteIInv'
<1>1. RemoteTyped /\ RemoteTurnIs(t) /\ RemoteOrdered BY DEF RemoteIInv
<1>2. /\ remote_hub[t] \in RemoteAnyHub /\ remote_host[t] \in RemoteAnyHost /\ incoming[t] \in Seq(RemoteTokens)
      /\ SessionOf[t] \in Sessions /\ binding[SessionOf[t]] \in RemoteAnyBinding
  BY <1>1, RemoteTypes
<1>3. /\ remote_hub[t].pc \in {"loop", "drain"} /\ incoming[t] # <<>>
      /\ incoming' = [incoming EXCEPT ![t] = Tail(@)]
      /\ remote_hub' = [remote_hub EXCEPT ![t].pc = "ack", ![t].after = remote_hub[t].pc]
      /\ \/ Head(incoming[t]) = "bound" /\ Remote!PersistBinding(t)
         \/ Head(incoming[t]) = "context" /\ Remote!PersistDispatch(t)
  BY DEF Remote!PersistBinding, Remote!PersistDispatch, Remote!Acknowledging
<1>4. UNCHANGED <<effect, saved, out, back, reply, link, remote_host, callback, events, given,
                  hostContext, controls>>
  BY DEF Remote!PersistBinding, Remote!PersistDispatch, Remote!hostVars
<1>5. /\ remote_hub' \in [Turns -> RemoteAnyHub] /\ \A u \in Turns \ {t} : remote_hub'[u] = remote_hub[u]
      /\ remote_hub'[t].pc = "ack" /\ remote_hub'[t].after = remote_hub[t].pc /\ remote_hub'[t].cancel = remote_hub[t].cancel
      /\ remote_hub'[t].outcome = remote_hub[t].outcome /\ remote_hub'[t].resume = remote_hub[t].resume /\ remote_hub'[t].stored = remote_hub[t].stored
  <2>1. [remote_hub[t] EXCEPT !.pc = "ack", !.after = remote_hub[t].pc] \in RemoteAnyHub
    BY <1>2, <1>3 DEF RemoteAnyHub
  <2>2. remote_hub' = [remote_hub EXCEPT ![t] = [remote_hub[t] EXCEPT !.pc = "ack", !.after = remote_hub[t].pc]]  BY <1>3
  <2>3. remote_hub' \in [Turns -> RemoteAnyHub] BY <1>1, <2>1, <2>2 DEF RemoteTyped
  <2> QED BY <1>1, <1>2, <2>2, <2>3 DEF RemoteTyped, RemoteAnyHub
<1>6. PICK y : y = Head(incoming[t]) OBVIOUS
<1>7. /\ y \in RemoteTokens /\ Tail(incoming[t]) \in Seq(RemoteTokens) /\ Len(Tail(incoming[t])) <= Channel
      /\ incoming'[t] = Tail(incoming[t]) /\ \A u \in Turns \ {t} : incoming'[u] = incoming[u]
      /\ \A x \in RemoteTokens : RemoteOwn(incoming[t])[x] = IF x = y THEN RemoteOwn(incoming'[t])[x] + 1 ELSE RemoteOwn(incoming'[t])[x]
  <2>1. Len(incoming[t]) <= Channel /\ Channel \in Nat BY <1>1, RemoteConstant DEF RemoteTyped
  <2>2. incoming'[t] = Tail(incoming[t]) /\ \A u \in Turns \ {t} : incoming'[u] = incoming[u]
    BY <1>1, <1>3 DEF RemoteTyped
  <2> QED BY <1>2, <1>3, <1>6, <2>1, <2>2, RemoteOwnTail
<1>8. /\ RemoteOwn(incoming[t])["bound"] \in Nat /\ RemoteOwn(incoming[t])["context"] \in Nat /\ RemoteOwn(incoming[t])["event"] \in Nat
      /\ RemoteOwn(incoming'[t])["bound"] \in Nat /\ RemoteOwn(incoming'[t])["context"] \in Nat
      /\ RemoteOwn(incoming[t])["event"] = RemoteOwn(incoming'[t])["event"]
  <2>1. y # "event"  BY <1>3, <1>6
  <2> QED BY <1>2, <1>7, <2>1, RemoteCounts DEF RemoteTokens
<1>9. /\ RemoteOwn(incoming[t])["bound"] > 0 \/ RemoteOwn(incoming[t])["context"] > 0
      /\ y = "context" => RemoteOwn(incoming[t])["context"] > 0
      /\ RemoteOwn(incoming[t])["bound"] = 0 => RemoteOwn(incoming'[t])["bound"] = 0
      /\ RemoteOwn(incoming[t])["context"] = 0 => RemoteOwn(incoming'[t])["context"] = 0
  BY <1>3, <1>6, <1>7, <1>8 DEF RemoteTokens
<1>10. remote_host[t].pc \notin RemoteEarly /\ remote_host[t].session = t
  BY <1>1, <1>9 DEF RemoteTurnIs, RemoteTokensOK, RemoteBare
<1>11. RemoteMade(t, remote_host[t].context) BY <1>1, <1>10, RemoteConstant DEF RemoteIInv, RemoteSound
<1>12. /\ \A s \in Sessions \ {SessionOf[t]} : binding'[s] = binding[s]
       /\ \/ y = "bound" /\ binding'[SessionOf[t]].id = t /\ binding'[SessionOf[t]].context = remote_host[t].context
          \/ /\ y = "context" /\ binding'[SessionOf[t]].id = binding[SessionOf[t]].id
             /\ binding'[SessionOf[t]].context = binding[SessionOf[t]].context
       /\ binding' \in [Sessions -> RemoteAnyBinding]
  <2>1. CASE Head(incoming[t]) = "bound" /\ Remote!PersistBinding(t)
    <3>1. [id |-> t, context |-> remote_host[t].context, dispatched |-> ~FirstPrompt] \in RemoteAnyBinding
      BY <1>2, <2>1 DEF RemoteAnyBinding, RemoteAnyHost, Remote!RemoteAssumption
    <3> QED BY <1>1, <1>2, <1>6, <2>1, <3>1 DEF Remote!PersistBinding, RemoteTyped
  <2>2. CASE Head(incoming[t]) = "context" /\ Remote!PersistDispatch(t)
    <3>1. [binding[SessionOf[t]] EXCEPT !.dispatched = TRUE] \in RemoteAnyBinding
      BY <1>2 DEF RemoteAnyBinding
    <3>2. binding' = [binding EXCEPT ![SessionOf[t]] = [binding[SessionOf[t]] EXCEPT !.dispatched = TRUE]]
      BY <2>2 DEF Remote!PersistDispatch
    <3> QED BY <1>1, <1>2, <1>6, <2>2, <3>1, <3>2 DEF RemoteTyped, RemoteAnyBinding
  <2> QED BY <1>3, <2>1, <2>2
<1>13. RemoteTurnIs(t)'
  <2>1. RemoteStreamOK(t)' BY <1>1, <1>3, <1>4, <1>5, <1>8 DEF RemoteTurnIs, RemoteStreamOK,
      RemoteStored, RemoteComing
  <2>2. RemoteTokensOK(t)' BY <1>1, <1>4, <1>9, <1>10 DEF RemoteTurnIs, RemoteTokensOK, RemoteBare
  <2>3. RemoteStoredOK(t)'
    BY <1>1, <1>3, <1>4, <1>5, <1>9, <1>10, <1>12 DEF RemoteTurnIs, RemoteStoredOK, RemoteTokensOK,
         RemoteEarly
  <2>4. RemoteSentOnce(t)' /\ RemoteOutcomeOK(t)' /\ RemoteReplyOK(t)' /\ RemoteCancelOK(t)' /\ RemoteHostOK(t)'
    BY <1>1, <1>3, <1>4, <1>5 DEF RemoteTurnIs, RemoteSentOnce, RemoteOutcomeOK, RemoteReplyOK,
         RemoteCancelOK, RemoteHostOK
  <2> QED BY <2>1, <2>2, <2>3, <2>4 DEF RemoteTurnIs
<1>14. RemoteTyped'
  <2>1. incoming' \in [Turns -> Seq(RemoteTokens)] BY <1>1, <1>3, <1>7 DEF RemoteTyped
  <2>2. \A u \in Turns : Len(incoming'[u]) <= Channel BY <1>1, <1>7 DEF RemoteTyped
  <2> QED BY <1>1, <1>4, <1>5, <1>12, <2>1, <2>2 DEF RemoteTyped
<1>15. ASSUME NEW u \in Turns \ {t} PROVE RemoteTurnIs(u)'
  <2>1. RemoteTurnIs(u) /\ SessionOf[u] \in Sessions BY RemoteConstant DEF RemoteIInv
  <2>2. /\ remote_hub'[u] = remote_hub[u] /\ incoming'[u] = incoming[u]
        /\ SessionOf[u] = SessionOf[t] => RemoteResting(remote_hub[u])
    BY <1>3, <1>5, <1>7 DEF RemoteIInv, RemoteExclusive, RemoteResting
  <2>3. RemoteStoredOK(u)'
    <3>1. CASE SessionOf[u] # SessionOf[t]
      BY <1>4, <1>12, <2>1, <2>2, <3>1 DEF RemoteTurnIs, RemoteStoredOK
    <3>2. CASE SessionOf[u] = SessionOf[t]
      BY <1>4, <2>1, <2>2, <3>2 DEF RemoteTurnIs, RemoteStoredOK, RemoteResting, RemoteSentOnce,
           RemoteHostOK, Remote!None
    <3> QED BY <3>1, <3>2
  <2> QED BY <1>4, <2>1, <2>2, <2>3 DEF RemoteTurnIs, RemoteSentOnce, RemoteOutcomeOK, RemoteReplyOK,
      RemoteCancelOK, RemoteHostOK, RemoteTokensOK, RemoteBare,
         RemoteStreamOK, RemoteStored, RemoteComing
<1>16. RemoteSound'
  <2>1. \A s \in Sessions :
            \/ binding'[s].id = binding[s].id /\ binding'[s].context = binding[s].context
            \/ RemoteMade(binding[s].id, binding[s].context)'
    BY <1>4, <1>11, <1>12 DEF RemoteMade
  <2>2. RemoteSound /\ \A u \in Turns : remote_hub'[u].resume = remote_hub[u].resume /\ remote_hub'[u].stored = remote_hub[u].stored
    BY <1>5 DEF RemoteIInv
  <2> QED BY <1>1, <1>4, <2>1, <2>2, RemoteSoundKeeps
<1>17. RemoteExclusive' /\ RemoteOrdered' /\ RemotePermits'
  <2>1. \A u \in Turns : RemoteResting(remote_hub[u]) => RemoteResting(remote_hub'[u])
    BY <1>3, <1>5 DEF RemoteResting
  <2> QED BY <1>4, <2>1, RemotePermitsKeep DEF RemoteIInv, RemoteExclusive, RemoteOrdered
<1> QED BY <1>13, <1>14, <1>15, <1>16, <1>17 DEF RemoteIInv

\* The request is dropped, and what was in its channel with it.
LEMMA RemoteLeavesByErrorKeeps ==
  ASSUME Remote!RemoteAssumption, RemoteIInv, NEW t \in Turns, Remote!LeavesByError(t)
  PROVE  RemoteIInv'
<1>1. RemoteTyped /\ RemoteTurnIs(t) /\ RemoteOrdered BY DEF RemoteIInv
<1>2. remote_hub[t] \in RemoteAnyHub /\ remote_hub[t].pc \in {"loop", "drain", "ack"}
  BY <1>1 DEF Remote!LeavesByError, RemoteTyped
<1>3. UNCHANGED <<binding, saved, out, back, reply, link, remote_host, callback, events, given,
                  hostContext, controls>>
  BY DEF Remote!LeavesByError, Remote!hostVars
<1>4. /\ remote_hub' \in [Turns -> RemoteAnyHub] /\ \A u \in Turns \ {t} : remote_hub'[u] = remote_hub[u]
      /\ remote_hub'[t].pc = "done" /\ remote_hub'[t].outcome = "error" /\ remote_hub'[t].cancel = remote_hub[t].cancel
      /\ remote_hub'[t].resume = remote_hub[t].resume /\ remote_hub'[t].stored = remote_hub[t].stored
  BY <1>1, <1>2 DEF Remote!LeavesByError, RemoteTyped, RemoteAnyHub
<1>5. /\ incoming' \in [Turns -> Seq(RemoteTokens)] /\ incoming'[t] = <<>>
      /\ effect' \in [Turns -> {Remote!None, "started", "succeeded", "failed", "uncertain"}] /\ effect'[t] = "uncertain"
      /\ \A u \in Turns \ {t} : incoming'[u] = incoming[u] /\ effect'[u] = effect[u]
  BY <1>1 DEF Remote!LeavesByError, RemoteTyped
<1>6. /\ RemoteOwn(incoming'[t])["bound"] = 0 /\ RemoteOwn(incoming'[t])["context"] = 0 /\ RemoteOwn(incoming'[t])["event"] = 0
      /\ RemoteOwn(incoming[t])["event"] \in Nat
      /\ RemoteOwn(callback[t])["event"] \in Nat /\ RemoteOwn(events[t])["event"] \in Nat /\ RemoteOf(back, t)["event"] \in Nat
      /\ saved[t] \in Nat /\ remote_host[t].emitted \in Nat
  <2>1. remote_host[t].emitted \in 0..MaxEvents /\ MaxEvents \in Nat
    BY <1>1, RemoteTypes, RemoteConstant DEF RemoteAnyHost
  <2> QED BY <1>1, <1>5, <2>1, RemoteOwnEmpty, RemoteTypes DEF RemoteTokens, RemoteKinds
<1>7. RemoteTurnIs(t)'
  <2>1. RemoteStreamOK(t)'
    <3>1. RemoteStored(t)' <= RemoteStored(t) /\ RemoteComing(t)' = RemoteComing(t) /\ RemoteStored(t) \in Nat /\ RemoteStored(t)' \in Nat
          /\ RemoteComing(t) \in Nat
      BY <1>3, <1>6 DEF RemoteStored, RemoteComing
    <3>2. RemoteStored(t)' + RemoteComing(t)' <= remote_host'[t].emitted
      BY <1>1, <1>3, <1>6, <3>1 DEF RemoteTurnIs, RemoteStreamOK
    <3> QED BY <1>1, <1>3, <1>4, <1>6, <3>2 DEF RemoteTurnIs, RemoteStreamOK, Remote!None
  <2>2. RemoteTokensOK(t)' BY <1>1, <1>3, <1>4, <1>6 DEF RemoteTurnIs, RemoteTokensOK, RemoteBare
  <2> QED BY <1>1, <1>2, <1>3, <1>4, <1>5, <2>1, <2>2
      DEF RemoteTurnIs, RemoteSentOnce, RemoteOutcomeOK, RemoteReplyOK, RemoteCancelOK, RemoteHostOK, RemoteStoredOK, Remote!None
<1>8. RemoteTyped'
  <2>1. \A u \in Turns : Len(incoming'[u]) <= Channel
    <3>1. Len(<<>>) = 0 /\ Channel \in Nat BY RemoteConstant
    <3>2. \A u \in Turns \ {t} : Len(incoming'[u]) <= Channel BY <1>1, <1>5 DEF RemoteTyped
    <3>3. Len(incoming'[t]) <= Channel BY <1>5, <3>1
    <3> QED BY <3>2, <3>3
  <2> QED BY <1>1, <1>3, <1>4, <1>5, <2>1 DEF RemoteTyped
<1>9. RemoteElsewhere(t) BY <1>3, <1>4, <1>5 DEF RemoteElsewhere
<1>10. RemoteOrdered' BY <1>1, <1>3 DEF RemoteOrdered
<1> QED BY <1>2, <1>3, <1>4, <1>7, <1>8, <1>9, <1>10, RemoteHubKeeps DEF RemoteResting

\* The Turn starts with what is stored of its Session, alone in it.
LEMMA RemoteStartTurnKeeps ==
  ASSUME Remote!RemoteAssumption, RemoteIInv, NEW t \in Turns, Remote!StartTurn(t)
  PROVE  RemoteIInv'
<1>1. RemoteTyped /\ RemoteTurnIs(t) /\ RemoteOrdered BY DEF RemoteIInv
<1>2. remote_hub[t] \in RemoteAnyHub /\ remote_hub[t].pc = "idle" /\ SessionOf[t] \in Sessions /\ binding[SessionOf[t]] \in RemoteAnyBinding
  BY <1>1, RemoteTypes DEF Remote!StartTurn
<1>3. UNCHANGED <<binding, saved, out, back, incoming, reply, link, remote_host, callback, events,
                  given, hostContext, controls>>
  BY DEF Remote!StartTurn, Remote!hostVars
<1>4. PICK r \in Turns \cup {Remote!None} :
        /\ remote_hub' = [remote_hub EXCEPT ![t].pc = "send", ![t].stored = binding[SessionOf[t]].context, ![t].resume = r]
        /\ r # Remote!None => r = binding[SessionOf[t]].id
  BY <1>2 DEF Remote!StartTurn, RemoteAnyBinding
<1>5. /\ remote_hub' \in [Turns -> RemoteAnyHub] /\ \A u \in Turns \ {t} : remote_hub'[u] = remote_hub[u]
      /\ remote_hub'[t].pc = "send" /\ remote_hub'[t].outcome = remote_hub[t].outcome /\ remote_hub'[t].cancel = remote_hub[t].cancel
      /\ remote_hub'[t].resume = r /\ remote_hub'[t].stored = binding[SessionOf[t]].context
  <2> DEFINE h == [remote_hub[t] EXCEPT !.pc = "send", !.stored = binding[SessionOf[t]].context, !.resume = r]
  <2>1. h \in RemoteAnyHub BY <1>2 DEF RemoteAnyHub, RemoteAnyBinding
  <2>2. remote_hub' = [remote_hub EXCEPT ![t] = h] BY <1>4
  <2>3. remote_hub' \in [Turns -> RemoteAnyHub] BY <1>1, <2>1, <2>2 DEF RemoteTyped
  <2> QED BY <1>1, <1>2, <2>2, <2>3 DEF RemoteTyped, RemoteAnyHub
<1>6. /\ effect' \in [Turns -> {Remote!None, "started", "succeeded", "failed", "uncertain"}] /\ effect'[t] = "started"
      /\ \A u \in Turns \ {t} : effect'[u] = effect[u]
  BY <1>1 DEF Remote!StartTurn, RemoteTyped
<1>7. RemoteTurnIs(t)'
  BY <1>1, <1>2, <1>3, <1>4, <1>5, <1>6 DEF RemoteTurnIs, RemoteSentOnce, RemoteOutcomeOK,
       RemoteReplyOK, RemoteCancelOK, RemoteHostOK,
     RemoteTokensOK, RemoteBare, RemoteStoredOK, RemoteStreamOK, RemoteStored, RemoteComing, Remote!None, RemoteEarly, RemoteBefore
<1>8. ASSUME NEW u \in Turns \ {t} PROVE RemoteTurnIs(u)'
  <2>1. RemoteTurnIs(u) BY DEF RemoteIInv
  <2> QED BY <1>3, <1>5, <1>6, <2>1 DEF RemoteTurnIs, RemoteSentOnce, RemoteOutcomeOK, RemoteReplyOK,
      RemoteCancelOK, RemoteHostOK, RemoteTokensOK, RemoteBare,
         RemoteStoredOK, RemoteStreamOK, RemoteStored, RemoteComing
<1>9. RemoteTyped' BY <1>1, <1>3, <1>5, <1>6 DEF RemoteTyped
<1>10. RemoteSound'
  <2>1. r # Remote!None => RemoteMade(r, binding[SessionOf[t]].context)
    BY <1>2, <1>4 DEF RemoteIInv, RemoteSound
  <2>2. \A u \in Turns :
            \/ remote_hub'[u].resume = remote_hub[u].resume /\ remote_hub'[u].stored = remote_hub[u].stored
            \/ remote_hub'[u].resume # Remote!None => RemoteMade(remote_hub[u].resume, remote_hub[u].stored)'
    BY <1>3, <1>5, <2>1 DEF RemoteMade
  <2>3. RemoteSound BY DEF RemoteIInv
  <2> QED BY <1>1, <1>3, <2>2, <2>3, RemoteSoundKeeps
<1>11. RemoteExclusive'
  <2>1. \A u \in Turns \ {t} : SessionOf[u] = SessionOf[t] => RemoteResting(remote_hub[u])
    BY DEF Remote!StartTurn, RemoteResting
  <2> QED BY <1>5, <2>1 DEF RemoteIInv, RemoteExclusive
<1>12. RemoteOrdered' /\ RemotePermits' BY <1>3, RemotePermitsKeep DEF RemoteIInv, RemoteOrdered
<1> QED BY <1>7, <1>8, <1>9, <1>10, <1>11, <1>12 DEF RemoteIInv


\* A step that is of no Turn.
LEMMA RemoteQuietKeeps ==
  ASSUME Remote!RemoteAssumption, RemoteIInv, RemoteTyped', RemoteOrdered',
         UNCHANGED <<remote_hub, remote_host, effect, binding, saved, incoming, reply, link, callback,
                     events, given>>,
         \A u \in Turns : RemoteOf(out', u) = RemoteOf(out, u) /\ RemoteOf(back', u) = RemoteOf(back, u)
  PROVE  RemoteIInv'
<1>1. ASSUME NEW u \in Turns PROVE RemoteTurnIs(u)'
  <2>1. RemoteTurnIs(u) BY DEF RemoteIInv
  <2> QED BY <2>1 DEF RemoteTurnIs, RemoteSentOnce, RemoteOutcomeOK, RemoteReplyOK, RemoteCancelOK,
      RemoteHostOK, RemoteTokensOK, RemoteBare, RemoteStoredOK,
         RemoteStreamOK, RemoteStored, RemoteComing
<1>2. RemoteSound' /\ RemoteExclusive' /\ RemotePermits'
  BY RemotePermitsKeep DEF RemoteIInv, RemoteSound, RemoteMade, RemoteExclusive
<1> QED BY <1>1, <1>2 DEF RemoteIInv

LEMMA RemoteControlsKeep ==
  ASSUME Remote!RemoteAssumption, RemoteIInv, NEW c \in Controls, Remote!SendControl(c)
  PROVE  RemoteIInv'
<1>1. RemoteTyped /\ RemoteOrdered BY DEF RemoteIInv
<1>2. Remote!Msg("control", c) \in RemoteAnyMsg /\ Remote!Msg("control", c).kind = "control"
  BY RemoteMessages
<1>3. out' = Append(out, Remote!Msg("control", c)) /\ Len(out) < Channel /\ controls' \subseteq controls
  BY DEF Remote!SendControl, Remote!Room
<1>4. out' \in Seq(RemoteAnyMsg) /\ Len(out') <= Channel /\ \A u \in Turns : RemoteOf(out', u) = RemoteOf(out, u)
  BY <1>1, <1>2, <1>3, RemoteOfAppend, RemoteConstant DEF RemoteTyped
<1>5. RemoteTyped' /\ RemoteOrdered'
  BY <1>1, <1>3, <1>4 DEF Remote!SendControl, RemoteTyped, Remote!hubVars, Remote!hostVars, RemoteOrdered
<1> QED BY <1>4, <1>5, RemoteQuietKeeps DEF Remote!SendControl, Remote!hubVars, Remote!hostVars

LEMMA RemoteEditKeeps ==
  ASSUME Remote!RemoteAssumption, RemoteIInv, Remote!EditContext
  PROVE  RemoteIInv'
<1>1. RemoteTyped /\ RemoteOrdered BY DEF RemoteIInv
<1>2. RemoteTyped' /\ RemoteOrdered'
  BY <1>1 DEF Remote!EditContext, RemoteTyped, Remote!hubVars, RemoteOrdered, Remote!Contexts
<1> QED BY <1>2, RemoteQuietKeeps DEF Remote!EditContext, Remote!hubVars

\* What the Hub's response task takes from the link.  An event nobody waits for is of a Turn
\* that has its outcome or its reply; behind a reply there is no event.
LEMMA RemoteDeliverKeeps ==
  ASSUME Remote!RemoteAssumption, RemoteIInv, Remote!Deliver
  PROVE  RemoteIInv'
<1>1. RemoteTyped /\ RemoteOrdered BY DEF RemoteIInv
<1>2. PICK m : m = Head(back) OBVIOUS
<1>3. /\ back # <<>> /\ back' = Tail(back)
      /\ UNCHANGED <<remote_hub, effect, binding, saved, out, link, remote_host, callback, events,
                     given, hostContext, controls>>
  BY DEF Remote!Deliver, Remote!hostVars
<1>4. /\ m \in RemoteAnyMsg /\ back' \in Seq(RemoteAnyMsg) /\ Len(back') <= Channel
      /\ \A u \in Turns : \A x \in RemoteKinds :
           RemoteOf(back, u)[x] = IF m.kind = x /\ m.turn = u THEN RemoteOf(back', u)[x] + 1 ELSE RemoteOf(back', u)[x]
      /\ \A u \in Turns : m.kind = "control" \/ m.turn # u => RemoteOf(back', u) = RemoteOf(back, u)
  <2>1. back \in Seq(RemoteAnyMsg) /\ Len(back) <= Channel /\ Channel \in Nat
    BY <1>1, RemoteConstant DEF RemoteTyped
  <2> QED BY <1>2, <1>3, <2>1, RemoteOfTail
<1>5. RemoteOrdered'
  BY <1>1, <1>3, RemoteOrderKeeps DEF RemoteTyped
<1>6. CASE m.kind = "control"
  <2>1. UNCHANGED <<incoming, reply>> BY <1>2, <1>6 DEF Remote!Deliver
  <2>2. RemoteTyped' BY <1>1, <1>3, <1>4, <2>1 DEF RemoteTyped
  <2> QED BY <1>3, <1>4, <1>5, <1>6, <2>1, <2>2, RemoteQuietKeeps
<1>7. CASE m.kind # "control"
  <2>1. m.kind \in RemoteKinds /\ m.turn \in Turns BY <1>4, <1>7, RemoteMessages
  <2>2. PICK t \in Turns : t = m.turn BY <2>1
  <2>3. RemoteTurnIs(t) /\ reply[t] \in RemoteResults \cup {Remote!None, "disconnected"}
    BY <1>1 DEF RemoteIInv, RemoteTyped
  <2>4. \A x \in RemoteKinds : /\ RemoteOf(back, t)[x] \in Nat /\ RemoteOf(back', t)[x] \in Nat
                               /\ RemoteOf(back, t)[x] = IF m.kind = x THEN RemoteOf(back', t)[x] + 1 ELSE RemoteOf(back', t)[x]
    BY <1>1, <1>4, <2>2, RemoteTypes, RemoteCounts
  <2>5. CASE m.kind \in RemoteResults
    <3>1. UNCHANGED incoming /\ reply' = [reply EXCEPT ![t] = IF Remote!Pending(t) THEN m.kind ELSE @]
      BY <1>2, <2>2, <2>5 DEF Remote!Deliver, RemoteResults
    <3>2. /\ reply' \in [Turns -> RemoteResults \cup {Remote!None, "disconnected"}]
          /\ \A u \in Turns \ {t} : reply'[u] = reply[u]
          /\ reply'[t] = IF Remote!Pending(t) THEN m.kind ELSE reply[t]
      BY <1>1, <2>5, <3>1 DEF RemoteTyped
    <3>3. /\ RemoteOf(back, t)[m.kind] > 0 /\ m.kind \in RemoteKinds
          /\ \A x \in RemoteKinds \ RemoteResults : RemoteOf(back', t)[x] = RemoteOf(back, t)[x]
          /\ \A x \in RemoteResults : RemoteOf(back', t)[x] > 0 => RemoteOf(back, t)[x] > 0
      <4>1. RemoteResults \subseteq RemoteKinds BY DEF RemoteKinds
      <4>2. RemoteOf(back, t)[m.kind] = RemoteOf(back', t)[m.kind] + 1 /\ RemoteOf(back', t)[m.kind] \in Nat BY <2>1, <2>4
      <4> QED BY <2>1, <2>4, <2>5, <4>1, <4>2
    <3>4. remote_host[t].pc = "sent" /\ remote_host[t].result = m.kind
      BY <2>3, <2>5, <3>3 DEF RemoteTurnIs, RemoteReplyOK
    <3>5. RemoteOf(back, t)["event"] = 0
      <4> SUFFICES ASSUME RemoteOf(back, t)["event"] # 0 PROVE FALSE  OBVIOUS
      <4>1. RemoteN(back, Remote!Msg("event", t)) > 0 /\ back \in Seq(RemoteAnyMsg)
        <5>1. "event" \in RemoteKinds  BY DEF RemoteKinds
        <5>2. RemoteOf(back, t)["event"] = RemoteN(back, Remote!Msg("event", t)) /\ RemoteOf(back, t)["event"] \in Nat
          BY <2>4, <5>1 DEF RemoteOf
        <5> QED BY <1>1, <5>2 DEF RemoteTyped
      <4>2. PICK j \in DOMAIN back : back[j] = Remote!Msg("event", t)  BY <4>1, RemoteNIs
      <4>3. 1 \in DOMAIN back /\ back[1] = m /\ (j = 1 \/ 1 < j) BY <1>2, <1>3, <4>1, <4>2
      <4>4. back[j].kind = "event" /\ back[j].turn = t  BY <4>2, RemoteMessages DEF RemoteKinds
      <4>5. m.kind # "event"  BY <2>5 DEF RemoteResults
      <4>6. 1 < j BY <4>2, <4>3, <4>4, <4>5
      <4> QED BY <1>1, <2>2, <2>5, <4>2, <4>3, <4>4, <4>6 DEF RemoteOrdered
    <3>6. RemoteTurnIs(t)'
      <4>1. RemoteStreamOK(t)'
        <5>1. RemoteStored(t)' = RemoteStored(t) /\ RemoteComing(t)' = RemoteComing(t)
          BY <1>3, <3>1, <3>3 DEF RemoteStored, RemoteComing, RemoteKinds, RemoteResults
        <5>2. RemoteComing(t) = 0 BY <2>3, <3>4, <3>5 DEF RemoteTurnIs, RemoteStreamOK, RemoteComing
        <5>3. RemoteStored(t) \in Nat BY <1>1, RemoteTypes DEF RemoteStored, RemoteTokens
        <5> QED BY <1>3, <2>3, <2>5, <3>1, <3>2, <3>3, <3>4, <5>1, <5>2, <5>3
            DEF RemoteTurnIs, RemoteStreamOK, RemoteReplyOK, Remote!Pending, RemoteOutcomeOK, RemoteSentOnce, Remote!None, RemoteResults
      <4>2. RemoteReplyOK(t)'
        <5>5. (Remote!Pending(t) /\ reply'[t] = m.kind) \/ (~Remote!Pending(t) /\ reply'[t] = reply[t]) BY <3>2
        <5>1. \A r \in RemoteResults : RemoteOf(back', t)[r] > 0 \/ reply'[t] = r => remote_host'[t].pc = "sent" /\ remote_host'[t].result = r
          <6> SUFFICES ASSUME NEW r \in RemoteResults, RemoteOf(back', t)[r] > 0 \/ reply'[t] = r
                       PROVE  remote_host[t].pc = "sent" /\ remote_host[t].result = r
            BY <1>3
          <6>1. RemoteOf(back, t)[r] > 0 \/ reply[t] = r \/ m.kind = r BY <3>3, <5>5
          <6> QED BY <2>3, <3>4, <6>1 DEF RemoteTurnIs, RemoteReplyOK
        <5>2. RemoteOf(back', t)["cancelled"] > 0 \/ reply'[t] = "cancelled" => remote_hub'[t].cancel
          <6>1. m.kind = "cancelled" => RemoteOf(back, t)["cancelled"] > 0  BY <3>3
          <6>2. "cancelled" \in RemoteResults  BY DEF RemoteResults
          <6> QED BY <1>3, <2>3, <3>3, <5>5, <6>1, <6>2 DEF RemoteTurnIs, RemoteReplyOK
        <5>3. Remote!Pending(t) => remote_hub[t].outcome \notin {"answered", "failed"}
          BY <2>3, <3>4 DEF RemoteTurnIs, RemoteReplyOK, Remote!Pending, Remote!None
        <5> QED BY <1>3, <2>3, <5>5, <5>1, <5>2, <5>3 DEF RemoteTurnIs, RemoteReplyOK
      <4>3. RemoteTokensOK(t)'
        BY <1>3, <2>3, <3>1, <3>3 DEF RemoteTurnIs, RemoteTokensOK, RemoteBare, RemoteKinds, RemoteResults
      <4> QED BY <1>3, <2>3, <4>1, <4>2, <4>3 DEF RemoteTurnIs, RemoteSentOnce, RemoteOutcomeOK,
          RemoteCancelOK, RemoteHostOK, RemoteStoredOK
    <3>7. RemoteTyped' BY <1>1, <1>3, <1>4, <3>1, <3>2 DEF RemoteTyped
    <3>8. RemoteElsewhere(t) BY <1>3, <1>4, <2>2, <3>1, <3>2 DEF RemoteElsewhere
    <3> QED BY <1>3, <1>5, <3>6, <3>7, <3>8, RemoteHubKeeps
  <2>6. CASE m.kind \notin RemoteResults
    <3>1. /\ m.kind \in RemoteTokens /\ UNCHANGED reply
          /\ IF Remote!Pending(t) THEN Remote!Room(incoming[t]) /\ incoming' = [incoming EXCEPT ![t] = Append(@, m.kind)]
                           ELSE UNCHANGED incoming
      BY <1>2, <1>7, <2>2, <2>6 DEF Remote!Deliver, RemoteResults, RemoteTokens
    <3>2. /\ incoming' \in [Turns -> Seq(RemoteTokens)] /\ \A u \in Turns \ {t} : incoming'[u] = incoming[u]
          /\ Len(incoming'[t]) <= Channel
          /\ \A x \in RemoteTokens : RemoteOwn(incoming'[t])[x] = IF Remote!Pending(t) /\ x = m.kind
                                                      THEN RemoteOwn(incoming[t])[x] + 1 ELSE RemoteOwn(incoming[t])[x]
      <4>1. incoming[t] \in Seq(RemoteTokens) /\ Len(incoming[t]) <= Channel /\ Channel \in Nat
        BY <1>1, RemoteConstant DEF RemoteTyped
      <4>2. CASE Remote!Pending(t)
        <5>1. Append(incoming[t], m.kind) \in Seq(RemoteTokens) /\ Len(Append(incoming[t], m.kind)) <= Channel
          BY <3>1, <4>1, <4>2 DEF Remote!Room
        <5>2. incoming' = [incoming EXCEPT ![t] = Append(incoming[t], m.kind)] BY <3>1, <4>2
        <5>3. incoming'[t] = Append(incoming[t], m.kind) BY <1>1, <5>2 DEF RemoteTyped
        <5> QED BY <1>1, <3>1, <4>1, <4>2, <5>1, <5>2, <5>3, RemoteOwnAppend DEF RemoteTyped
      <4>3. CASE ~Remote!Pending(t) BY <1>1, <3>1, <4>1, <4>3 DEF RemoteTyped
      <4> QED BY <4>2, <4>3
    <3>3. /\ RemoteOf(back, t)[m.kind] > 0
          /\ \A x \in RemoteResults : RemoteOf(back', t)[x] = RemoteOf(back, t)[x]
      <4>1. RemoteResults \subseteq RemoteKinds BY DEF RemoteKinds
      <4>2. RemoteOf(back, t)[m.kind] = RemoteOf(back', t)[m.kind] + 1 /\ RemoteOf(back', t)[m.kind] \in Nat BY <2>1, <2>4
      <4> QED BY <2>1, <2>4, <2>6, <4>1, <4>2
    <3>4. /\ RemoteOwn(incoming[t])["event"] \in Nat /\ RemoteOwn(incoming[t])["bound"] \in Nat
          /\ RemoteOwn(incoming[t])["context"] \in Nat /\ RemoteOwn(callback[t])["event"] \in Nat
          /\ RemoteOwn(events[t])["event"] \in Nat /\ saved[t] \in Nat
      BY <1>1, RemoteTypes DEF RemoteTokens
    <3>5. RemoteTurnIs(t)'
      <4>1. RemoteStreamOK(t)'
        <5>1. CASE m.kind = "event" /\ Remote!Pending(t)
          <6>1. RemoteOwn(incoming'[t])["event"] = RemoteOwn(incoming[t])["event"] + 1
                /\ RemoteOf(back, t)["event"] = RemoteOf(back', t)["event"] + 1
            BY <2>4, <3>2, <5>1 DEF RemoteTokens, RemoteKinds
          <6>2. /\ RemoteOf(back, t)["event"] \in Nat /\ RemoteOf(back', t)["event"] \in Nat
            BY <2>4 DEF RemoteKinds
          <6>3. RemoteStored(t)' + RemoteComing(t)' = RemoteStored(t) + RemoteComing(t)
            <7>1. RemoteStored(t)' = RemoteStored(t) + 1 /\ RemoteStored(t) \in Nat
              <8>1. saved'[t] = saved[t] BY <1>3
              <8> QED BY <3>4, <6>1, <8>1 DEF RemoteStored
            <7>2. RemoteComing(t) = RemoteComing(t)' + 1 /\ RemoteComing(t)' \in Nat
              <8>1. UNCHANGED <<callback[t], events[t]>> BY <1>3
              <8> QED BY <3>4, <6>1, <6>2, <8>1 DEF RemoteComing
            <7> QED BY <7>1, <7>2
          <6>4. reply[t] = Remote!None /\ remote_hub[t].pc # "done"  BY <5>1 DEF Remote!Pending
          <6> QED BY <1>3, <2>3, <3>1, <3>3, <6>3, <6>4 DEF RemoteTurnIs, RemoteStreamOK, Remote!None
        <5>2. CASE m.kind = "event" /\ ~Remote!Pending(t)
          <6>1. RemoteOf(back, t)["event"] = RemoteOf(back', t)["event"] + 1
                /\ RemoteOf(back, t)["event"] \in Nat /\ RemoteOf(back', t)["event"] \in Nat
            BY <2>4, <5>2 DEF RemoteKinds
          <6>2. incoming' = incoming BY <3>1, <5>2
          <6>3. RemoteStored(t)' = RemoteStored(t) /\ RemoteComing(t) = RemoteComing(t)' + 1 /\ RemoteComing(t)' \in Nat /\ RemoteStored(t) \in Nat
            <7>1. UNCHANGED <<callback[t], events[t], saved[t], incoming[t]>> BY <1>3, <6>2
            <7>2. RemoteStored(t)' = RemoteStored(t) /\ RemoteStored(t) \in Nat
              BY <3>4, <7>1 DEF RemoteStored
            <7>3. RemoteComing(t) = RemoteComing(t)' + 1 /\ RemoteComing(t)' \in Nat
              BY <3>4, <6>1, <7>1 DEF RemoteComing
            <7> QED BY <7>2, <7>3
          <6>4. remote_host[t].emitted \in Nat
            <7>1. remote_host[t].emitted \in 0..MaxEvents /\ MaxEvents \in Nat
              BY <1>1, RemoteTypes, RemoteConstant DEF RemoteAnyHost
            <7> QED BY <7>1
          <6>5. remote_host[t].emitted > 0 BY <2>3, <6>3, <6>4 DEF RemoteTurnIs, RemoteStreamOK
          <6>6. remote_hub[t].outcome # Remote!None \/ reply[t] # Remote!None
            <7>1. remote_hub[t] \in RemoteAnyHub BY <1>1 DEF RemoteTyped
            <7>2. remote_host[t].pc # "idle"
              BY <2>3, <6>4, <6>5 DEF RemoteTurnIs, RemoteHostOK, RemoteBefore, RemoteEarly
            <7>3. remote_hub[t].pc \notin {"idle", "send"}  BY <2>3, <7>2 DEF RemoteTurnIs, RemoteSentOnce
            <7> QED BY <2>3, <5>2, <7>1, <7>3 DEF Remote!Pending, RemoteTurnIs, RemoteOutcomeOK,
                RemoteAnyHub, Remote!None
          <6> QED BY <1>3, <2>3, <3>1, <6>2, <6>3, <6>4, <6>6 DEF RemoteTurnIs, RemoteStreamOK
        <5>3. CASE m.kind # "event"
          <6>1. RemoteOwn(incoming'[t])["event"] = RemoteOwn(incoming[t])["event"] /\ RemoteOf(back', t)["event"] = RemoteOf(back, t)["event"]
            BY <2>4, <3>2, <5>3 DEF RemoteTokens, RemoteKinds
          <6> QED BY <1>3, <2>3, <3>1, <3>3, <6>1 DEF RemoteTurnIs, RemoteStreamOK, RemoteStored, RemoteComing
        <5> QED BY <5>1, <5>2, <5>3
      <4>2. RemoteTokensOK(t)'
        <5>1. ASSUME NEW x \in {"bound", "context"}, RemoteOwn(incoming[t])[x] = 0, RemoteOf(back, t)[x] = 0
              PROVE  RemoteOwn(incoming'[t])[x] = 0 /\ RemoteOf(back', t)[x] = 0
          BY <2>4, <3>2, <5>1 DEF RemoteTokens, RemoteKinds
        <5> QED BY <1>3, <2>3, <5>1 DEF RemoteTurnIs, RemoteTokensOK, RemoteBare
      <4>3. RemoteReplyOK(t)'
        BY <1>3, <2>3, <3>1, <3>3 DEF RemoteTurnIs, RemoteReplyOK, RemoteResults
      <4> QED BY <1>3, <2>3, <3>1, <4>1, <4>2, <4>3 DEF RemoteTurnIs, RemoteSentOnce, RemoteOutcomeOK,
          RemoteCancelOK, RemoteHostOK, RemoteStoredOK
    <3>6. RemoteTyped'
      <4>1. \A u \in Turns : Len(incoming'[u]) <= Channel BY <1>1, <3>2 DEF RemoteTyped
      <4> QED BY <1>1, <1>3, <1>4, <3>1, <3>2, <4>1 DEF RemoteTyped
    <3>7. RemoteElsewhere(t) BY <1>3, <1>4, <2>2, <3>1, <3>2 DEF RemoteElsewhere
    <3> QED BY <1>3, <1>5, <3>5, <3>6, <3>7, RemoteHubKeeps
  <2> QED BY <2>5, <2>6
<1> QED BY <1>6, <1>7


\* Every request the Hub has sent and nobody answered is disconnected.
LEMMA RemoteDrainKeeps ==
  ASSUME Remote!RemoteAssumption, RemoteIInv, Remote!Drain
  PROVE  RemoteIInv'
<1>1. RemoteTyped /\ RemoteOrdered BY DEF RemoteIInv
<1>2. UNCHANGED <<remote_hub, effect, binding, saved, out, back, incoming, link, remote_host, callback,
                  events, given, hostContext, controls>>
  BY DEF Remote!Drain, Remote!hostVars
<1>3. /\ reply' \in [Turns -> RemoteResults \cup {Remote!None, "disconnected"}]
      /\ \A u \in Turns : \/ reply'[u] = reply[u]
                          \/ reply[u] = Remote!None /\ remote_hub[u].pc \in {"loop", "ack"} /\ reply'[u] = "disconnected"
  BY <1>1 DEF Remote!Drain, Remote!Pending, RemoteTyped
<1>4. ASSUME NEW u \in Turns PROVE RemoteTurnIs(u)'
  <2>1. RemoteTurnIs(u) BY DEF RemoteIInv
  <2>2. CASE reply'[u] = reply[u]
    BY <1>2, <2>1, <2>2 DEF RemoteTurnIs, RemoteSentOnce, RemoteOutcomeOK, RemoteReplyOK,
         RemoteCancelOK, RemoteHostOK, RemoteTokensOK, RemoteBare, RemoteStoredOK,
       RemoteStreamOK, RemoteStored, RemoteComing
  <2>3. CASE reply[u] = Remote!None /\ reply'[u] = "disconnected"
    <3>1. RemoteReplyOK(u)' BY <1>2, <2>1, <2>3 DEF RemoteTurnIs, RemoteReplyOK, RemoteResults, Remote!None
    <3>2. RemoteStreamOK(u)' BY <1>2, <2>1, <2>3 DEF RemoteTurnIs, RemoteStreamOK, RemoteStored,
        RemoteComing, Remote!None
    <3> QED BY <1>2, <2>1, <3>1, <3>2 DEF RemoteTurnIs, RemoteSentOnce, RemoteOutcomeOK,
        RemoteCancelOK, RemoteHostOK, RemoteTokensOK, RemoteBare, RemoteStoredOK
  <2> QED BY <1>3, <2>2, <2>3
<1>5. RemoteTyped' /\ RemoteOrdered' BY <1>1, <1>2, <1>3 DEF RemoteTyped, RemoteOrdered
<1>6. RemoteSound' /\ RemoteExclusive' /\ RemotePermits'
  BY <1>2, RemotePermitsKeep DEF RemoteIInv, RemoteSound, RemoteMade, RemoteExclusive
<1> QED BY <1>4, <1>5, <1>6 DEF RemoteIInv

--------------------
(* Steps of the Host.                                                      *)

\* What the Host's loop takes from the link: a request, a cancellation, an acknowledgement of
\* what the Hub has stored, or a request it answers at once.
LEMMA RemoteReceiveKeeps ==
  ASSUME Remote!RemoteAssumption, RemoteIInv, Remote!Receive
  PROVE  RemoteIInv'
<1>1. RemoteTyped /\ RemoteOrdered BY DEF RemoteIInv
<1>2. PICK m : m = Head(out) OBVIOUS
<1>3. /\ out # <<>> /\ out' = Tail(out)
      /\ UNCHANGED <<remote_hub, effect, binding, saved, incoming, reply, link, callback, events,
                     given, hostContext, controls>>
  BY DEF Remote!Receive, Remote!hubVars
<1>4. /\ m \in RemoteAnyMsg /\ out' \in Seq(RemoteAnyMsg) /\ Len(out') <= Channel
      /\ \A u \in Turns : \A x \in RemoteKinds :
           RemoteOf(out, u)[x] = IF m.kind = x /\ m.turn = u THEN RemoteOf(out', u)[x] + 1 ELSE RemoteOf(out', u)[x]
      /\ \A u \in Turns : m.kind = "control" \/ m.turn # u => RemoteOf(out', u) = RemoteOf(out, u)
  <2>1. out \in Seq(RemoteAnyMsg) /\ Len(out) <= Channel /\ Channel \in Nat
    BY <1>1, RemoteConstant DEF RemoteTyped
  <2> QED BY <1>2, <1>3, <2>1, RemoteOfTail
<1>5. CASE m.kind = "control"
  <2>1. UNCHANGED remote_host /\ (link => Remote!Room(back)) /\ back' = IF link THEN Append(back, m) ELSE back
    BY <1>2, <1>5 DEF Remote!Receive
  <2>2. /\ back' \in Seq(RemoteAnyMsg) /\ Len(back') <= Channel
        /\ \A u \in Turns : RemoteOf(back', u) = RemoteOf(back, u)
    <3>1. back \in Seq(RemoteAnyMsg) /\ Len(back) <= Channel /\ Channel \in Nat
      BY <1>1, RemoteConstant DEF RemoteTyped
    <3>2. CASE link BY <1>4, <1>5, <2>1, <3>1, <3>2, RemoteOfAppend DEF Remote!Room
    <3>3. CASE ~link BY <2>1, <3>1, <3>3
    <3> QED BY <3>2, <3>3
  <2>3. RemoteOrdered' BY <1>1, <1>4, <1>5, <2>1, RemoteOrderKeeps DEF RemoteTyped
  <2>4. RemoteTyped' BY <1>1, <1>3, <1>4, <2>1, <2>2 DEF RemoteTyped
  <2> QED BY <1>3, <1>4, <1>5, <2>1, <2>2, <2>3, <2>4, RemoteQuietKeeps
<1>6. CASE m.kind # "control"
  <2>1. m.kind \in RemoteKinds /\ m.turn \in Turns BY <1>4, <1>6, RemoteMessages
  <2>2. PICK t \in Turns : t = m.turn BY <2>1
  <2>3. RemoteTurnIs(t) /\ remote_host[t] \in RemoteAnyHost /\ remote_hub[t] \in RemoteAnyHub
    BY <1>1 DEF RemoteIInv, RemoteTyped
  <2>4. /\ \A x \in RemoteKinds : /\ RemoteOf(out, t)[x] \in Nat /\ RemoteOf(out', t)[x] \in Nat
                                  /\ RemoteOf(out, t)[x] = IF m.kind = x THEN RemoteOf(out', t)[x] + 1 ELSE RemoteOf(out', t)[x]
        /\ m.kind \in {"execute", "cancel", "ack"} /\ UNCHANGED back
    BY <1>1, <1>2, <1>4, <1>6, <2>2, RemoteTypes, RemoteCounts DEF Remote!Receive
  <2>5. /\ RemoteOf(out, t)["execute"] \in Nat /\ RemoteOf(out', t)["execute"] \in Nat /\ RemoteOf(out, t)["ack"] \in Nat
        /\ RemoteOf(out', t)["ack"] \in Nat /\ RemoteOf(out, t)["cancel"] \in Nat /\ RemoteOf(out', t)["cancel"] \in Nat
        /\ RemoteOf(out', t)["execute"] = IF m.kind = "execute" THEN RemoteOf(out, t)["execute"] - 1 ELSE RemoteOf(out, t)["execute"]
        /\ RemoteOf(out', t)["ack"] = IF m.kind = "ack" THEN RemoteOf(out, t)["ack"] - 1 ELSE RemoteOf(out, t)["ack"]
        /\ RemoteOf(out', t)["cancel"] = IF m.kind = "cancel" THEN RemoteOf(out, t)["cancel"] - 1 ELSE RemoteOf(out, t)["cancel"]
    BY <2>4 DEF RemoteKinds
  <2>6. RemoteOrdered' BY <1>1, <2>4 DEF RemoteOrdered
  <2>7. /\ remote_host' \in [Turns -> RemoteAnyHost] /\ \A u \in Turns \ {t} : remote_host'[u] = remote_host[u]
        /\ remote_host'[t].session = remote_host[t].session /\ remote_host'[t].context = remote_host[t].context
        /\ remote_host'[t].result = remote_host[t].result /\ remote_host'[t].emitted = remote_host[t].emitted
        /\ remote_host'[t].prompted = remote_host[t].prompted
        /\ CASE m.kind = "execute" -> /\ remote_host'[t].pc = "accepted" /\ remote_host'[t].resume = remote_hub[t].resume
                                      /\ remote_host'[t].stored = remote_hub[t].stored /\ remote_host'[t].cancel = remote_host[t].cancel
             [] m.kind = "cancel" -> /\ remote_host'[t].pc = remote_host[t].pc /\ remote_host'[t].resume = remote_host[t].resume
                                     /\ remote_host'[t].stored = remote_host[t].stored
             [] m.kind = "ack" -> /\ remote_host'[t].resume = remote_host[t].resume /\ remote_host'[t].stored = remote_host[t].stored
                                  /\ remote_host'[t].cancel = remote_host[t].cancel
                                  /\ \/ remote_host[t].pc = "binding" /\ remote_host'[t].pc \in {"contextual", "ready"}
                                     \/ remote_host[t].pc = "dispatching" /\ remote_host'[t].pc = "ready"
                                     \/ remote_host[t].pc \notin {"binding", "dispatching"} /\ remote_host'[t].pc = remote_host[t].pc
    <3>1. CASE m.kind = "execute"
      <4> DEFINE k == [remote_host[t] EXCEPT !.pc = "accepted", !.resume = remote_hub[t].resume, !.stored = remote_hub[t].stored]
      <4>1. k \in RemoteAnyHost BY <2>3 DEF RemoteAnyHost, RemoteAnyHub
      <4>2. remote_host' = [remote_host EXCEPT ![t] = k] BY <1>2, <2>2, <3>1 DEF Remote!Receive
      <4> QED BY <1>1, <2>3, <3>1, <4>1, <4>2 DEF RemoteTyped, RemoteAnyHost
    <3>2. CASE m.kind = "cancel"
      <4>1. PICK c \in BOOLEAN : remote_host' = [remote_host EXCEPT ![t].cancel = c]
        <5>1. (remote_host[t].cancel \/ remote_host[t].pc # "sent") \in BOOLEAN  OBVIOUS
        <5>2. remote_host' = [remote_host EXCEPT ![t].cancel = @ \/ remote_host[t].pc # "sent"]
          BY <1>2, <2>2, <3>2 DEF Remote!Receive
        <5> QED BY <5>1, <5>2
      <4>2. [remote_host[t] EXCEPT !.cancel = c] \in RemoteAnyHost BY <2>3 DEF RemoteAnyHost
      <4>3. remote_host' = [remote_host EXCEPT ![t] = [remote_host[t] EXCEPT !.cancel = c]] BY <4>1
      <4> QED BY <1>1, <2>3, <3>2, <4>2, <4>3 DEF RemoteTyped, RemoteAnyHost
    <3>3. CASE m.kind = "ack"
      <4>1. PICK p : /\ remote_host' = [remote_host EXCEPT ![t].pc = p]
                     /\ \/ remote_host[t].pc = "binding" /\ p \in {"contextual", "ready"}
                        \/ remote_host[t].pc = "dispatching" /\ p = "ready"
                        \/ remote_host[t].pc \notin {"binding", "dispatching"} /\ p = remote_host[t].pc
        BY <1>2, <2>2, <3>3 DEF Remote!Receive
      <4>2. [remote_host[t] EXCEPT !.pc = p] \in RemoteAnyHost
        BY <2>3, <4>1 DEF RemoteAnyHost, Remote!Working
      <4>3. remote_host' = [remote_host EXCEPT ![t] = [remote_host[t] EXCEPT !.pc = p]] BY <4>1
      <4> QED BY <1>1, <2>3, <3>3, <4>1, <4>2, <4>3 DEF RemoteTyped, RemoteAnyHost
    <3> QED BY <2>4, <3>1, <3>2, <3>3
  <2>8. RemoteTurnIs(t)'
    <3>1. CASE m.kind = "execute"
      <4>1. remote_host[t].pc = "idle" /\ remote_hub[t].pc \notin {"idle", "send"} /\ RemoteOf(out, t)["execute"] = 1
        BY <2>3, <2>5, <3>1, <1>1 DEF RemoteTurnIs, RemoteSentOnce, RemoteTyped, RemoteAnyHost
      <4> QED BY <1>3, <2>3, <2>4, <2>5, <2>7, <3>1, <4>1 DEF RemoteTurnIs, RemoteSentOnce,
          RemoteOutcomeOK, RemoteReplyOK, RemoteCancelOK, RemoteHostOK,
           RemoteTokensOK, RemoteBare, RemoteStoredOK, RemoteStreamOK, RemoteStored, RemoteComing, Remote!None, RemoteEarly, RemoteBefore
    <3>2. CASE m.kind = "cancel"
      <4>1. remote_hub[t].cancel BY <2>3, <2>5, <3>2 DEF RemoteTurnIs, RemoteCancelOK
      <4>2. /\ remote_host'[t].pc = remote_host[t].pc /\ remote_host'[t].resume = remote_host[t].resume /\ remote_host'[t].stored = remote_host[t].stored
            /\ RemoteOf(out', t)["execute"] = RemoteOf(out, t)["execute"] /\ RemoteOf(out', t)["ack"] = RemoteOf(out, t)["ack"]
        BY <2>5, <2>7, <3>2
      <4>3. RemoteCancelOK(t)'
        <5>1. remote_host'[t].result = "cancelled" => remote_host'[t].cancel
          <6>1. remote_host' = [remote_host EXCEPT ![t].cancel = @ \/ remote_host[t].pc # "sent"]
            BY <1>2, <2>2, <3>2 DEF Remote!Receive
          <6>2. remote_host[t].cancel => remote_host'[t].cancel
            BY <1>1, <2>3, <6>1 DEF RemoteTyped, RemoteAnyHost
          <6> QED BY <2>3, <2>7, <6>2 DEF RemoteTurnIs, RemoteCancelOK
        <5> QED BY <1>3, <4>1, <5>1 DEF RemoteCancelOK
      <4>4. RemoteStreamOK(t)'
        BY <1>3, <2>3, <2>4, <2>7, <4>2 DEF RemoteTurnIs, RemoteStreamOK, RemoteStored, RemoteComing
      <4>5. RemoteTokensOK(t)' /\ RemoteStoredOK(t)' /\ RemoteHostOK(t)'
        BY <1>3, <2>3, <2>4, <2>7, <4>2 DEF RemoteTurnIs, RemoteTokensOK, RemoteBare, RemoteStoredOK,
             RemoteHostOK
      <4>6. RemoteSentOnce(t)' /\ RemoteOutcomeOK(t)' /\ RemoteReplyOK(t)'
        BY <1>3, <2>3, <2>4, <2>7, <4>2 DEF RemoteTurnIs, RemoteSentOnce, RemoteOutcomeOK, RemoteReplyOK
      <4> QED BY <4>3, <4>4, <4>5, <4>6 DEF RemoteTurnIs
    <3>3. CASE m.kind = "ack"
      <4>1. RemoteOf(out, t)["ack"] > 0  BY <2>5, <3>3
      <4>2. /\ remote_host'[t].resume = remote_host[t].resume /\ remote_host'[t].stored = remote_host[t].stored
            /\ remote_host'[t].cancel = remote_host[t].cancel
            /\ RemoteOf(out', t)["execute"] = RemoteOf(out, t)["execute"] /\ RemoteOf(out', t)["cancel"] = RemoteOf(out, t)["cancel"]
            /\ remote_host'[t].session = remote_host[t].session /\ remote_host'[t].result = remote_host[t].result
            /\ remote_host'[t].emitted = remote_host[t].emitted /\ remote_host'[t].prompted = remote_host[t].prompted
        BY <2>5, <2>7, <3>3
      <4>3. \/ remote_host[t].pc = "binding" /\ remote_host'[t].pc \in {"contextual", "ready"}
            \/ remote_host[t].pc = "dispatching" /\ remote_host'[t].pc = "ready"
            \/ remote_host[t].pc \notin {"binding", "dispatching"} /\ remote_host'[t].pc = remote_host[t].pc
        BY <2>7, <3>3
      <4>4. RemoteStreamOK(t)'
        BY <1>3, <2>3, <2>4, <4>2, <4>3 DEF RemoteTurnIs, RemoteStreamOK, RemoteStored, RemoteComing
      <4>5. RemoteTokensOK(t)'
        <5>1. remote_host[t].pc \notin RemoteEarly /\ remote_host[t].session = t
          BY <2>3, <4>1 DEF RemoteTurnIs, RemoteTokensOK, RemoteBare
        <5>2. remote_host'[t].pc \notin RemoteEarly BY <4>3, <5>1 DEF RemoteEarly
        <5> QED BY <1>3, <2>3, <2>4, <4>2, <4>3, <5>1, <5>2 DEF RemoteTurnIs, RemoteTokensOK
      <4>6. RemoteStoredOK(t)'
        BY <1>3, <2>3, <4>1, <4>2, <4>3 DEF RemoteTurnIs, RemoteStoredOK, RemoteHostOK
      <4>7. RemoteHostOK(t)'
        <5>1. remote_host[t].pc = "binding" => remote_host[t].session = t
          BY <2>3 DEF RemoteTurnIs, RemoteHostOK
        <5>2. t # Remote!None BY RemoteConstant
        <5> QED BY <2>3, <4>2, <4>3, <5>1, <5>2 DEF RemoteTurnIs, RemoteHostOK, RemoteBefore, RemoteEarly
      <4>8. RemoteSentOnce(t)' /\ RemoteOutcomeOK(t)' /\ RemoteReplyOK(t)' /\ RemoteCancelOK(t)'
        BY <1>3, <2>3, <2>4, <2>5, <3>3, <4>2, <4>3 DEF RemoteTurnIs, RemoteSentOnce, RemoteOutcomeOK,
             RemoteReplyOK, RemoteCancelOK
      <4> QED BY <4>4, <4>5, <4>6, <4>7, <4>8 DEF RemoteTurnIs
    <3> QED BY <2>4, <3>1, <3>2, <3>3
  <2>9. RemoteTyped' BY <1>1, <1>3, <1>4, <2>4, <2>7 DEF RemoteTyped
  <2>10. RemoteElsewhere(t) BY <1>3, <1>4, <2>2, <2>4, <2>7 DEF RemoteElsewhere
  <2>11. /\ remote_host[t].pc \notin RemoteEarly => remote_host'[t].pc \notin RemoteEarly
         /\ remote_host'[t].pc \in Remote!Working \cup {"ended"} => remote_host[t].pc \in Remote!Working \cup {"ended"}
    <3>1. m.kind = "execute" => remote_host[t].pc = "idle"
      BY <2>3, <2>5 DEF RemoteTurnIs, RemoteSentOnce, RemoteAnyHost
    <3> QED BY <2>4, <2>7, <3>1 DEF RemoteEarly, Remote!Working
  <2> QED BY <1>3, <2>6, <2>7, <2>8, <2>9, <2>10, <2>11, RemoteHostStays
<1> QED BY <1>5, <1>6


\* The thread ends, or goes on where it waited for nothing of the link.
LEMMA RemoteHostAloneKeeps ==
  ASSUME Remote!RemoteAssumption, RemoteIInv, NEW t \in Turns,
         Remote!RefuseTurn(t) \/ Remote!AckTimeout(t) \/ Remote!PromptEnds(t) \/ Remote!ObservesCancellation(t) \/ Remote!JoinForwarder(t) \/ Remote!Prompt(t)
  PROVE  RemoteIInv'
<1>1. RemoteTyped /\ RemoteTurnIs(t) /\ RemoteOrdered /\ remote_host[t] \in RemoteAnyHost
  BY DEF RemoteIInv, RemoteTyped
<1>2. UNCHANGED <<remote_hub, effect, binding, saved, incoming, reply, out, back, link, callback,
                  events, hostContext, controls>>
  BY DEF Remote!RefuseTurn, Remote!AckTimeout, Remote!PromptEnds, Remote!ObservesCancellation,
       Remote!JoinForwarder, Remote!Prompt, Remote!hubVars
<1>3. /\ remote_host' \in [Turns -> RemoteAnyHost] /\ \A u \in Turns \ {t} : remote_host'[u] = remote_host[u]
      /\ remote_host'[t].session = remote_host[t].session
      /\ remote_host'[t].context = remote_host[t].context /\ remote_host'[t].resume = remote_host[t].resume /\ remote_host'[t].stored = remote_host[t].stored
      /\ remote_host'[t].cancel = remote_host[t].cancel /\ remote_host'[t].emitted = remote_host[t].emitted
      /\ \/ /\ remote_host[t].pc = "accepted" /\ remote_host'[t].pc = "joined" /\ remote_host'[t].result = "failed"
            /\ remote_host'[t].prompted = remote_host[t].prompted
         \/ /\ remote_host[t].pc \in {"binding", "dispatching"} /\ remote_host'[t].pc = "ended" /\ remote_host'[t].result = "failed"
            /\ remote_host'[t].prompted = remote_host[t].prompted
         \/ /\ remote_host[t].pc = "prompted" /\ remote_host'[t].pc = "ended"
            /\ remote_host'[t].result \in {"answered", "failed", "uncertain"}
            /\ remote_host'[t].result = "uncertain" => remote_Uncertain
            /\ remote_host'[t].prompted = remote_host[t].prompted
         \/ /\ remote_host[t].pc \in Remote!Working /\ remote_host[t].cancel /\ remote_host'[t].pc = "ended" /\ remote_host'[t].result = "cancelled"
            /\ remote_host'[t].prompted = remote_host[t].prompted
         \/ /\ remote_host[t].pc = "ended" /\ callback[t] = <<>> /\ remote_host'[t].pc = "joined"
            /\ remote_host'[t].result = remote_host[t].result /\ remote_host'[t].prompted = remote_host[t].prompted
         \/ /\ remote_host[t].pc = "ready" /\ remote_host'[t].pc = "prompted" /\ remote_host'[t].result = remote_host[t].result
            /\ remote_host'[t].prompted
  <2>1. CASE Remote!RefuseTurn(t)
    <3> DEFINE k == [remote_host[t] EXCEPT !.pc = "joined", !.result = "failed"]
    <3>1. remote_host[t].pc = "accepted" /\ remote_host' = [remote_host EXCEPT ![t] = k]
      BY <1>1, <2>1 DEF Remote!RefuseTurn
    <3>2. k \in RemoteAnyHost BY <1>1, <3>1 DEF RemoteAnyHost, RemoteResults, Remote!Working
    <3> QED BY <1>1, <3>1, <3>2 DEF RemoteTyped, RemoteAnyHost, Remote!Working
  <2>2. CASE Remote!AckTimeout(t)
    <3> DEFINE k == [remote_host[t] EXCEPT !.pc = "ended", !.result = "failed"]
    <3>1. remote_host[t].pc \in {"binding", "dispatching"} /\ remote_host' = [remote_host EXCEPT ![t] = k]
      BY <1>1, <2>2 DEF Remote!AckTimeout, Remote!EndsWith
    <3>2. k \in RemoteAnyHost BY <1>1, <3>1 DEF RemoteAnyHost, RemoteResults, Remote!Working
    <3> QED BY <1>1, <3>1, <3>2 DEF RemoteTyped, RemoteAnyHost, Remote!Working
  <2>3. CASE Remote!PromptEnds(t)
    <3>1. PICK r \in {"answered", "failed", "uncertain"} :
            /\ r = "uncertain" => remote_Uncertain
            /\ remote_host' = [remote_host EXCEPT ![t].pc = "ended", ![t].result = r]
      BY <2>3 DEF Remote!PromptEnds, Remote!EndsWith
    <3> DEFINE k == [remote_host[t] EXCEPT !.pc = "ended", !.result = r]
    <3>2. remote_host[t].pc = "prompted" /\ remote_host' = [remote_host EXCEPT ![t] = k]
      BY <2>3, <3>1 DEF Remote!PromptEnds
    <3>3. k \in RemoteAnyHost BY <1>1, <3>1 DEF RemoteAnyHost, RemoteResults
    <3>4. remote_host' \in [Turns -> RemoteAnyHost] /\ \A u \in Turns \ {t} : remote_host'[u] = remote_host[u]
      BY <1>1, <3>2, <3>3 DEF RemoteTyped
    <3>5. remote_host'[t] = k BY <1>1, <3>2 DEF RemoteTyped
    <3>6. /\ k.session = remote_host[t].session /\ k.context = remote_host[t].context /\ k.resume = remote_host[t].resume
          /\ k.stored = remote_host[t].stored /\ k.cancel = remote_host[t].cancel /\ k.emitted = remote_host[t].emitted
          /\ k.pc = "ended" /\ k.result = r /\ k.prompted = remote_host[t].prompted
      BY <1>1 DEF RemoteAnyHost
    <3> HIDE DEF k
    <3> QED BY <3>1, <3>2, <3>4, <3>5, <3>6
  <2>4. CASE Remote!ObservesCancellation(t)
    <3> DEFINE k == [remote_host[t] EXCEPT !.pc = "ended", !.result = "cancelled"]
    <3>1. remote_host[t].pc \in Remote!Working /\ remote_host[t].cancel /\ remote_host' = [remote_host EXCEPT ![t] = k]
      BY <1>1, <2>4 DEF Remote!ObservesCancellation, Remote!EndsWith
    <3>2. k \in RemoteAnyHost BY <1>1, <3>1 DEF RemoteAnyHost, RemoteResults, Remote!Working
    <3> QED BY <1>1, <3>1, <3>2 DEF RemoteTyped, RemoteAnyHost, Remote!Working
  <2>5. CASE Remote!JoinForwarder(t)
    <3> DEFINE k == [remote_host[t] EXCEPT !.pc = "joined"]
    <3>1. remote_host[t].pc = "ended" /\ callback[t] = <<>> /\ remote_host' = [remote_host EXCEPT ![t] = k]
      BY <1>1, <2>5 DEF Remote!JoinForwarder
    <3>2. k \in RemoteAnyHost BY <1>1, <3>1 DEF RemoteAnyHost, RemoteResults, Remote!Working
    <3> QED BY <1>1, <3>1, <3>2 DEF RemoteTyped, RemoteAnyHost, Remote!Working
  <2>6. CASE Remote!Prompt(t)
    <3> DEFINE k == [remote_host[t] EXCEPT !.pc = "prompted", !.prompted = TRUE]
    <3>1. remote_host[t].pc = "ready" /\ remote_host' = [remote_host EXCEPT ![t] = k]
      BY <1>1, <2>6 DEF Remote!Prompt
    <3>2. k \in RemoteAnyHost BY <1>1, <3>1 DEF RemoteAnyHost, RemoteResults, Remote!Working
    <3> QED BY <1>1, <3>1, <3>2 DEF RemoteTyped, RemoteAnyHost, Remote!Working
  <2> QED BY <2>1, <2>2, <2>3, <2>4, <2>5, <2>6
<1>4. /\ \A u \in Turns \ {t} : given'[u] = given[u]
      /\ given' = [u \in Turns |-> given'[u]]
      /\ FirstPrompt \/ given' = given
  <2>1. FirstPrompt \in BOOLEAN /\ given = [u \in Turns |-> given[u]]
    BY <1>1 DEF RemoteTyped, Remote!RemoteAssumption
  <2>2. CASE Remote!Prompt(t)
    <3>1. CASE remote_host[t].session = t /\ FirstPrompt
      <4>1. given' = [given EXCEPT ![t] = remote_host[t].context] BY <2>2, <3>1 DEF Remote!Prompt
      <4> QED BY <2>1, <3>1, <4>1
    <3>2. CASE ~(remote_host[t].session = t /\ FirstPrompt)
      <4>1. given' = given BY <2>2, <3>2 DEF Remote!Prompt
      <4> QED BY <2>1, <4>1
    <3> QED BY <3>1, <3>2
  <2>3. CASE ~Remote!Prompt(t)
    <3>1. given' = given BY <2>3 DEF Remote!RefuseTurn, Remote!AckTimeout, Remote!PromptEnds,
        Remote!ObservesCancellation, Remote!JoinForwarder
    <3> QED BY <2>1, <3>1
  <2> QED BY <2>2, <2>3
<1>5. RemoteTurnIs(t)'
  <2>1. /\ remote_host[t].pc \notin {"ended", "joined", "sent"} => remote_host[t].result = Remote!None
        /\ remote_host[t].pc # "sent" /\ remote_host'[t].pc # "idle" /\ remote_host[t].pc # "idle"
        /\ remote_host'[t].pc \notin RemoteEarly /\ remote_host'[t].pc \notin RemoteBefore
    BY <1>1, <1>3 DEF RemoteTurnIs, RemoteHostOK, Remote!Working, RemoteBefore, RemoteEarly
  <2>2. RemoteHostOK(t)'
    BY <1>1, <1>3, <2>1 DEF RemoteTurnIs, RemoteHostOK, RemoteBefore, RemoteEarly, Remote!None
  <2>3. RemoteSentOnce(t)' /\ RemoteOutcomeOK(t)' /\ RemoteCancelOK(t)'
    BY <1>1, <1>2, <1>3, <2>1 DEF RemoteTurnIs, RemoteSentOnce, RemoteOutcomeOK, RemoteCancelOK
  <2>4. RemoteReplyOK(t)' BY <1>1, <1>2, <2>1 DEF RemoteTurnIs, RemoteReplyOK
  <2>5. RemoteTokensOK(t)' BY <1>1, <1>2, <1>3, <2>1 DEF RemoteTurnIs, RemoteTokensOK, RemoteBare
  <2>6. RemoteStoredOK(t)' BY <1>1, <1>2, <1>3, <2>1 DEF RemoteTurnIs, RemoteStoredOK, Remote!None
  <2>7. RemoteStreamOK(t)'
    <3>1. remote_host'[t].pc = "joined" => RemoteOwn(callback[t])["event"] = 0
      <4>1. CASE remote_host[t].pc = "ended"  BY <1>3, <4>1, RemoteOwnEmpty DEF RemoteTokens
      <4>2. CASE remote_host[t].pc = "accepted"
        <5>1. remote_host[t].emitted = 0
          BY <1>1, <4>2 DEF RemoteTurnIs, RemoteHostOK, RemoteBefore, RemoteEarly
        <5>2. /\ saved[t] \in Nat /\ RemoteOwn(incoming[t])["event"] \in Nat /\ RemoteOf(back, t)["event"] \in Nat
              /\ RemoteOwn(events[t])["event"] \in Nat /\ RemoteOwn(callback[t])["event"] \in Nat
          BY <1>1, RemoteTypes DEF RemoteTokens, RemoteKinds
        <5>3. RemoteStored(t) + RemoteComing(t) <= 0 BY <1>1, <5>1 DEF RemoteTurnIs, RemoteStreamOK
        <5>4. RemoteStored(t) \in Nat BY <5>2 DEF RemoteStored
        <5>5. RemoteComing(t) <= 0 BY <5>2, <5>3, <5>4 DEF RemoteComing
        <5> QED BY <5>2, <5>5 DEF RemoteComing
      <4> QED BY <1>3, <4>1, <4>2
    <3>2. RemoteStored(t)' = RemoteStored(t) /\ RemoteComing(t)' = RemoteComing(t)
      BY <1>2 DEF RemoteStored, RemoteComing
    <3> QED BY <1>1, <1>2, <1>3, <2>1, <3>1, <3>2 DEF RemoteTurnIs, RemoteStreamOK
  <2> QED BY <2>2, <2>3, <2>4, <2>5, <2>6, <2>7 DEF RemoteTurnIs
<1>6. RemoteTyped' BY <1>1, <1>2, <1>3, <1>4 DEF RemoteTyped
<1>7. RemoteElsewhere(t) BY <1>2, <1>3, <1>4 DEF RemoteElsewhere
<1>8. RemoteOrdered' BY <1>1, <1>2 DEF RemoteOrdered
<1>9. /\ remote_host[t].pc \notin RemoteEarly => remote_host'[t].pc \notin RemoteEarly
      /\ remote_host'[t].pc \in Remote!Working \cup {"ended"} => remote_host[t].pc \in Remote!Working \cup {"ended"}
  BY <1>3 DEF RemoteEarly, Remote!Working
<1>10. FirstPrompt \/ given'[t] = given[t] BY <1>4
<1>11. /\ UNCHANGED <<link, remote_hub, binding>>
       /\ remote_host'[t].session = remote_host[t].session /\ remote_host'[t].context = remote_host[t].context
  BY <1>2, <1>3
<1> QED BY <1>5, <1>6, <1>7, <1>8, <1>9, <1>10, <1>11, RemoteHostStays


\* A permit is free, and the session is the stored one when its context is the Host's.
LEMMA RemoteLaunchTurnKeeps ==
  ASSUME Remote!RemoteAssumption, RemoteIInv, NEW t \in Turns, Remote!LaunchTurn(t)
  PROVE  RemoteIInv'
<1>1. RemoteTyped /\ RemoteTurnIs(t) /\ RemoteOrdered /\ RemoteSound /\ remote_host[t] \in RemoteAnyHost /\ remote_hub[t] \in RemoteAnyHub BY DEF RemoteIInv, RemoteTyped
<1>2. UNCHANGED <<remote_hub, effect, binding, saved, incoming, reply, out, back, link, callback,
                  events, given, hostContext, controls>>
  BY DEF Remote!LaunchTurn, Remote!hubVars
<1>3. PICK p, x :
        /\ remote_host[t].pc = "accepted"
        /\ remote_host' = [remote_host EXCEPT ![t].context = hostContext, ![t].pc = p, ![t].session = x]
        /\ \/ p = "ready" /\ x = remote_host[t].resume /\ x # Remote!None /\ remote_host[t].stored = hostContext
           \/ p = "new" /\ x = Remote!None
  BY DEF Remote!LaunchTurn
<1>4. /\ remote_host' \in [Turns -> RemoteAnyHost] /\ \A u \in Turns \ {t} : remote_host'[u] = remote_host[u]
      /\ remote_host'[t].pc = p /\ remote_host'[t].session = x /\ remote_host'[t].context = hostContext
      /\ remote_host'[t].result = remote_host[t].result /\ remote_host'[t].prompted = remote_host[t].prompted
      /\ remote_host'[t].resume = remote_host[t].resume /\ remote_host'[t].stored = remote_host[t].stored
      /\ remote_host'[t].cancel = remote_host[t].cancel /\ remote_host'[t].emitted = remote_host[t].emitted
  <2> DEFINE k == [remote_host[t] EXCEPT !.context = hostContext, !.pc = p, !.session = x]
  <2>1. k \in RemoteAnyHost BY <1>1, <1>3 DEF RemoteAnyHost, Remote!Working, RemoteTyped
  <2>2. remote_host' = [remote_host EXCEPT ![t] = k] BY <1>3
  <2>3. remote_host' \in [Turns -> RemoteAnyHost] /\ remote_host'[t] = k /\ \A u \in Turns \ {t} : remote_host'[u] = remote_host[u]
    BY <1>1, <2>1, <2>2 DEF RemoteTyped
  <2> QED BY <1>1, <2>3 DEF RemoteAnyHost
<1>5. /\ remote_host[t].resume = remote_hub[t].resume /\ remote_host[t].stored = remote_hub[t].stored /\ RemoteBare(t)
      /\ remote_hub[t].pc \notin {"idle", "send"} /\ remote_host[t].emitted = 0 /\ ~remote_host[t].prompted /\ remote_host[t].result = Remote!None
      /\ RemoteOf(out, t)["execute"] = 0
  BY <1>1, <1>3 DEF RemoteTurnIs, RemoteSentOnce, RemoteTokensOK, RemoteHostOK, RemoteEarly, RemoteBefore
<1>6. RemoteTurnIs(t)'
  <2>1. RemoteHostOK(t)' BY <1>3, <1>4, <1>5 DEF RemoteHostOK, RemoteBefore, RemoteEarly, Remote!None
  <2>2. RemoteBare(t)' BY <1>2, <1>5 DEF RemoteBare
  <2>3. RemoteTokensOK(t)' BY <1>3, <1>4, <2>2 DEF RemoteTokensOK
  <2>4. RemoteSentOnce(t)' /\ RemoteOutcomeOK(t)' /\ RemoteCancelOK(t)'
    BY <1>1, <1>2, <1>3, <1>4, <1>5 DEF RemoteTurnIs, RemoteSentOnce, RemoteOutcomeOK, RemoteCancelOK
  <2>5. RemoteReplyOK(t)' BY <1>1, <1>2, <1>3, <1>4 DEF RemoteTurnIs, RemoteReplyOK
  <2>6. RemoteStoredOK(t)' BY <1>1, <1>2, <1>3, <1>4, <1>5 DEF RemoteTurnIs, RemoteStoredOK, Remote!None
  <2>7. RemoteStreamOK(t)' BY <1>1, <1>2, <1>3, <1>4 DEF RemoteTurnIs, RemoteStreamOK, RemoteStored,
      RemoteComing
  <2> QED BY <2>1, <2>3, <2>4, <2>5, <2>6, <2>7 DEF RemoteTurnIs
<1>7. RemoteTyped' BY <1>1, <1>2, <1>4 DEF RemoteTyped
<1>8. RemoteElsewhere(t) BY <1>2, <1>4 DEF RemoteElsewhere
<1>9. RemoteOrdered' BY <1>1, <1>2 DEF RemoteOrdered
<1>10. RemoteSound'
  <2>1. \A u \in Turns : remote_host[u].pc \notin RemoteEarly => remote_host'[u].pc \notin RemoteEarly /\ given'[u] = given[u]
    BY <1>2, <1>3, <1>4 DEF RemoteEarly
  <2>2. x # Remote!None => RemoteMade(x, hostContext)
    BY <1>1, <1>3, <1>5 DEF RemoteSound
  <2>3. x # Remote!None => RemoteMade(x, hostContext)'
    <3>1. x # Remote!None => x \in Turns BY <1>1, <1>3 DEF RemoteAnyHost
    <3> QED BY <1>2, <2>1, <2>2, <3>1 DEF RemoteMade
  <2>4. \A u \in Turns :
            \/ remote_host'[u].session = remote_host[u].session /\ remote_host'[u].context = remote_host[u].context
            \/ remote_host'[u].session # Remote!None => RemoteMade(remote_host[u].session, remote_host[u].context)'
    BY <1>2, <1>4, <2>3 DEF RemoteMade
  <2> QED BY <1>1, <1>2, <2>1, <2>4, RemoteSoundKeeps
<1>11. RemotePermits'
  <2>1. Remote!Cardinality(Remote!Running) < AcpCapacity /\ AcpCapacity \in Nat /\ Remote!IsFiniteSet(Remote!Running)
    BY RemoteConstant DEF Remote!LaunchTurn, RemoteIInv, RemotePermits
  <2>2. Remote!Running' = Remote!Running \cup {t} /\ t \notin Remote!Running
    BY <1>3, <1>4 DEF Remote!Running, Remote!Working
  <2>3. Remote!IsFiniteSet(Remote!Running \cup {t}) /\ Remote!Cardinality(Remote!Running \cup {t}) = Remote!Cardinality(Remote!Running) + 1
    BY <2>1, <2>2, FS_AddElement, RemoteSets
  <2>4. Remote!Cardinality(Remote!Running) \in Nat BY <2>1, FS_CardinalityType, RemoteSets
  <2>5. Remote!IsFiniteSet(Remote!Running') /\ Remote!Cardinality(Remote!Running') = Remote!Cardinality(Remote!Running) + 1 BY <2>2, <2>3
  <2> QED BY <2>1, <2>4, <2>5 DEF RemotePermits
<1> QED BY <1>2, <1>6, <1>7, <1>8, <1>9, <1>10, <1>11, RemoteHostKeeps

\* The session is made, with the context the Turn was launched with, and the Hub is told.
LEMMA RemoteBindSessionKeeps ==
  ASSUME Remote!RemoteAssumption, RemoteIInv, NEW t \in Turns, Remote!BindSession(t)
  PROVE  RemoteIInv'
<1>1. RemoteTyped /\ RemoteTurnIs(t) /\ RemoteOrdered /\ RemoteSound /\ remote_host[t] \in RemoteAnyHost BY DEF RemoteIInv, RemoteTyped
<1>2. UNCHANGED <<remote_hub, effect, binding, saved, incoming, reply, out, back, link, events,
                  hostContext, controls>>
  BY DEF Remote!BindSession, Remote!hubVars
<1>3. /\ remote_host[t].pc = "new" /\ remote_host' = [remote_host EXCEPT ![t].pc = "binding", ![t].session = t]
      /\ given' = [given EXCEPT ![t] = IF FirstPrompt THEN Remote!None ELSE remote_host[t].context]
      /\ callback' = [callback EXCEPT ![t] = Append(@, "bound")] /\ Len(callback[t]) < Channel
  BY DEF Remote!BindSession, Remote!Room
<1>4. /\ remote_host' \in [Turns -> RemoteAnyHost] /\ \A u \in Turns \ {t} : remote_host'[u] = remote_host[u]
      /\ remote_host'[t].pc = "binding" /\ remote_host'[t].session = t /\ remote_host'[t].context = remote_host[t].context
      /\ remote_host'[t].result = remote_host[t].result /\ remote_host'[t].prompted = remote_host[t].prompted
      /\ remote_host'[t].resume = remote_host[t].resume /\ remote_host'[t].stored = remote_host[t].stored
      /\ remote_host'[t].cancel = remote_host[t].cancel /\ remote_host'[t].emitted = remote_host[t].emitted
  <2> DEFINE k == [remote_host[t] EXCEPT !.pc = "binding", !.session = t]
  <2>1. k \in RemoteAnyHost BY <1>1 DEF RemoteAnyHost, Remote!Working
  <2>2. remote_host' = [remote_host EXCEPT ![t] = k] BY <1>3
  <2>3. remote_host' \in [Turns -> RemoteAnyHost] /\ remote_host'[t] = k /\ \A u \in Turns \ {t} : remote_host'[u] = remote_host[u]
    BY <1>1, <2>1, <2>2 DEF RemoteTyped
  <2> QED BY <1>1, <2>3 DEF RemoteAnyHost
<1>5. /\ callback' \in [Turns -> Seq(RemoteTokens)] /\ \A u \in Turns \ {t} : callback'[u] = callback[u]
      /\ Len(callback'[t]) <= Channel
      /\ RemoteOwn(callback'[t])["event"] = RemoteOwn(callback[t])["event"]
      /\ RemoteOwn(callback'[t])["context"] = RemoteOwn(callback[t])["context"]
  <2>1. callback[t] \in Seq(RemoteTokens) /\ Channel \in Nat /\ "bound" \in RemoteTokens
    BY <1>1, RemoteConstant DEF RemoteTyped, RemoteTokens
  <2>2. callback' = [callback EXCEPT ![t] = Append(callback[t], "bound")]  BY <1>3
  <2>3. Append(callback[t], "bound") \in Seq(RemoteTokens) /\ Len(Append(callback[t], "bound")) <= Channel
    BY <1>3, <2>1
  <2>4. callback'[t] = Append(callback[t], "bound")  BY <1>1, <2>2 DEF RemoteTyped
  <2> QED BY <1>1, <2>1, <2>2, <2>3, <2>4, RemoteOwnAppend DEF RemoteTyped, RemoteTokens
<1>6. /\ given' = [u \in Turns |-> given'[u]] /\ \A u \in Turns \ {t} : given'[u] = given[u]
      /\ ~FirstPrompt => given'[t] = remote_host[t].context
  BY <1>1, <1>3 DEF RemoteTyped
<1>7. /\ RemoteBare(t) /\ remote_host[t].emitted = 0 /\ ~remote_host[t].prompted /\ remote_host[t].result = Remote!None
  BY <1>1, <1>3 DEF RemoteTurnIs, RemoteTokensOK, RemoteHostOK, RemoteEarly, RemoteBefore
<1>8. RemoteTurnIs(t)'
  <2>1. RemoteHostOK(t)' BY <1>4, <1>7 DEF RemoteHostOK, RemoteBefore, RemoteEarly, Remote!None
  <2>2. RemoteTokensOK(t)' BY <1>2, <1>4, <1>5, <1>7 DEF RemoteTokensOK, RemoteBare, RemoteEarly
  <2>3. RemoteSentOnce(t)' /\ RemoteOutcomeOK(t)' /\ RemoteCancelOK(t)'
    BY <1>1, <1>2, <1>3, <1>4 DEF RemoteTurnIs, RemoteSentOnce, RemoteOutcomeOK, RemoteCancelOK
  <2>4. RemoteReplyOK(t)' BY <1>1, <1>2, <1>3, <1>4 DEF RemoteTurnIs, RemoteReplyOK
  <2>5. RemoteStoredOK(t)' BY <1>1, <1>2, <1>4, <1>7 DEF RemoteStoredOK, RemoteBare, Remote!None
  <2>6. RemoteStreamOK(t)' BY <1>1, <1>2, <1>3, <1>4, <1>5 DEF RemoteTurnIs, RemoteStreamOK,
      RemoteStored, RemoteComing
  <2> QED BY <2>1, <2>2, <2>3, <2>4, <2>5, <2>6 DEF RemoteTurnIs
<1>9. RemoteTyped'
  <2>1. \A u \in Turns : Len(callback'[u]) <= Channel BY <1>1, <1>5 DEF RemoteTyped
  <2> QED BY <1>1, <1>2, <1>4, <1>5, <1>6, <2>1 DEF RemoteTyped
<1>10. RemoteElsewhere(t) BY <1>2, <1>4, <1>5, <1>6 DEF RemoteElsewhere
<1>11. RemoteOrdered' BY <1>1, <1>2 DEF RemoteOrdered
<1>12. RemoteSound'
  <2>1. \A u \in Turns : remote_host[u].pc \notin RemoteEarly =>
          remote_host'[u].pc \notin RemoteEarly /\ (FirstPrompt \/ given'[u] = given[u])
    BY <1>3, <1>4, <1>6 DEF RemoteEarly
  <2>2. RemoteMade(remote_host[t].session, remote_host[t].context)' BY <1>4, <1>6 DEF RemoteMade, RemoteEarly
  <2>3. \A u \in Turns :
            \/ remote_host'[u].session = remote_host[u].session /\ remote_host'[u].context = remote_host[u].context
            \/ remote_host'[u].session # Remote!None => RemoteMade(remote_host[u].session, remote_host[u].context)'
    BY <1>4, <2>2
  <2> QED BY <1>1, <1>2, <2>1, <2>3, RemoteSoundKeeps
<1>13. RemotePermits'
  <2>1. \A u \in Turns : remote_host'[u].pc \in Remote!Working \cup {"ended"} => remote_host[u].pc \in Remote!Working \cup {"ended"}
    BY <1>3, <1>4 DEF Remote!Working
  <2> QED BY <2>1, RemotePermitsKeep DEF RemoteIInv
<1> QED BY <1>2, <1>8, <1>9, <1>10, <1>11, <1>12, <1>13, RemoteHostKeeps

\* The context is to be dispatched, or the prompt has an event.
LEMMA RemoteEmitKeeps ==
  ASSUME Remote!RemoteAssumption, RemoteIInv, NEW t \in Turns, Remote!DispatchContext(t) \/ Remote!Emit(t)
  PROVE  RemoteIInv'
<1>1. RemoteTyped /\ RemoteTurnIs(t) /\ RemoteOrdered /\ remote_host[t] \in RemoteAnyHost
  BY DEF RemoteIInv, RemoteTyped
<1>2. UNCHANGED <<remote_hub, effect, binding, saved, incoming, reply, out, back, link, events, given,
                  hostContext, controls>>
  BY DEF Remote!DispatchContext, Remote!Emit, Remote!hubVars
<1>3. PICK y \in RemoteTokens :
        /\ callback' = [callback EXCEPT ![t] = Append(@, y)] /\ Len(callback[t]) < Channel
        /\ \/ y = "context" /\ Remote!DispatchContext(t)
           \/ y = "event" /\ Remote!Emit(t)
  BY DEF Remote!DispatchContext, Remote!Emit, Remote!Room, RemoteTokens
<1>4. /\ remote_host' \in [Turns -> RemoteAnyHost] /\ \A u \in Turns \ {t} : remote_host'[u] = remote_host[u]
      /\ remote_host'[t].session = remote_host[t].session /\ remote_host'[t].context = remote_host[t].context
      /\ remote_host'[t].result = remote_host[t].result /\ remote_host'[t].prompted = remote_host[t].prompted
      /\ remote_host'[t].resume = remote_host[t].resume /\ remote_host'[t].stored = remote_host[t].stored
      /\ remote_host'[t].cancel = remote_host[t].cancel
      /\ \/ /\ y = "context" /\ remote_host[t].pc = "contextual" /\ remote_host'[t].pc = "dispatching"
            /\ remote_host'[t].emitted = remote_host[t].emitted
         \/ /\ y = "event" /\ remote_host[t].pc = "prompted" /\ remote_host'[t].pc = "prompted"
            /\ remote_host'[t].emitted = remote_host[t].emitted + 1
  <2>1. CASE y = "context"
    <3> DEFINE k == [remote_host[t] EXCEPT !.pc = "dispatching"]
    <3>1. remote_host[t].pc = "contextual" /\ remote_host' = [remote_host EXCEPT ![t] = k]
      BY <1>3, <2>1 DEF Remote!DispatchContext
    <3>2. k \in RemoteAnyHost BY <1>1 DEF RemoteAnyHost, Remote!Working
    <3> QED BY <1>1, <2>1, <3>1, <3>2 DEF RemoteTyped, RemoteAnyHost
  <2>2. CASE y = "event"
    <3>1. PICK n : n = remote_host[t].emitted + 1 OBVIOUS
    <3> DEFINE k == [remote_host[t] EXCEPT !.emitted = n]
    <3>2. /\ remote_host[t].pc = "prompted" /\ remote_host[t].emitted < MaxEvents
          /\ remote_host' = [remote_host EXCEPT ![t] = k]
      BY <1>3, <2>2, <3>1 DEF Remote!Emit
    <3>3. n \in 0..MaxEvents
      <4>1. remote_host[t].emitted \in 0..MaxEvents /\ MaxEvents \in Nat
        BY <1>1, RemoteConstant DEF RemoteAnyHost
      <4> QED BY <3>1, <3>2, <4>1
    <3>4. k \in RemoteAnyHost BY <1>1, <3>3 DEF RemoteAnyHost
    <3>5. remote_host' \in [Turns -> RemoteAnyHost] /\ remote_host'[t] = k /\ \A u \in Turns \ {t} : remote_host'[u] = remote_host[u]
      BY <1>1, <3>2, <3>4 DEF RemoteTyped
    <3>6. /\ k.session = remote_host[t].session /\ k.context = remote_host[t].context /\ k.resume = remote_host[t].resume
          /\ k.stored = remote_host[t].stored /\ k.cancel = remote_host[t].cancel /\ k.emitted = n
          /\ k.pc = remote_host[t].pc /\ k.result = remote_host[t].result /\ k.prompted = remote_host[t].prompted
      BY <1>1 DEF RemoteAnyHost
    <3> HIDE DEF k
    <3> QED BY <2>2, <3>1, <3>2, <3>5, <3>6
  <2> QED BY <1>3, <2>1, <2>2
<1>5. /\ callback' \in [Turns -> Seq(RemoteTokens)] /\ \A u \in Turns \ {t} : callback'[u] = callback[u]
      /\ Len(callback'[t]) <= Channel
      /\ \A x \in RemoteTokens : RemoteOwn(callback'[t])[x] = IF x = y THEN RemoteOwn(callback[t])[x] + 1 ELSE RemoteOwn(callback[t])[x]
  <2>1. callback[t] \in Seq(RemoteTokens) /\ Channel \in Nat BY <1>1, RemoteConstant DEF RemoteTyped
  <2>2. callback' = [callback EXCEPT ![t] = Append(callback[t], y)] BY <1>3
  <2>3. Append(callback[t], y) \in Seq(RemoteTokens) /\ Len(Append(callback[t], y)) <= Channel
    BY <1>3, <2>1
  <2>4. callback'[t] = Append(callback[t], y) BY <1>1, <2>2 DEF RemoteTyped
  <2> QED BY <1>1, <2>1, <2>2, <2>3, <2>4, RemoteOwnAppend DEF RemoteTyped
<1>6. RemoteTurnIs(t)'
  <2>1. RemoteHostOK(t)' BY <1>1, <1>4 DEF RemoteTurnIs, RemoteHostOK, RemoteBefore, RemoteEarly, Remote!None
  <2>2. RemoteTokensOK(t)'
    <3>1. remote_host[t].pc \notin RemoteEarly /\ remote_host'[t].pc \notin RemoteEarly /\ remote_host'[t].pc \notin {"binding", "contextual"}
      BY <1>4 DEF RemoteEarly
    <3>2. CASE remote_host[t].session = t BY <1>4, <3>1, <3>2 DEF RemoteTokensOK
    <3>3. CASE remote_host[t].session # t
      <4>1. RemoteBare(t) BY <1>1, <3>3 DEF RemoteTurnIs, RemoteTokensOK
      <4>2. y = "event"  BY <1>1, <1>4, <3>3 DEF RemoteTurnIs, RemoteHostOK
      <4>3. \A x \in {"bound", "context"} : RemoteOwn(callback'[t])[x] = 0
        BY <1>5, <4>1, <4>2 DEF RemoteBare, RemoteTokens
      <4>4. RemoteBare(t)' BY <1>2, <4>1, <4>3 DEF RemoteBare
      <4> QED BY <3>1, <4>4 DEF RemoteTokensOK
    <3> QED BY <3>2, <3>3
  <2>3. RemoteSentOnce(t)' /\ RemoteOutcomeOK(t)' /\ RemoteCancelOK(t)'
    BY <1>1, <1>2, <1>4 DEF RemoteTurnIs, RemoteSentOnce, RemoteOutcomeOK, RemoteCancelOK
  <2>4. RemoteReplyOK(t)' BY <1>1, <1>2, <1>4 DEF RemoteTurnIs, RemoteReplyOK
  <2>5. RemoteStoredOK(t)' BY <1>1, <1>2, <1>4 DEF RemoteTurnIs, RemoteStoredOK
  <2>6. RemoteStreamOK(t)'
    <3>1. /\ saved[t] \in Nat /\ RemoteOwn(incoming[t])["event"] \in Nat /\ RemoteOf(back, t)["event"] \in Nat
          /\ RemoteOwn(events[t])["event"] \in Nat /\ RemoteOwn(callback[t])["event"] \in Nat
      BY <1>1, RemoteTypes DEF RemoteTokens, RemoteKinds
    <3>2. RemoteStored(t)' = RemoteStored(t) /\ RemoteStored(t) \in Nat BY <1>2, <3>1 DEF RemoteStored
    <3>3. CASE y = "context"
      <4>1. RemoteOwn(callback'[t])["event"] = RemoteOwn(callback[t])["event"]  BY <1>5, <3>3 DEF RemoteTokens
      <4> QED BY <1>1, <1>2, <1>4, <3>3, <4>1 DEF RemoteTurnIs, RemoteStreamOK, RemoteStored, RemoteComing
    <3>4. CASE y = "event"
      <4>1. RemoteOwn(callback'[t])["event"] = RemoteOwn(callback[t])["event"] + 1
        BY <1>5, <3>4 DEF RemoteTokens
      <4>2. RemoteComing(t)' = RemoteComing(t) + 1 /\ RemoteComing(t) \in Nat
        <5>1. UNCHANGED <<back, events[t]>> BY <1>2
        <5> QED BY <3>1, <4>1, <5>1 DEF RemoteComing
      <4>3. reply[t] # "answered"
        BY <1>1, <1>4, <3>4 DEF RemoteTurnIs, RemoteReplyOK, RemoteResults
      <4>4. remote_host[t].emitted \in Nat
        <5>1. remote_host[t].emitted \in 0..MaxEvents /\ MaxEvents \in Nat
          BY <1>1, RemoteConstant DEF RemoteAnyHost
        <5> QED BY <5>1
      <4>5. remote_hub[t].outcome # "answered"  BY <1>1, <4>3 DEF RemoteTurnIs, RemoteReplyOK
      <4>6. remote_host'[t].emitted = remote_host[t].emitted + 1 /\ remote_host'[t].pc = "prompted"
        BY <1>4, <3>4
      <4> QED BY <1>1, <1>2, <3>2, <4>2, <4>3, <4>4, <4>5, <4>6 DEF RemoteTurnIs, RemoteStreamOK
    <3> QED BY <1>3, <3>3, <3>4
  <2> QED BY <2>1, <2>2, <2>3, <2>4, <2>5, <2>6 DEF RemoteTurnIs
<1>7. RemoteTyped'
  <2>1. \A u \in Turns : Len(callback'[u]) <= Channel BY <1>1, <1>5 DEF RemoteTyped
  <2> QED BY <1>1, <1>2, <1>4, <1>5, <2>1 DEF RemoteTyped
<1>8. RemoteElsewhere(t) BY <1>2, <1>4, <1>5 DEF RemoteElsewhere
<1>9. RemoteOrdered' BY <1>1, <1>2 DEF RemoteOrdered
<1>10. /\ remote_host[t].pc \notin RemoteEarly => remote_host'[t].pc \notin RemoteEarly
       /\ remote_host'[t].pc \in Remote!Working \cup {"ended"} => remote_host[t].pc \in Remote!Working \cup {"ended"}
  BY <1>4 DEF RemoteEarly, Remote!Working
<1>11. /\ UNCHANGED <<link, remote_hub, binding>> /\ given'[t] = given[t]
       /\ remote_host'[t].session = remote_host[t].session /\ remote_host'[t].context = remote_host[t].context
  BY <1>2, <1>4
<1> QED BY <1>6, <1>7, <1>8, <1>9, <1>10, <1>11, RemoteHostStays


\* The forwarding thread moves an event on.
LEMMA RemoteForwardEventKeeps ==
  ASSUME Remote!RemoteAssumption, RemoteIInv, NEW t \in Turns, Remote!ForwardEvent(t)
  PROVE  RemoteIInv'
<1>1. RemoteTyped /\ RemoteTurnIs(t) /\ RemoteOrdered BY DEF RemoteIInv
<1>2. UNCHANGED <<remote_hub, effect, binding, saved, incoming, reply, out, back, link, remote_host,
                  given, hostContext, controls>>
  BY DEF Remote!ForwardEvent, Remote!hubVars
<1>3. PICK y : y = Head(callback[t]) OBVIOUS
<1>4. /\ callback[t] # <<>> /\ Len(events[t]) < Channel
      /\ events' = [events EXCEPT ![t] = Append(events[t], y)] /\ callback' = [callback EXCEPT ![t] = Tail(callback[t])]
  BY <1>3 DEF Remote!ForwardEvent, Remote!Room
<1>5. callback[t] \in Seq(RemoteTokens) /\ events[t] \in Seq(RemoteTokens) /\ Len(callback[t]) <= Channel /\ Channel \in Nat
  BY <1>1, RemoteConstant DEF RemoteTyped
<1>6. /\ y \in RemoteTokens /\ callback' \in [Turns -> Seq(RemoteTokens)] /\ \A u \in Turns \ {t} : callback'[u] = callback[u]
      /\ Len(callback'[t]) <= Channel
      /\ \A x \in RemoteTokens : RemoteOwn(callback[t])[x] = IF x = y THEN RemoteOwn(callback'[t])[x] + 1 ELSE RemoteOwn(callback'[t])[x]
  <2>1. /\ y \in RemoteTokens /\ Tail(callback[t]) \in Seq(RemoteTokens) /\ Len(Tail(callback[t])) <= Len(callback[t])
        /\ \A x \in RemoteTokens : RemoteOwn(callback[t])[x] = IF x = y THEN RemoteOwn(Tail(callback[t]))[x] + 1 ELSE RemoteOwn(Tail(callback[t]))[x]
    BY <1>3, <1>4, <1>5, RemoteOwnTail
  <2>2. callback'[t] = Tail(callback[t]) /\ \A u \in Turns \ {t} : callback'[u] = callback[u]
    BY <1>1, <1>4 DEF RemoteTyped
  <2>3. Len(Tail(callback[t])) <= Channel BY <1>5, <2>1
  <2> QED BY <1>1, <1>4, <2>1, <2>2, <2>3 DEF RemoteTyped
<1>7. /\ events' \in [Turns -> Seq(RemoteTokens)] /\ \A u \in Turns \ {t} : events'[u] = events[u]
      /\ Len(events'[t]) <= Channel
      /\ \A x \in RemoteTokens : RemoteOwn(events'[t])[x] = IF x = y THEN RemoteOwn(events[t])[x] + 1 ELSE RemoteOwn(events[t])[x]
  <2>1. Append(events[t], y) \in Seq(RemoteTokens) /\ Len(Append(events[t], y)) <= Channel
    BY <1>4, <1>5, <1>6
  <2>2. events'[t] = Append(events[t], y) /\ \A u \in Turns \ {t} : events'[u] = events[u]
    BY <1>1, <1>4 DEF RemoteTyped
  <2> QED BY <1>1, <1>4, <1>5, <1>6, <2>1, <2>2, RemoteOwnAppend DEF RemoteTyped
<1>8. \A x \in RemoteTokens : /\ RemoteOwn(callback[t])[x] \in Nat /\ RemoteOwn(callback'[t])[x] \in Nat /\ RemoteOwn(events[t])[x] \in Nat
                              /\ RemoteOwn(events'[t])[x] + RemoteOwn(callback'[t])[x] = RemoteOwn(events[t])[x] + RemoteOwn(callback[t])[x]
                              /\ RemoteOwn(events'[t])[x] \in Nat
                              /\ RemoteOwn(callback[t])[x] = 0 => RemoteOwn(callback'[t])[x] = 0 /\ RemoteOwn(events'[t])[x] = RemoteOwn(events[t])[x]
  <2>1. \A x \in RemoteTokens : /\ RemoteOwn(callback[t])[x] \in Nat /\ RemoteOwn(callback'[t])[x] \in Nat /\ RemoteOwn(events[t])[x] \in Nat
                                /\ RemoteOwn(events'[t])[x] \in Nat
    BY <1>5, <1>6, <1>7, RemoteCounts
  <2>2. \A x \in RemoteTokens : \/ x = y /\ RemoteOwn(callback[t])[x] = RemoteOwn(callback'[t])[x] + 1
                                   /\ RemoteOwn(events'[t])[x] = RemoteOwn(events[t])[x] + 1
                                \/ RemoteOwn(callback[t])[x] = RemoteOwn(callback'[t])[x] /\ RemoteOwn(events'[t])[x] = RemoteOwn(events[t])[x]
    BY <1>6, <1>7
  <2> QED BY <2>1, <2>2
<1>9. RemoteTurnIs(t)'
  <2>1. RemoteTokensOK(t)'
    <3>1. \A x \in {"bound", "context"} :
             RemoteOwn(callback[t])[x] = 0 /\ RemoteOwn(events[t])[x] = 0 => RemoteOwn(callback'[t])[x] = 0 /\ RemoteOwn(events'[t])[x] = 0
      BY <1>8 DEF RemoteTokens
    <3> QED BY <1>1, <1>2, <3>1 DEF RemoteTurnIs, RemoteTokensOK, RemoteBare
  <2>2. RemoteStreamOK(t)'
    <3>1. /\ RemoteOwn(callback[t])["event"] \in Nat /\ RemoteOwn(callback'[t])["event"] \in Nat /\ RemoteOwn(events[t])["event"] \in Nat
          /\ RemoteOwn(events'[t])["event"] \in Nat /\ RemoteOf(back, t)["event"] \in Nat
          /\ RemoteOwn(events'[t])["event"] + RemoteOwn(callback'[t])["event"] = RemoteOwn(events[t])["event"] + RemoteOwn(callback[t])["event"]
          /\ RemoteOwn(callback[t])["event"] = 0 => RemoteOwn(callback'[t])["event"] = 0
          /\ RemoteOwn(callback[t])["event"] = 0 => RemoteOwn(events'[t])["event"] = RemoteOwn(events[t])["event"]
      BY <1>1, <1>8, RemoteTypes DEF RemoteTokens, RemoteKinds
    <3>2. RemoteStored(t)' = RemoteStored(t) BY <1>2 DEF RemoteStored
    <3>3. RemoteComing(t)' = RemoteComing(t)
      <4>1. back' = back BY <1>2
      <4> QED BY <3>1, <4>1 DEF RemoteComing
    <3>4. remote_host[t].pc = "sent" => RemoteOwn(callback[t])["event"] = 0
      BY <1>1 DEF RemoteTurnIs, RemoteStreamOK
    <3> QED BY <1>1, <1>2, <3>1, <3>2, <3>3, <3>4 DEF RemoteTurnIs, RemoteStreamOK
  <2> QED BY <1>1, <1>2, <2>1, <2>2 DEF RemoteTurnIs, RemoteSentOnce, RemoteOutcomeOK, RemoteReplyOK,
      RemoteCancelOK, RemoteHostOK, RemoteStoredOK
<1>10. RemoteTyped'
  <2>1. \A u \in Turns : Len(callback'[u]) <= Channel /\ Len(events'[u]) <= Channel
    BY <1>1, <1>6, <1>7 DEF RemoteTyped
  <2> QED BY <1>1, <1>2, <1>6, <1>7, <2>1 DEF RemoteTyped
<1>11. RemoteElsewhere(t) BY <1>2, <1>6, <1>7 DEF RemoteElsewhere
<1>12. RemoteOrdered' BY <1>1, <1>2 DEF RemoteOrdered
<1> QED BY <1>2, <1>9, <1>10, <1>11, <1>12, RemoteHostStays

\* What a message put on the link for the Hub, or lost with it, does to the counts.
LEMMA RemoteSends ==
  ASSUME Remote!RemoteAssumption, RemoteTyped, NEW t \in Turns, NEW x \in RemoteKinds, link => Len(back) < Channel,
         back' = IF link THEN Append(back, Remote!Msg(x, t)) ELSE back
  PROVE  /\ back' \in Seq(RemoteAnyMsg) /\ Len(back') <= Channel
         /\ \A u \in Turns \ {t} : RemoteOf(back', u) = RemoteOf(back, u)
         /\ \A k \in RemoteKinds : RemoteOf(back', t)[k] = IF link /\ k = x THEN RemoteOf(back, t)[k] + 1 ELSE RemoteOf(back, t)[k]
<1>1. back \in Seq(RemoteAnyMsg) /\ Len(back) <= Channel /\ Channel \in Nat BY RemoteConstant DEF RemoteTyped
<1>2. Remote!Msg(x, t) \in RemoteAnyMsg /\ Remote!Msg(x, t).kind = x /\ Remote!Msg(x, t).turn = t
  BY RemoteMessages
<1>3. CASE link BY <1>1, <1>2, <1>3, RemoteOfAppend
<1>4. CASE ~link BY <1>1, <1>4
<1> QED BY <1>3, <1>4

\* The Host's loop sends an event of the Turn, which has not replied.
LEMMA RemoteRelayEventKeeps ==
  ASSUME Remote!RemoteAssumption, RemoteIInv, NEW t \in Turns, Remote!RelayEvent(t)
  PROVE  RemoteIInv'
<1>1. RemoteTyped /\ RemoteTurnIs(t) /\ RemoteOrdered BY DEF RemoteIInv
<1>2. UNCHANGED <<remote_hub, effect, binding, saved, incoming, reply, out, link, remote_host,
                  callback, given, hostContext, controls>>
  BY DEF Remote!RelayEvent, Remote!hubVars
<1>3. PICK y : y = Head(events[t]) OBVIOUS
<1>4. /\ events[t] # <<>> /\ (link => Len(back) < Channel)
      /\ back' = IF link THEN Append(back, Remote!Msg(y, t)) ELSE back
      /\ events' = [events EXCEPT ![t] = Tail(events[t])]
  BY <1>3 DEF Remote!RelayEvent, Remote!Room
<1>5. events[t] \in Seq(RemoteTokens) /\ Len(events[t]) <= Channel /\ Channel \in Nat
  BY <1>1, RemoteConstant DEF RemoteTyped
<1>6. /\ y \in RemoteTokens /\ events' \in [Turns -> Seq(RemoteTokens)] /\ \A u \in Turns \ {t} : events'[u] = events[u]
      /\ Len(events'[t]) <= Channel
      /\ \A x \in RemoteTokens : RemoteOwn(events[t])[x] = IF x = y THEN RemoteOwn(events'[t])[x] + 1 ELSE RemoteOwn(events'[t])[x]
  <2>1. /\ y \in RemoteTokens /\ Tail(events[t]) \in Seq(RemoteTokens) /\ Len(Tail(events[t])) <= Len(events[t])
        /\ \A x \in RemoteTokens : RemoteOwn(events[t])[x] = IF x = y THEN RemoteOwn(Tail(events[t]))[x] + 1 ELSE RemoteOwn(Tail(events[t]))[x]
    BY <1>3, <1>4, <1>5, RemoteOwnTail
  <2>2. events'[t] = Tail(events[t]) /\ \A u \in Turns \ {t} : events'[u] = events[u]
    BY <1>1, <1>4 DEF RemoteTyped
  <2>3. Len(Tail(events[t])) <= Channel BY <1>5, <2>1
  <2> QED BY <1>1, <1>4, <2>1, <2>2, <2>3 DEF RemoteTyped
<1>7. y \in RemoteKinds /\ y \notin RemoteResults /\ RemoteTokens \subseteq RemoteKinds
  BY <1>6 DEF RemoteTokens, RemoteKinds, RemoteResults
<1>8. /\ back' \in Seq(RemoteAnyMsg) /\ Len(back') <= Channel
      /\ \A u \in Turns \ {t} : RemoteOf(back', u) = RemoteOf(back, u)
      /\ \A k \in RemoteKinds : RemoteOf(back', t)[k] = IF link /\ k = y THEN RemoteOf(back, t)[k] + 1 ELSE RemoteOf(back, t)[k]
  BY <1>1, <1>4, <1>7, RemoteSends
<1>9. /\ \A r \in RemoteResults : RemoteOf(back', t)[r] = RemoteOf(back, t)[r]
      /\ \A x \in RemoteTokens : /\ RemoteOwn(events[t])[x] \in Nat /\ RemoteOwn(events'[t])[x] \in Nat /\ RemoteOf(back, t)[x] \in Nat
                                 /\ RemoteOf(back', t)[x] \in Nat
                                 /\ RemoteOwn(events'[t])[x] + RemoteOf(back', t)[x] <= RemoteOwn(events[t])[x] + RemoteOf(back, t)[x]
                                 /\ link => RemoteOwn(events'[t])[x] + RemoteOf(back', t)[x] = RemoteOwn(events[t])[x] + RemoteOf(back, t)[x]
                                 /\ RemoteOwn(events[t])[x] = 0 => RemoteOwn(events'[t])[x] = 0 /\ RemoteOf(back', t)[x] = RemoteOf(back, t)[x]
  <2>1. RemoteResults \subseteq RemoteKinds BY DEF RemoteKinds
  <2>2. \A x \in RemoteTokens : RemoteOwn(events[t])[x] \in Nat /\ RemoteOwn(events'[t])[x] \in Nat /\ RemoteOf(back, t)[x] \in Nat
    BY <1>1, <1>5, <1>6, <1>7, RemoteTypes, RemoteCounts
  <2>3. \A x \in RemoteTokens : \/ x = y /\ RemoteOwn(events[t])[x] = RemoteOwn(events'[t])[x] + 1
                                   /\ RemoteOf(back', t)[x] = IF link THEN RemoteOf(back, t)[x] + 1 ELSE RemoteOf(back, t)[x]
                                \/ x # y /\ RemoteOwn(events[t])[x] = RemoteOwn(events'[t])[x] /\ RemoteOf(back', t)[x] = RemoteOf(back, t)[x]
    BY <1>6, <1>7, <1>8
  <2> QED BY <1>7, <1>8, <2>1, <2>2, <2>3
<1>10. RemoteOwn(events[t])["event"] = 0 \/ \A r \in RemoteResults : RemoteOf(back, t)[r] = 0
  <2>1. \A r \in RemoteResults : RemoteOf(back, t)[r] \in Nat BY <1>1, RemoteTypes DEF RemoteKinds
  <2> QED BY <1>1, <2>1 DEF RemoteTurnIs, RemoteStreamOK, RemoteReplyOK
<1>11. RemoteTurnIs(t)'
  <2>1. RemoteTokensOK(t)'
    <3>1. \A x \in {"bound", "context"} :
             RemoteOwn(events[t])[x] = 0 /\ RemoteOf(back, t)[x] = 0 => RemoteOwn(events'[t])[x] = 0 /\ RemoteOf(back', t)[x] = 0
      BY <1>9 DEF RemoteTokens
    <3> QED BY <1>1, <1>2, <3>1 DEF RemoteTurnIs, RemoteTokensOK, RemoteBare
  <2>2. RemoteStreamOK(t)'
    <3>1. /\ RemoteOwn(events[t])["event"] \in Nat /\ RemoteOwn(events'[t])["event"] \in Nat /\ RemoteOwn(callback[t])["event"] \in Nat
          /\ RemoteOf(back, t)["event"] \in Nat /\ RemoteOf(back', t)["event"] \in Nat
          /\ RemoteOwn(events'[t])["event"] + RemoteOf(back', t)["event"] <= RemoteOwn(events[t])["event"] + RemoteOf(back, t)["event"]
          /\ link => RemoteOwn(events'[t])["event"] + RemoteOf(back', t)["event"] = RemoteOwn(events[t])["event"] + RemoteOf(back, t)["event"]
          /\ RemoteOwn(events[t])["event"] = 0 => RemoteOwn(events'[t])["event"] = 0
          /\ RemoteOwn(events[t])["event"] = 0 => RemoteOf(back', t)["event"] = RemoteOf(back, t)["event"]
          /\ RemoteOwn(incoming[t])["event"] \in Nat /\ saved[t] \in Nat
      BY <1>1, <1>9, RemoteTypes DEF RemoteTokens
    <3>2. RemoteStored(t)' = RemoteStored(t) /\ RemoteStored(t) \in Nat
      <4>1. UNCHANGED <<saved, incoming>> BY <1>2
      <4> QED BY <3>1, <4>1 DEF RemoteStored
    <3>3. /\ RemoteComing(t) \in Nat /\ RemoteComing(t)' \in Nat /\ RemoteComing(t)' <= RemoteComing(t)
          /\ link \/ RemoteOwn(events[t])["event"] = 0 => RemoteComing(t)' = RemoteComing(t)
      <4>1. callback' = callback BY <1>2
      <4> QED BY <3>1, <4>1 DEF RemoteComing
    <3>4. remote_host[t].emitted \in Nat
      <4>1. remote_host[t].emitted \in 0..MaxEvents /\ MaxEvents \in Nat
        BY <1>1, RemoteTypes, RemoteConstant DEF RemoteAnyHost
      <4> QED BY <4>1
    <3>5. RemoteStored(t)' + RemoteComing(t)' <= remote_host'[t].emitted
      BY <1>1, <1>2, <3>2, <3>3, <3>4 DEF RemoteTurnIs, RemoteStreamOK
    <3>6. remote_hub[t].outcome = Remote!None /\ reply[t] = Remote!None /\ (link \/ \E r \in RemoteResults : RemoteOf(back', t)[r] > 0) =>
            RemoteStored(t)' + RemoteComing(t)' = remote_host[t].emitted
      <4>1. (\E r \in RemoteResults : RemoteOf(back', t)[r] > 0) => RemoteOwn(events[t])["event"] = 0
        BY <1>9, <1>10
      <4>2. (\E r \in RemoteResults : RemoteOf(back', t)[r] > 0) => \E r \in RemoteResults : RemoteOf(back, t)[r] > 0 BY <1>9
      <4> QED BY <1>1, <3>2, <3>3, <4>1, <4>2 DEF RemoteTurnIs, RemoteStreamOK
    <3>7. remote_host[t].pc = "sent" => RemoteOwn(events'[t])["event"] = 0
      BY <1>1, <3>1 DEF RemoteTurnIs, RemoteStreamOK
    <3> QED BY <1>1, <1>2, <3>2, <3>5, <3>6, <3>7 DEF RemoteTurnIs, RemoteStreamOK
  <2>3. RemoteReplyOK(t)'
    <3>1. "cancelled" \in RemoteResults  BY DEF RemoteResults
    <3> QED BY <1>1, <1>2, <1>9, <3>1 DEF RemoteTurnIs, RemoteReplyOK
  <2> QED BY <1>1, <1>2, <2>1, <2>2, <2>3 DEF RemoteTurnIs, RemoteSentOnce, RemoteOutcomeOK,
      RemoteCancelOK, RemoteHostOK, RemoteStoredOK
<1>12. RemoteOrdered'
  <2>1. CASE y # "event"
    <3>1. Remote!Msg(y, t) \in RemoteAnyMsg /\ Remote!Msg(y, t).kind = y BY <1>7, RemoteMessages
    <3> QED BY <1>1, <1>4, <2>1, <3>1, RemoteOrderKeeps DEF RemoteTyped
  <2>2. CASE y = "event" /\ link
    <3> SUFFICES ASSUME NEW i \in DOMAIN back', NEW j \in DOMAIN back', i < j,
                        back'[i].kind \in RemoteResults, back'[j].turn = back'[i].turn
                 PROVE  back'[j].kind # "event"
      BY DEF RemoteOrdered
    <3>1. back' = Append(back, Remote!Msg(y, t)) /\ back \in Seq(RemoteAnyMsg)
      BY <1>1, <1>4, <2>2 DEF RemoteTyped
    <3>2. /\ i \in DOMAIN back /\ back'[i] = back[i]
          /\ \/ j \in DOMAIN back /\ back'[j] = back[j]
             \/ back'[j] = Remote!Msg(y, t)
      BY <3>1
    <3>3. CASE j \in DOMAIN back /\ back'[j] = back[j] BY <1>1, <3>2, <3>3 DEF RemoteOrdered
    <3>4. CASE back'[j] = Remote!Msg(y, t)
      <4>1. back[i].turn = t /\ back[i].kind \in RemoteResults BY <1>7, <3>2, <3>4, RemoteMessages
      <4>2. back[i] \in RemoteAnyMsg /\ back[i].kind \in RemoteKinds BY <3>1, <3>2, <4>1 DEF RemoteKinds
      <4>3. back[i] = Remote!Msg(back[i].kind, t) BY <4>1, <4>2, RemoteMessages
      <4>4. RemoteN(back, Remote!Msg(back[i].kind, t)) > 0 BY <3>1, <3>2, <4>3, RemoteNIs
      <4>5. RemoteOf(back, t)[back[i].kind] > 0 BY <4>2, <4>4 DEF RemoteOf
      <4>6. RemoteOwn(events[t])["event"] > 0
        <5>1. "event" \in RemoteTokens  BY DEF RemoteTokens
        <5> QED BY <1>6, <1>9, <2>2, <5>1
      <4> QED BY <1>10, <4>1, <4>5, <4>6
    <3> QED BY <3>2, <3>3, <3>4
  <2>3. CASE ~link BY <1>1, <1>4, <2>3, RemoteOrderKeeps DEF RemoteTyped
  <2> QED BY <2>1, <2>2, <2>3
<1>13. RemoteTyped'
  <2>1. \A u \in Turns : Len(events'[u]) <= Channel BY <1>1, <1>6 DEF RemoteTyped
  <2> QED BY <1>1, <1>2, <1>6, <1>8, <2>1 DEF RemoteTyped
<1>14. RemoteElsewhere(t) BY <1>2, <1>6, <1>8 DEF RemoteElsewhere
<1> QED BY <1>2, <1>11, <1>12, <1>13, <1>14, RemoteHostStays

\* The result follows the events.
LEMMA RemoteSendResultKeeps ==
  ASSUME Remote!RemoteAssumption, RemoteIInv, NEW t \in Turns, Remote!SendResult(t)
  PROVE  RemoteIInv'
<1>1. RemoteTyped /\ RemoteTurnIs(t) /\ RemoteOrdered /\ remote_host[t] \in RemoteAnyHost
  BY DEF RemoteIInv, RemoteTyped
<1>2. UNCHANGED <<remote_hub, effect, binding, saved, incoming, reply, out, link, callback, events,
                  given, hostContext, controls>>
  BY DEF Remote!SendResult, Remote!hubVars
<1>3. PICK r : r = remote_host[t].result OBVIOUS
<1>4. /\ remote_host[t].pc = "joined" /\ events[t] = <<>> /\ (link => Len(back) < Channel)
      /\ back' = IF link THEN Append(back, Remote!Msg(r, t)) ELSE back
      /\ remote_host' = [remote_host EXCEPT ![t].pc = "sent"]
  BY <1>3 DEF Remote!SendResult, Remote!Room
<1>5. r \in RemoteResults /\ r \in RemoteKinds /\ RemoteResults \subseteq RemoteKinds /\ r # "event"
  <2>1. r # Remote!None /\ r \in RemoteResults \cup {Remote!None}
    BY <1>1, <1>3, <1>4 DEF RemoteTurnIs, RemoteHostOK, RemoteAnyHost
  <2> QED BY <2>1 DEF RemoteKinds, RemoteResults
<1>6. /\ back' \in Seq(RemoteAnyMsg) /\ Len(back') <= Channel
      /\ \A u \in Turns \ {t} : RemoteOf(back', u) = RemoteOf(back, u)
      /\ \A k \in RemoteKinds : RemoteOf(back', t)[k] = IF link /\ k = r THEN RemoteOf(back, t)[k] + 1 ELSE RemoteOf(back, t)[k]
  BY <1>1, <1>4, <1>5, RemoteSends
<1>7. /\ remote_host' \in [Turns -> RemoteAnyHost] /\ \A u \in Turns \ {t} : remote_host'[u] = remote_host[u]
      /\ remote_host'[t].pc = "sent" /\ remote_host'[t].session = remote_host[t].session /\ remote_host'[t].context = remote_host[t].context
      /\ remote_host'[t].result = remote_host[t].result /\ remote_host'[t].prompted = remote_host[t].prompted
      /\ remote_host'[t].resume = remote_host[t].resume /\ remote_host'[t].stored = remote_host[t].stored
      /\ remote_host'[t].cancel = remote_host[t].cancel /\ remote_host'[t].emitted = remote_host[t].emitted
  <2> DEFINE k == [remote_host[t] EXCEPT !.pc = "sent"]
  <2>1. k \in RemoteAnyHost BY <1>1 DEF RemoteAnyHost
  <2>2. remote_host' = [remote_host EXCEPT ![t] = k] BY <1>4
  <2> QED BY <1>1, <2>1, <2>2 DEF RemoteTyped, RemoteAnyHost
<1>8. /\ \A x \in RemoteTokens : RemoteOf(back', t)[x] = RemoteOf(back, t)[x]
      /\ \A x \in RemoteResults : RemoteOf(back, t)[x] \in Nat /\ (RemoteOf(back', t)[x] > 0 => (link /\ x = r) \/ RemoteOf(back, t)[x] > 0)
  <2>1. RemoteTokens \subseteq RemoteKinds /\ r \notin RemoteTokens
    BY <1>5 DEF RemoteTokens, RemoteKinds, RemoteResults
  <2>2. \A x \in RemoteKinds : RemoteOf(back, t)[x] \in Nat BY <1>1, RemoteTypes
  <2> QED BY <1>5, <1>6, <2>1, <2>2
<1>9. \A x \in RemoteResults : RemoteOf(back, t)[x] = 0 /\ reply[t] # x
  BY <1>1, <1>4, <1>8 DEF RemoteTurnIs, RemoteReplyOK
<1>10. RemoteTurnIs(t)'
  <2>1. RemoteHostOK(t)' BY <1>1, <1>4, <1>7 DEF RemoteTurnIs, RemoteHostOK, RemoteBefore, RemoteEarly
  <2>2. RemoteTokensOK(t)'
    <3>1. \A x \in {"bound", "context"} : RemoteOf(back', t)[x] = RemoteOf(back, t)[x]
      BY <1>8 DEF RemoteTokens
    <3> QED BY <1>1, <1>2, <1>4, <1>7, <3>1 DEF RemoteTurnIs, RemoteTokensOK, RemoteBare, RemoteEarly
  <2>3. RemoteSentOnce(t)' /\ RemoteOutcomeOK(t)' /\ RemoteCancelOK(t)'
    BY <1>1, <1>2, <1>4, <1>7 DEF RemoteTurnIs, RemoteSentOnce, RemoteOutcomeOK, RemoteCancelOK
  <2>4. RemoteReplyOK(t)'
    <3>1. \A x \in RemoteResults : RemoteOf(back', t)[x] > 0 => link /\ x = r BY <1>8, <1>9
    <3>2. \A x \in RemoteResults : reply'[t] # x BY <1>2, <1>9
    <3>3. RemoteOf(back', t)["cancelled"] > 0 \/ reply'[t] = "cancelled" => remote_hub'[t].cancel
      <4>1. "cancelled" \in RemoteResults  BY DEF RemoteResults
      <4>2. link /\ r = "cancelled" => remote_hub[t].cancel  BY <1>1, <1>3 DEF RemoteTurnIs, RemoteCancelOK
      <4> QED BY <1>2, <3>1, <3>2, <4>1, <4>2
    <3>4. remote_hub[t].outcome = "answered" => FALSE
      BY <1>1, <1>9 DEF RemoteTurnIs, RemoteReplyOK, RemoteResults
    <3>5. remote_hub[t].outcome = "failed" => FALSE
      BY <1>1, <1>4, <1>9 DEF RemoteTurnIs, RemoteReplyOK, RemoteResults
    <3> QED BY <1>2, <1>3, <1>7, <3>1, <3>2, <3>3, <3>4, <3>5 DEF RemoteReplyOK
  <2>5. RemoteStoredOK(t)' BY <1>1, <1>2, <1>4, <1>7 DEF RemoteTurnIs, RemoteStoredOK
  <2>6. RemoteStreamOK(t)'
    <3>1. RemoteOf(back', t)["event"] = RemoteOf(back, t)["event"] /\ RemoteOwn(events[t])["event"] = 0
      BY <1>4, <1>8, RemoteOwnEmpty DEF RemoteTokens
    <3>2. RemoteStored(t)' = RemoteStored(t) /\ RemoteComing(t)' = RemoteComing(t)
      BY <1>2, <3>1 DEF RemoteStored, RemoteComing
    <3>3. (\E x \in RemoteResults : RemoteOf(back', t)[x] > 0) => link BY <1>8, <1>9
    <3> QED BY <1>1, <1>2, <1>4, <1>7, <3>1, <3>2, <3>3 DEF RemoteTurnIs, RemoteStreamOK
  <2> QED BY <2>1, <2>2, <2>3, <2>4, <2>5, <2>6 DEF RemoteTurnIs
<1>11. RemoteTyped' BY <1>1, <1>2, <1>6, <1>7 DEF RemoteTyped
<1>12. RemoteElsewhere(t) BY <1>2, <1>6, <1>7 DEF RemoteElsewhere
<1>13. RemoteOrdered'
  <2>1. Remote!Msg(r, t) \in RemoteAnyMsg /\ Remote!Msg(r, t).kind = r BY <1>5, RemoteMessages
  <2>2. CASE link BY <1>1, <1>4, <1>5, <2>1, <2>2, RemoteOrderKeeps DEF RemoteTyped
  <2>3. CASE ~link BY <1>1, <1>4, <2>3, RemoteOrderKeeps DEF RemoteTyped
  <2> QED BY <2>2, <2>3
<1>14. /\ remote_host[t].pc \notin RemoteEarly => remote_host'[t].pc \notin RemoteEarly
       /\ remote_host'[t].pc \in Remote!Working \cup {"ended"} => remote_host[t].pc \in Remote!Working \cup {"ended"}
  BY <1>7 DEF RemoteEarly, Remote!Working
<1> QED BY <1>2, <1>7, <1>10, <1>11, <1>12, <1>13, <1>14, RemoteHostStays


\* The link is lost with the rest of both queues; a result that arrives has every event of its
\* Turn before it.
LEMMA RemoteLinkBreaksKeeps ==
  ASSUME Remote!RemoteAssumption, RemoteIInv, Remote!LinkBreaks
  PROVE  RemoteIInv'
<1>1. RemoteTyped /\ RemoteOrdered BY DEF RemoteIInv
<1>2. UNCHANGED <<remote_hub, effect, binding, saved, incoming, reply, callback, events, given,
                  hostContext, controls>>
  BY DEF Remote!LinkBreaks, Remote!hubVars
<1>3. out \in Seq(RemoteAnyMsg) /\ back \in Seq(RemoteAnyMsg) /\ Len(out) <= Channel /\ Len(back) <= Channel /\ Channel \in Nat
  BY <1>1, RemoteConstant DEF RemoteTyped
<1>4. PICK m \in 0..Len(out) : out' = SubSeq(out, 1, m) BY DEF Remote!LinkBreaks
<1>5. PICK n \in 0..Len(back) : back' = SubSeq(back, 1, n) BY DEF Remote!LinkBreaks
<1>6. /\ out' \in Seq(RemoteAnyMsg) /\ back' \in Seq(RemoteAnyMsg) /\ Len(out') <= Channel /\ Len(back') <= Channel
      /\ DOMAIN back' = 1..n /\ \A i \in 1..n : i \in DOMAIN back /\ back'[i] = back[i]
  BY <1>3, <1>4, <1>5
<1>7. ASSUME NEW u \in Turns, NEW x \in RemoteKinds
      PROVE  /\ RemoteOf(out', u)[x] \in Nat /\ RemoteOf(out, u)[x] \in Nat /\ RemoteOf(out', u)[x] <= RemoteOf(out, u)[x]
             /\ RemoteOf(back', u)[x] \in Nat /\ RemoteOf(back, u)[x] \in Nat /\ RemoteOf(back', u)[x] <= RemoteOf(back, u)[x]
  <2>1. RemoteN(out', Remote!Msg(x, u)) <= RemoteN(out, Remote!Msg(x, u)) /\ RemoteN(back', Remote!Msg(x, u)) <= RemoteN(back, Remote!Msg(x, u))
    BY <1>3, <1>4, <1>5, RemoteNPrefix
  <2> QED BY <1>3, <1>6, <2>1, RemoteCounts DEF RemoteOf
<1>8. ASSUME NEW u \in Turns, NEW r \in RemoteResults, RemoteOf(back', u)[r] > 0
      PROVE  RemoteOf(back', u)["event"] = RemoteOf(back, u)["event"]
  <2>1. r \in RemoteKinds /\ "event" \in RemoteKinds  BY DEF RemoteKinds
  <2>2. PICK i \in DOMAIN back' : back'[i] = Remote!Msg(r, u) BY <1>6, <1>8, <2>1, RemoteNIs DEF RemoteOf
  <2>3. i \in DOMAIN back /\ i \in 1..n /\ back[i].kind = r /\ back[i].turn = u
    BY <1>6, <2>1, <2>2, RemoteMessages
  <2>4. ASSUME NEW j \in (n + 1)..Len(back) PROVE back[j] # Remote!Msg("event", u)
    <3>1. j \in DOMAIN back /\ i < j BY <1>3, <2>3
    <3>2. back[j].turn = u => back[j].kind # "event"  BY <1>1, <2>3, <3>1 DEF RemoteOrdered
    <3> QED BY <2>1, <3>2, RemoteMessages
  <2>5. RemoteN(back', Remote!Msg("event", u)) = RemoteN(back, Remote!Msg("event", u))
    BY <1>3, <1>5, <2>4, RemoteNPrefix
  <2> QED BY <2>1, <2>5 DEF RemoteOf
<1>9. /\ link' = FALSE /\ remote_host' \in [Turns -> RemoteAnyHost]
      /\ \A u \in Turns : /\ remote_host'[u].pc = remote_host[u].pc /\ remote_host'[u].session = remote_host[u].session
                          /\ remote_host'[u].context = remote_host[u].context /\ remote_host'[u].result = remote_host[u].result
                          /\ remote_host'[u].prompted = remote_host[u].prompted /\ remote_host'[u].resume = remote_host[u].resume
                          /\ remote_host'[u].stored = remote_host[u].stored /\ remote_host'[u].emitted = remote_host[u].emitted
                          /\ remote_host[u].cancel => remote_host'[u].cancel
  <2>1. link' = FALSE /\ remote_host' = [u \in Turns |-> [remote_host[u] EXCEPT !.cancel = @ \/ remote_host[u].pc # "idle"]]
    BY DEF Remote!LinkBreaks
  <2>2. ASSUME NEW u \in Turns
        PROVE  /\ remote_host'[u] \in RemoteAnyHost
               /\ remote_host'[u].pc = remote_host[u].pc /\ remote_host'[u].session = remote_host[u].session
               /\ remote_host'[u].context = remote_host[u].context /\ remote_host'[u].result = remote_host[u].result
               /\ remote_host'[u].prompted = remote_host[u].prompted /\ remote_host'[u].resume = remote_host[u].resume
               /\ remote_host'[u].stored = remote_host[u].stored /\ remote_host'[u].emitted = remote_host[u].emitted
               /\ remote_host[u].cancel => remote_host'[u].cancel
    <3>1. remote_host[u] \in RemoteAnyHost BY <1>1 DEF RemoteTyped
    <3>2. PICK c \in BOOLEAN : c = (remote_host[u].cancel \/ remote_host[u].pc # "idle")  OBVIOUS
    <3>3. remote_host'[u] = [remote_host[u] EXCEPT !.cancel = c] BY <2>1, <3>2
    <3> QED BY <3>1, <3>2, <3>3 DEF RemoteAnyHost
  <2>3. remote_host' = [u \in Turns |-> remote_host'[u]] BY <2>1
  <2> QED BY <2>1, <2>2, <2>3
<1>10. ASSUME NEW t \in Turns PROVE RemoteTurnIs(t)'
  <2>1. RemoteTurnIs(t) BY DEF RemoteIInv
  <2>2. /\ RemoteOf(out, t)["execute"] \in Nat /\ RemoteOf(out', t)["execute"] \in Nat
        /\ RemoteOf(out, t)["ack"] \in Nat /\ RemoteOf(out', t)["ack"] \in Nat
        /\ RemoteOf(out, t)["cancel"] \in Nat /\ RemoteOf(out', t)["cancel"] \in Nat
        /\ RemoteOf(out', t)["execute"] <= RemoteOf(out, t)["execute"] /\ RemoteOf(out', t)["ack"] <= RemoteOf(out, t)["ack"]
        /\ RemoteOf(out', t)["cancel"] <= RemoteOf(out, t)["cancel"]
        /\ RemoteOf(back, t)["bound"] = 0 => RemoteOf(back', t)["bound"] = 0
        /\ RemoteOf(back, t)["context"] = 0 => RemoteOf(back', t)["context"] = 0
        /\ RemoteOf(back, t)["event"] \in Nat /\ RemoteOf(back', t)["event"] \in Nat
        /\ RemoteOf(back', t)["event"] <= RemoteOf(back, t)["event"]
    BY <1>7 DEF RemoteKinds
  <2>3. ASSUME NEW r \in RemoteResults, RemoteOf(back', t)[r] > 0 PROVE RemoteOf(back, t)[r] > 0
    <3>1. r \in RemoteKinds BY DEF RemoteKinds
    <3>2. /\ RemoteOf(back', t)[r] \in Nat /\ RemoteOf(back, t)[r] \in Nat /\ RemoteOf(back', t)[r] <= RemoteOf(back, t)[r]
      BY <1>7, <3>1
    <3> QED BY <2>3, <3>2
  <2>4. RemoteHostOK(t)' BY <1>9, <2>1 DEF RemoteTurnIs, RemoteHostOK
  <2>5. RemoteSentOnce(t)' /\ RemoteOutcomeOK(t)'
    BY <1>2, <1>9, <2>1, <2>2 DEF RemoteTurnIs, RemoteSentOnce, RemoteOutcomeOK
  <2>6. RemoteCancelOK(t)' BY <1>2, <1>9, <2>1, <2>2 DEF RemoteTurnIs, RemoteCancelOK
  <2>7. RemoteReplyOK(t)'
    <3>1. "cancelled" \in RemoteResults  BY DEF RemoteResults
    <3>2. \A r \in RemoteResults : RemoteOf(back', t)[r] > 0 \/ reply'[t] = r => remote_host'[t].pc = "sent" /\ remote_host'[t].result = r
      BY <1>2, <1>9, <2>1, <2>3 DEF RemoteTurnIs, RemoteReplyOK
    <3>3. RemoteOf(back', t)["cancelled"] > 0 \/ reply'[t] = "cancelled" => remote_hub'[t].cancel
      BY <1>2, <2>1, <2>3, <3>1 DEF RemoteTurnIs, RemoteReplyOK
    <3>4. RemoteOf(out, t)["execute"] = 0 => RemoteOf(out', t)["execute"] = 0  BY <2>2
    <3> QED BY <1>2, <1>9, <2>1, <3>2, <3>3, <3>4 DEF RemoteTurnIs, RemoteReplyOK
  <2>8. RemoteTokensOK(t)'
    <3>1. RemoteOf(out, t)["ack"] = 0 => RemoteOf(out', t)["ack"] = 0  BY <2>2
    <3> QED BY <1>2, <1>9, <2>1, <2>2, <3>1 DEF RemoteTurnIs, RemoteTokensOK, RemoteBare
  <2>9. RemoteStoredOK(t)'
    <3>1. RemoteOf(out', t)["ack"] > 0 => RemoteOf(out, t)["ack"] > 0  BY <2>2
    <3> QED BY <1>2, <1>9, <2>1, <3>1 DEF RemoteTurnIs, RemoteStoredOK
  <2>10. RemoteStreamOK(t)'
    <3>1. /\ RemoteOwn(incoming[t])["event"] \in Nat /\ RemoteOwn(callback[t])["event"] \in Nat
          /\ RemoteOwn(events[t])["event"] \in Nat /\ saved[t] \in Nat
      BY <1>1, RemoteTypes DEF RemoteTokens
    <3>2. remote_host[t].emitted \in Nat
      <4>1. remote_host[t].emitted \in 0..MaxEvents /\ MaxEvents \in Nat
        BY <1>1, RemoteTypes, RemoteConstant DEF RemoteAnyHost
      <4> QED BY <4>1
    <3>3. UNCHANGED <<saved, incoming, callback, events, reply, remote_hub>> BY <1>2
    <3>4. RemoteStored(t)' = RemoteStored(t) /\ RemoteStored(t) \in Nat BY <3>1, <3>3 DEF RemoteStored
    <3>5. /\ RemoteComing(t)' <= RemoteComing(t) /\ RemoteComing(t) \in Nat /\ RemoteComing(t)' \in Nat
      <4>1. RemoteComing(t)' = RemoteOf(back', t)["event"] + RemoteOwn(events[t])["event"] + RemoteOwn(callback[t])["event"]
        BY <3>3 DEF RemoteComing
      <4>2. RemoteComing(t) = RemoteOf(back, t)["event"] + RemoteOwn(events[t])["event"] + RemoteOwn(callback[t])["event"]
        BY DEF RemoteComing
      <4>3. /\ RemoteOf(back, t)["event"] \in Nat /\ RemoteOf(back', t)["event"] \in Nat
            /\ RemoteOf(back', t)["event"] <= RemoteOf(back, t)["event"]
        BY <2>2
      <4> QED BY <3>1, <4>1, <4>2, <4>3
    <3>6. (\E r \in RemoteResults : RemoteOf(back', t)[r] > 0) => RemoteComing(t)' = RemoteComing(t)
      BY <1>8, <3>3 DEF RemoteComing
    <3>7. RemoteStored(t)' + RemoteComing(t)' <= remote_host'[t].emitted
      BY <1>9, <2>1, <3>2, <3>4, <3>5 DEF RemoteTurnIs, RemoteStreamOK
    <3>8. remote_hub[t].outcome = Remote!None /\ reply[t] = Remote!None /\ (\E r \in RemoteResults : RemoteOf(back', t)[r] > 0) =>
            RemoteStored(t)' + RemoteComing(t)' = remote_host'[t].emitted
      <4>1. (\E r \in RemoteResults : RemoteOf(back', t)[r] > 0) => \E r \in RemoteResults : RemoteOf(back, t)[r] > 0 BY <2>3
      <4> QED BY <1>9, <2>1, <3>4, <3>6, <4>1 DEF RemoteTurnIs, RemoteStreamOK
    <3> QED BY <1>9, <2>1, <3>3, <3>4, <3>7, <3>8 DEF RemoteTurnIs, RemoteStreamOK
  <2> QED BY <2>4, <2>5, <2>6, <2>7, <2>8, <2>9, <2>10 DEF RemoteTurnIs
<1>11. RemoteTyped' BY <1>1, <1>2, <1>6, <1>9 DEF RemoteTyped
<1>12. RemoteOrdered'
  <2> SUFFICES ASSUME NEW i \in DOMAIN back', NEW j \in DOMAIN back', i < j,
                      back'[i].kind \in RemoteResults, back'[j].turn = back'[i].turn
               PROVE  back'[j].kind # "event"
    BY DEF RemoteOrdered
  <2> QED BY <1>1, <1>6 DEF RemoteOrdered
<1>13. RemoteSound'
  <2>1. RemoteSound BY DEF RemoteIInv
  <2> QED BY <1>1, <1>2, <1>9, <2>1, RemoteSoundKeeps
<1>14. RemoteExclusive' /\ RemotePermits' BY <1>2, <1>9, RemotePermitsKeep DEF RemoteIInv, RemoteExclusive
<1> QED BY <1>10, <1>11, <1>12, <1>13, <1>14 DEF RemoteIInv

--------------------
(* The theorem.                                                            *)

LEMMA RemoteInitIs == Remote!RemoteAssumption /\ Remote!Init => RemoteIInv
<1> SUFFICES ASSUME Remote!RemoteAssumption, Remote!Init PROVE RemoteIInv OBVIOUS
<1>1. /\ <<>> \in Seq(RemoteTokens) /\ <<>> \in Seq(RemoteAnyMsg) /\ Len(<<>>) = 0
      /\ Channel \in Nat /\ MaxEvents \in Nat /\ AcpCapacity \in Nat /\ 0 \in 0..MaxEvents /\ 0 \in Remote!Contexts
  BY RemoteConstant DEF Remote!Contexts
<1>2. RemoteTyped
  <2>1. remote_hub \in [Turns -> RemoteAnyHub]
    <3>1. [pc |-> "idle", after |-> "loop", resume |-> Remote!None, stored |-> 0,
           cancel |-> FALSE, grace |-> FALSE, outcome |-> Remote!None] \in RemoteAnyHub
      BY <1>1 DEF RemoteAnyHub
    <3> QED BY <3>1 DEF Remote!Init
  <2>2. remote_host \in [Turns -> RemoteAnyHost]
    <3>1. [pc |-> "idle", resume |-> Remote!None, stored |-> 0, session |-> Remote!None, context |-> 0, cancel |-> FALSE,
           result |-> Remote!None, emitted |-> 0, prompted |-> FALSE] \in RemoteAnyHost
      BY <1>1 DEF RemoteAnyHost
    <3> QED BY <3>1 DEF Remote!Init
  <2>3. binding \in [Sessions -> RemoteAnyBinding]
    <3>1. [id |-> Remote!None, context |-> 0, dispatched |-> FALSE] \in RemoteAnyBinding
      BY <1>1 DEF RemoteAnyBinding
    <3> QED BY <3>1 DEF Remote!Init
  <2>4. /\ effect \in [Turns -> {Remote!None, "started", "succeeded", "failed", "uncertain"}]
        /\ saved \in [Turns -> Nat] /\ reply \in [Turns -> RemoteResults \cup {Remote!None, "disconnected"}]
    BY DEF Remote!Init
  <2>5. /\ incoming \in [Turns -> Seq(RemoteTokens)] /\ callback \in [Turns -> Seq(RemoteTokens)]
        /\ events \in [Turns -> Seq(RemoteTokens)] /\ out \in Seq(RemoteAnyMsg) /\ back \in Seq(RemoteAnyMsg)
    BY <1>1 DEF Remote!Init
  <2>6. /\ Len(out) <= Channel /\ Len(back) <= Channel
        /\ \A t \in Turns : Len(incoming[t]) <= Channel /\ Len(callback[t]) <= Channel /\ Len(events[t]) <= Channel
    BY <1>1 DEF Remote!Init
  <2>7. link \in BOOLEAN /\ given = [t \in Turns |-> given[t]] /\ hostContext \in Remote!Contexts /\ controls \subseteq Controls
    BY <1>1 DEF Remote!Init
  <2> QED BY <2>1, <2>2, <2>3, <2>4, <2>5, <2>6, <2>7 DEF RemoteTyped
<1>3. ASSUME NEW t \in Turns PROVE RemoteTurnIs(t)
  <2>1. /\ remote_hub[t].pc = "idle" /\ remote_hub[t].outcome = Remote!None /\ ~remote_hub[t].cancel /\ remote_hub[t].resume = Remote!None
        /\ remote_host[t].pc = "idle" /\ remote_host[t].result = Remote!None /\ remote_host[t].session = Remote!None /\ ~remote_host[t].cancel
        /\ remote_host[t].emitted = 0 /\ ~remote_host[t].prompted /\ effect[t] = Remote!None /\ saved[t] = 0 /\ reply[t] = Remote!None
        /\ incoming[t] = <<>> /\ callback[t] = <<>> /\ events[t] = <<>> /\ out = <<>> /\ back = <<>>
    BY DEF Remote!Init
  <2>2. /\ \A x \in RemoteTokens : RemoteOwn(<<>>)[x] = 0
        /\ \A x \in RemoteKinds : RemoteOf(<<>>, t)[x] = 0
    BY RemoteNEmpty DEF RemoteOwn, RemoteOf
  <2>3. /\ RemoteOf(out, t)["execute"] = 0 /\ RemoteOf(out, t)["ack"] = 0 /\ RemoteOf(out, t)["cancel"] = 0
        /\ RemoteOf(back, t)["bound"] = 0 /\ RemoteOf(back, t)["context"] = 0 /\ RemoteOf(back, t)["event"] = 0
        /\ \A r \in RemoteResults : RemoteOf(back, t)[r] = 0
        /\ RemoteOf(back, t)["cancelled"] = 0
    BY <2>1, <2>2 DEF RemoteKinds, RemoteResults
  <2>4. \A x \in RemoteTokens : RemoteOwn(incoming[t])[x] = 0 /\ RemoteOwn(callback[t])[x] = 0 /\ RemoteOwn(events[t])[x] = 0
    BY <2>1, <2>2
  <2>5. RemoteBare(t) BY <2>1, <2>3, <2>4 DEF RemoteBare, RemoteTokens
  <2>6. RemoteStreamOK(t) BY <2>1, <2>3, <2>4 DEF RemoteStreamOK, RemoteStored, RemoteComing,
      RemoteTokens, Remote!None
  <2>7. RemoteSentOnce(t) /\ RemoteOutcomeOK(t) /\ RemoteCancelOK(t) /\ RemoteHostOK(t) /\ RemoteStoredOK(t)
    BY <2>1, <2>3 DEF RemoteSentOnce, RemoteOutcomeOK, RemoteCancelOK, RemoteHostOK, RemoteStoredOK,
         RemoteBefore, RemoteEarly, Remote!None
  <2>8. RemoteReplyOK(t) BY <2>1, <2>3 DEF RemoteReplyOK, RemoteResults, Remote!None
  <2>9. RemoteTokensOK(t) BY <2>1, <2>5 DEF RemoteTokensOK
  <2> QED BY <2>6, <2>7, <2>8, <2>9 DEF RemoteTurnIs
<1>4. RemoteExclusive /\ RemoteSound /\ RemoteOrdered
  BY DEF Remote!Init, RemoteExclusive, RemoteResting, RemoteSound, RemoteOrdered
<1>5. RemotePermits
  <2>1. Remote!Running = {} BY DEF Remote!Init, Remote!Running, Remote!Working
  <2> QED BY <1>1, <2>1, FS_EmptySet, RemoteSets DEF RemotePermits
<1> QED BY <1>2, <1>3, <1>4, <1>5 DEF RemoteIInv

LEMMA RemoteNextIs == Remote!RemoteAssumption /\ RemoteIInv /\ [Remote!Next]_Remote!vars => RemoteIInv'
<1> SUFFICES ASSUME Remote!RemoteAssumption, RemoteIInv, [Remote!Next]_Remote!vars PROVE RemoteIInv' OBVIOUS
<1>1. ASSUME NEW t \in Turns, Remote!HubTurn(t) \/ Remote!StartTurn(t) \/ Remote!Cancel(t) \/ Remote!GivesUp(t) \/ Remote!LeavesByError(t) PROVE RemoteIInv'
  BY <1>1, RemoteSendTurnKeeps, RemoteHubAloneKeeps, RemoteSendAckKeeps, RemoteSendCancelKeeps,
       RemotePersistKeeps, RemotePersistEventKeeps,
     RemoteLeavesByErrorKeeps, RemoteStartTurnKeeps DEF Remote!HubTurn
<1>2. ASSUME NEW t \in Turns,
             \/ Remote!HostTurn(t) \/ Remote!RefuseTurn(t) \/ Remote!Emit(t) \/ Remote!AckTimeout(t)
             \/ Remote!ForwardEvent(t) \/ Remote!RelayEvent(t)
      PROVE  RemoteIInv'
  BY <1>2, RemoteHostAloneKeeps, RemoteLaunchTurnKeeps, RemoteBindSessionKeeps, RemoteEmitKeeps,
       RemoteForwardEventKeeps, RemoteRelayEventKeeps,
     RemoteSendResultKeeps DEF Remote!HostTurn
<1>3. ASSUME NEW c \in Controls, Remote!SendControl(c) PROVE RemoteIInv' BY <1>3, RemoteControlsKeep
<1>4. CASE Remote!Deliver BY <1>4, RemoteDeliverKeeps
<1>5. CASE Remote!Drain BY <1>5, RemoteDrainKeeps
<1>6. CASE Remote!Receive BY <1>6, RemoteReceiveKeeps
<1>7. CASE Remote!EditContext BY <1>7, RemoteEditKeeps
<1>8. CASE Remote!LinkBreaks BY <1>8, RemoteLinkBreaksKeeps
<1>9. CASE UNCHANGED Remote!vars
  <2>1. RemoteTyped' /\ RemoteOrdered' BY <1>9 DEF RemoteIInv, RemoteTyped, RemoteOrdered, Remote!vars
  <2> QED BY <1>9, <2>1, RemoteQuietKeeps DEF Remote!vars
<1> QED BY <1>1, <1>2, <1>3, <1>4, <1>5, <1>6, <1>7, <1>8, <1>9 DEF Remote!Next

LEMMA RemoteHonest == Remote!RemoteAssumption /\ RemoteIInv => Remote!RemoteTurnsAreHonest
<1> SUFFICES ASSUME Remote!RemoteAssumption, RemoteIInv PROVE Remote!RemoteTurnsAreHonest OBVIOUS
<1>1. RemoteTyped /\ Channel \in Nat /\ MaxEvents \in Nat BY RemoteConstant DEF RemoteIInv
<1>2. ASSUME NEW t \in Turns
      PROVE  /\ RemoteTurnIs(t) /\ remote_hub[t] \in RemoteAnyHub /\ remote_host[t] \in RemoteAnyHost /\ saved[t] \in Nat
             /\ RemoteOwn(incoming[t])["event"] \in Nat /\ RemoteComing(t) \in Nat
             /\ RemoteStored(t) = saved[t] + RemoteOwn(incoming[t])["event"]
  <2>1. /\ RemoteOwn(incoming[t])["event"] \in Nat /\ RemoteOwn(callback[t])["event"] \in Nat /\ RemoteOwn(events[t])["event"] \in Nat
        /\ RemoteOf(back, t)["event"] \in Nat
    BY <1>1, RemoteTypes DEF RemoteTokens, RemoteKinds
  <2>2. RemoteComing(t) \in Nat BY <2>1 DEF RemoteComing
  <2>3. RemoteTurnIs(t) /\ remote_hub[t] \in RemoteAnyHub /\ remote_host[t] \in RemoteAnyHost /\ saved[t] \in Nat BY <1>1 DEF RemoteIInv, RemoteTyped
  <2>4. RemoteStored(t) = saved[t] + RemoteOwn(incoming[t])["event"]  BY DEF RemoteStored
  <2> QED BY <2>1, <2>2, <2>3, <2>4
<1>3. Remote!TypeOK
  <2>1. ASSUME NEW t \in Turns PROVE saved[t] \in 0..MaxEvents
    <3>1. remote_host[t].emitted \in 0..MaxEvents BY <1>2 DEF RemoteAnyHost
    <3>2. RemoteStored(t) + RemoteComing(t) <= remote_host[t].emitted
      BY <1>2 DEF RemoteTurnIs, RemoteStreamOK
    <3> QED BY <1>1, <1>2, <3>1, <3>2
  <2>2. ASSUME NEW t \in Turns PROVE {Len(callback[t]), Len(events[t]), Len(incoming[t])} \subseteq 0..Channel
    <3>1. /\ incoming[t] \in Seq(RemoteTokens) /\ callback[t] \in Seq(RemoteTokens) /\ events[t] \in Seq(RemoteTokens)
          /\ Len(incoming[t]) <= Channel /\ Len(callback[t]) <= Channel /\ Len(events[t]) <= Channel
      BY <1>1 DEF RemoteTyped
    <3> QED BY <1>1, <3>1
  <2>3. {Len(out), Len(back)} \subseteq 0..Channel
    <3>1. out \in Seq(RemoteAnyMsg) /\ back \in Seq(RemoteAnyMsg) /\ Len(out) <= Channel /\ Len(back) <= Channel
      BY <1>1 DEF RemoteTyped
    <3> QED BY <1>1, <3>1
  <2>4. ASSUME NEW t \in Turns
        PROVE  /\ remote_hub[t].pc \in {"idle", "send", "loop", "ack", "drain", "done"}
               /\ remote_hub[t].outcome \in {Remote!None, "answered", "failed", "uncertain", "error"}
               /\ effect[t] \in {Remote!None, "started", "succeeded", "failed", "uncertain"}
               /\ remote_host[t].pc \in Remote!Working \cup {"idle", "accepted", "ended", "joined", "sent"}
    BY <1>1, <1>2 DEF RemoteTyped, RemoteAnyHub, RemoteAnyHost
  <2> QED BY <2>1, <2>2, <2>3, <2>4 DEF Remote!TypeOK, RemoteIInv, RemotePermits
<1>4. Remote!PromptsInStoredSessions BY <1>2 DEF Remote!PromptsInStoredSessions, RemoteTurnIs, RemoteStoredOK
<1>5. Remote!AnswersAreComplete
  <2> SUFFICES ASSUME NEW t \in Turns, remote_hub[t].outcome = "answered"
               PROVE  /\ remote_hub[t].pc = "done" => saved[t] = remote_host[t].emitted
                      /\ remote_hub[t].pc = "drain" /\ incoming[t] = <<>> => binding[SessionOf[t]].id = remote_host[t].session
    BY DEF Remote!AnswersAreComplete
  <2>1. reply[t] = "answered"  BY <1>2 DEF RemoteTurnIs, RemoteReplyOK
  <2>2. remote_host[t].result = "answered"  BY <1>2, <2>1 DEF RemoteTurnIs, RemoteReplyOK, RemoteResults
  <2>3. remote_hub[t].pc = "done" => saved[t] = remote_host[t].emitted
    BY <1>2, <2>1 DEF RemoteTurnIs, RemoteStreamOK
  <2> QED BY <1>2, <2>2, <2>3 DEF RemoteTurnIs, RemoteStoredOK
<1>6. ~FirstPrompt => Remote!PromptedContextIsFresh
  <2> SUFFICES ASSUME ~FirstPrompt, NEW t \in Turns, remote_host[t].pc = "prompted"
               PROVE  given[remote_host[t].session] = remote_host[t].context
    BY DEF Remote!PromptedContextIsFresh
  <2>1. remote_host[t].session # Remote!None BY <1>2 DEF RemoteTurnIs, RemoteHostOK
  <2> QED BY <2>1 DEF RemoteIInv, RemoteSound, RemoteMade
<1>7. ~remote_Uncertain => Remote!EffectsTellTheTruth
  <2> SUFFICES ASSUME ~remote_Uncertain, NEW t \in Turns
               PROVE  /\ effect[t] = "succeeded" => remote_host[t].result = "answered"
                      /\ effect[t] = "failed" => ~remote_host[t].prompted \/ remote_host[t].result = "failed"
    BY DEF Remote!EffectsTellTheTruth
  <2>1. ASSUME effect[t] = "succeeded" PROVE remote_host[t].result = "answered"
    <3>1. reply[t] = "answered"  BY <1>2, <2>1 DEF RemoteTurnIs, RemoteOutcomeOK, RemoteReplyOK
    <3> QED BY <1>2, <3>1 DEF RemoteTurnIs, RemoteReplyOK, RemoteResults
  <2>2. ASSUME effect[t] = "failed" PROVE ~remote_host[t].prompted \/ remote_host[t].result = "failed"
    <3>1. remote_hub[t].outcome = "failed" /\ ~remote_hub[t].cancel
      BY <1>2, <2>2 DEF RemoteTurnIs, RemoteOutcomeOK
    <3>2. CASE remote_host[t].pc = "idle"
      BY <1>2, <3>2 DEF RemoteTurnIs, RemoteHostOK, RemoteBefore, RemoteEarly
    <3>3. CASE remote_host[t].pc # "idle"
      <4>1. reply[t] \in {"failed", "cancelled", "uncertain"}
        BY <1>2, <3>1, <3>3 DEF RemoteTurnIs, RemoteReplyOK
      <4>2. remote_host[t].result = reply[t] BY <1>2, <4>1 DEF RemoteTurnIs, RemoteReplyOK, RemoteResults
      <4>3. reply[t] # "cancelled"  BY <1>2, <3>1 DEF RemoteTurnIs, RemoteReplyOK
      <4>4. reply[t] # "uncertain"  BY <1>2, <4>2 DEF RemoteTurnIs, RemoteHostOK
      <4> QED BY <4>1, <4>2, <4>3, <4>4
    <3> QED BY <3>2, <3>3
  <2> QED BY <2>1, <2>2
<1> QED BY <1>3, <1>4, <1>5, <1>6, <1>7 DEF Remote!RemoteTurnsAreHonest

\* Turns on another Host are honest, however the link, the timers and the cancellations fall
\* (execute_acp_turn in mews-host/src/connection.rs and lifecycle.rs): a Harness is prompted
\* only in the session the Hub has stored, and an answered Turn has its whole stream. If
\* sessions are given their context when they are made, it is the Host's own at the launch
\* of the Turn, and if the Harness says how prompts end, an effect says what became of its.
THEOREM RemoteTurnsStayHonest == Remote!RemoteAssumption => (Remote!Spec => []Remote!RemoteTurnsAreHonest)
<1> SUFFICES ASSUME Remote!RemoteAssumption PROVE Remote!Spec => []Remote!RemoteTurnsAreHonest
  OBVIOUS
<1>1. Remote!Init => RemoteIInv BY RemoteInitIs
<1>2. RemoteIInv /\ [Remote!Next]_Remote!vars => RemoteIInv' BY RemoteNextIs
<1>3. RemoteIInv => Remote!RemoteTurnsAreHonest BY RemoteHonest
<1> QED BY <1>1, <1>2, <1>3, PTL DEF Remote!Spec

=============================================================================
