---------------------------- MODULE ToolProcess ----------------------------
(***************************************************************************)
(* One tool process of the Host: process::capture for the bash tool and    *)
(* for extensions (mews-host/src/tools/process.rs).  The leader is spawned *)
(* in its own process group and may start descendants that share its       *)
(* pipes until they redirect them; the operation joins the leader's exit,  *)
(* both output readers and the writer of the input, under a timeout, the   *)
(* Turn's cancellation and the drop of the whole call.                     *)
(***************************************************************************)
EXTENDS Naturals

CONSTANTS
    MaxOutput,      \* MAX_OUTPUT, in chunks
    MaxWritten,     \* bound: chunks the processes write
    MaxInput,       \* chunks of input (0 for bash, whose stdin is null)
    Reject,         \* OutputLimit::Reject (extensions) or Truncate (bash)
    MayFork         \* the processes may start descendants

\* What the constants must satisfy; every instance assumes it.
ProcessAssumption ==
    /\ {MaxOutput, MaxWritten, MaxInput} \subseteq Nat
    /\ {Reject, MayFork} \subseteq BOOLEAN

VARIABLES
    leader,         \* the child: "none", "running", "exited", "killed"
    waited,         \* child.wait() has been polled to completion
    descendants,    \* "none", "running", "detached" (from the pipes) or "killed"
    pipe,           \* chunks written and not yet read
    written,        \* chunks written in all
    output,         \* chunks kept by read_output
    discarded,      \* chunks read past the limit (Truncate)
    input,          \* chunks still to be written to stdin
    call,           \* capture: "start", "operation", "result"
    result,         \* "none", "ok", "failed", "timeout", "cancelled", "dropped"
    cancelled       \* the Turn's token

vars == <<leader, waited, descendants, pipe, written, output, discarded, input,
          call, result, cancelled>>

Init ==
    /\ leader = "none" /\ waited = FALSE
    /\ descendants = "none"
    /\ pipe = 0 /\ written = 0 /\ output = 0 /\ discarded = 0
    /\ input = MaxInput
    /\ call = "start" /\ result = "none"
    /\ cancelled = FALSE

\* spawn, in a process group of its own; it may fail.
Spawn ==
    /\ call = "start"
    /\ \/ leader' = "running" /\ call' = "operation" /\ UNCHANGED result
       \/ call' = "result" /\ result' = "failed" /\ UNCHANGED leader
    /\ UNCHANGED <<waited, descendants, pipe, written, output, discarded, input, cancelled>>

--------------------
(* The processes *)

\* Something of the group lives; something of it holds the ends of the pipes.
Alive == leader = "running" \/ descendants \in {"running", "detached"}
HoldsPipes == leader = "running" \/ descendants = "running"

Fork ==
    /\ MayFork /\ leader = "running" /\ descendants = "none"
    /\ descendants' = "running"
    /\ UNCHANGED <<leader, waited, pipe, written, output, discarded, input, call, result, cancelled>>

\* A descendant that redirects its input and output stays in the group.
Redirect ==
    /\ descendants = "running"
    /\ descendants' = "detached"
    /\ UNCHANGED <<leader, waited, pipe, written, output, discarded, input, call, result, cancelled>>

WriteOutput ==
    /\ HoldsPipes /\ written < MaxWritten
    /\ written' = written + 1 /\ pipe' = pipe + 1
    /\ UNCHANGED <<leader, waited, descendants, output, discarded, input, call, result, cancelled>>

LeaderExits ==
    /\ leader = "running"
    /\ leader' = "exited"
    /\ UNCHANGED <<waited, descendants, pipe, written, output, discarded, input, call, result, cancelled>>

DescendantExits ==
    /\ descendants \in {"running", "detached"}
    /\ descendants' = "none"
    /\ UNCHANGED <<leader, waited, pipe, written, output, discarded, input, call, result, cancelled>>

--------------------
(* ChildGuard *)

\* Child::id() answers only until the exit status has been collected.
HasId == ~waited

\* Mutant: the signal goes to the leader, not to its group.
KillLeader ==
    /\ leader' = IF HasId /\ leader = "running" THEN "killed" ELSE leader
    /\ UNCHANGED descendants

\* kill_group, then start_kill.
KillGroup ==
    IF HasId
    THEN /\ leader' = IF leader = "running" THEN "killed" ELSE leader
         /\ descendants' = IF descendants \in {"running", "detached"} THEN "killed" ELSE descendants
    ELSE UNCHANGED <<leader, descendants>>

Ends(r) ==
    /\ call' = "result"
    /\ result' = r

--------------------
(* The operation *)

Wait ==
    /\ call = "operation" /\ leader \in {"exited", "killed"} /\ ~waited
    /\ waited' = TRUE
    /\ UNCHANGED <<leader, descendants, pipe, written, output, discarded, input, call, result, cancelled>>

\* Mutant: a chunk is kept twice.
ReadsTwice ==
    /\ call = "operation" /\ pipe > 0 /\ output < MaxOutput
    /\ output' = output + 1
    /\ UNCHANGED <<leader, waited, descendants, pipe, written, discarded, input, call, result, cancelled>>

\* read_output: past the limit the rest is read and thrown away, or refused.
ReadOutput ==
    /\ call = "operation" /\ pipe > 0
    /\ pipe' = pipe - 1
    /\ IF output < MaxOutput
       THEN output' = output + 1 /\ UNCHANGED <<discarded, leader, descendants, call, result>>
       ELSE IF Reject
       THEN Ends("failed") /\ KillGroup /\ UNCHANGED <<output, discarded>>
       ELSE discarded' = discarded + 1 /\ UNCHANGED <<output, leader, descendants, call, result>>
    /\ UNCHANGED <<waited, written, input, cancelled>>

\* write_input; it fails once no process holds the other end, or when they close it.
WriteInput ==
    /\ call = "operation" /\ input > 0
    /\ \/ HoldsPipes /\ input' = input - 1 /\ UNCHANGED <<leader, descendants, call, result>>
       \/ Ends("failed") /\ KillGroup /\ UNCHANGED input
    /\ UNCHANGED <<waited, pipe, written, output, discarded, cancelled>>

\* Mutant: the operation does not wait for the end of the output.
JoinsEarly ==
    /\ call = "operation" /\ waited /\ input = 0
    /\ Ends("ok")
    /\ UNCHANGED <<leader, waited, descendants, pipe, written, output, discarded, input, cancelled>>

\* try_join!: the exit status, the end of both outputs and the input. The guard
\* then finds no id to kill: a descendant that redirected its output lives on.
Joined ==
    /\ call = "operation" /\ waited /\ input = 0
    /\ ~HoldsPipes /\ pipe = 0
    /\ Ends("ok")
    /\ UNCHANGED <<leader, waited, descendants, pipe, written, output, discarded, input, cancelled>>

\* Mutant: a timeout leaves the processes alone.
GivesUp ==
    /\ call = "operation"
    /\ Ends("timeout")
    /\ UNCHANGED <<leader, waited, descendants, pipe, written, output, discarded, input, cancelled>>

\* Mutant: the timeout covers the output only.
TimesOutReading ==
    /\ call = "operation" /\ waited
    /\ Ends("timeout") /\ KillGroup
    /\ UNCHANGED <<waited, pipe, written, output, discarded, input, cancelled>>

\* The timeout, then terminate_and_reap.
TimesOut ==
    /\ call = "operation"
    /\ Ends("timeout") /\ KillGroup
    /\ UNCHANGED <<waited, pipe, written, output, discarded, input, cancelled>>

Cancel ==
    /\ ~cancelled /\ cancelled' = TRUE
    /\ UNCHANGED <<leader, waited, descendants, pipe, written, output, discarded, input, call, result>>

ObservesCancellation ==
    /\ call = "operation" /\ cancelled
    /\ Ends("cancelled") /\ KillGroup
    /\ UNCHANGED <<waited, pipe, written, output, discarded, input, cancelled>>

\* ChildGuard::drop, when the call itself is dropped.
DropCall ==
    /\ call = "operation"
    /\ Ends("dropped") /\ KillGroup
    /\ UNCHANGED <<waited, pipe, written, output, discarded, input, cancelled>>

\* What the call does on its own, until it ends or is dropped.
Operation == Spawn \/ Wait \/ ReadOutput \/ WriteInput \/ Joined \/ TimesOut

Next ==
    \/ Fork \/ Redirect \/ WriteOutput \/ LeaderExits \/ DescendantExits
    \/ Operation
    \/ Cancel \/ ObservesCancellation \/ DropCall

\* The operation is polled and its timer fires; the processes may hang.
Fairness == WF_vars(Operation)

Spec == Init /\ [][Next]_vars /\ Fairness

--------------------
(* Properties *)

\* The type of the processes, the pipe and the call.
TypeOK ==
    /\ leader \in {"none", "running", "exited", "killed"}
    /\ descendants \in {"none", "running", "detached", "killed"}
    /\ call \in {"start", "operation", "result"}
    /\ result \in {"none", "ok", "failed", "timeout", "cancelled", "dropped"}
    /\ written >= pipe + output + discarded

\* A successful result is complete: the leader exited by itself, and everything
\* its group wrote into the pipes is in the result, but for what a truncating tool
\* dropped past the limit.
SuccessIsComplete ==
    result = "ok" => /\ waited /\ leader = "exited"
                     /\ output + discarded = written
                     /\ discarded > 0 => output = MaxOutput /\ ~Reject

\* Nothing is kept past the limit.
OutputIsLimited == output <= MaxOutput

\* However the call ends, the leader is dead.
LeaderDiesWithTheCall == call = "result" => leader # "running"

\* A call that ends before the leader's exit has been collected takes the whole
\* group with it, whatever the leader has started.
GroupIsKilled == call = "result" /\ ~waited => ~Alive

\* What the comment of ChildGuard asks: a call that is cut short stops the
\* descendants too. kill_group has no id to do so once the leader is reaped.
GroupDiesWithTheCall ==
    result \in {"failed", "timeout", "cancelled", "dropped"} => ~Alive

\* What a call promises of its processes, however it ends.
ProcessesEndWithTheirCall ==
    /\ TypeOK /\ SuccessIsComplete /\ OutputIsLimited
    /\ LeaderDiesWithTheCall /\ GroupIsKilled

\* Every call ends, even of a process that never does.
EveryCallEnds == <>(call = "result")

============================================================================
