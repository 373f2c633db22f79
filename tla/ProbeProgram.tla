---------------------------- MODULE ProbeProgram ----------------------------
(***************************************************************************)
(* One executable usability probe under run_program_probe                  *)
(* (usability_probe.rs): a program in a process group of its own, perhaps  *)
(* with a descendant; a reader thread that turns its output into lines in  *)
(* a bounded channel; the probe thread that reads them, watches            *)
(* cancellation and deadline, and takes the group down.  Unix.             *)
(***************************************************************************)
EXTENDS Naturals, Sequences, FiniteSets

CONSTANTS Nodes,     \* selector members the program may report on
          Channel,   \* capacity of the line channel
          MaxLines,  \* lines the program writes
          Escapes    \* may a descendant leave the process group?

VARIABLES leader,  \* "up", "zombie" (exited, not reaped), "reaped"
          code,    \* exit status of the leader: "ok", "error"
          child,   \* descendant: "none", "up", "escaped", "dead"
          pipe,    \* lines written and not yet read
          log,     \* every line the program has written
          holds,   \* holders of the standard output
          reader,  \* reader thread: "reading", "done"
          lines,   \* the channel
          pc,      \* probe thread: "lines", "wait", "clean", "kill", "reap", "done"
          after,   \* where the probe thread goes on behind the termination
          ended,   \* tree_terminated
          fatal,   \* fatal_error
          summary, \* terminal_summary: "none", "complete", "incomplete"
          seen,    \* results
          cancel, late,
          outcome, \* the Finished event: "none", "complete", "incomplete"
          stranger \* somebody else's process group was signalled

procVars == <<leader, code, child, pipe, log, holds, reader, lines, pc, after, ended, fatal, summary, seen,
              cancel, late, outcome, stranger>>

\* What parse_program_output makes of a line.
LineKinds == [kind : {"result"}, node : Nodes \cup {"foreign"}]
                \cup [kind : {"progress", "complete", "incomplete", "bad"}, node : {"none"}]

ProcInit == /\ leader = "up" /\ code = "ok" /\ child = "none"
            /\ pipe = <<>> /\ log = <<>> /\ holds = {"leader"}
            /\ reader = "reading" /\ lines = <<>>
            /\ pc = "lines" /\ after = "lines" /\ ended = FALSE
            /\ fatal = FALSE /\ summary = "none" /\ seen = {}
            /\ cancel = FALSE /\ late = FALSE
            /\ outcome = "none" /\ stranger = FALSE

-----------------------------------------------------------------------------
(* The program.                                                            *)

Program == <<leader, code, child, pipe, log, holds>>
Reading == <<reader, lines>>
Thread == <<pc, after, ended, fatal, summary, seen, outcome, stranger>>
Clock == <<cancel, late>>

Write(line) ==
    /\ leader = "up" /\ "leader" \in holds /\ Len(log) < MaxLines
    /\ pipe' = Append(pipe, line) /\ log' = Append(log, line)
    /\ UNCHANGED <<leader, code, child, holds>> /\ UNCHANGED <<Reading, Thread, Clock>>

\* A descendant inherits the output and may leave the group (setsid).
Fork(group) ==
    /\ leader = "up" /\ child = "none" /\ group \in (IF Escapes THEN {"up", "escaped"} ELSE {"up"})
    /\ child' = group /\ holds' = holds \cup {"child"}
    /\ UNCHANGED <<leader, code, pipe, log>> /\ UNCHANGED <<Reading, Thread, Clock>>

CloseOutput ==
    /\ leader = "up" /\ "leader" \in holds
    /\ holds' = holds \ {"leader"}
    /\ UNCHANGED <<leader, code, child, pipe, log>> /\ UNCHANGED <<Reading, Thread, Clock>>

Exit(status) ==
    /\ leader = "up"
    /\ leader' = "zombie" /\ code' = status /\ holds' = holds \ {"leader"}
    /\ UNCHANGED <<child, pipe, log>> /\ UNCHANGED <<Reading, Thread, Clock>>

ChildExits ==
    /\ child \in {"up", "escaped"}
    /\ child' = "dead" /\ holds' = holds \ {"child"}
    /\ UNCHANGED <<leader, code, pipe, log>> /\ UNCHANGED <<Reading, Thread, Clock>>

-----------------------------------------------------------------------------
(* read_protocol_lines                                                     *)

\* Blocks while the channel is full.
ReadLine ==
    /\ reader = "reading" /\ pipe # <<>> /\ Len(lines) < Channel
    /\ lines' = Append(lines, Head(pipe)) /\ pipe' = Tail(pipe)
    /\ UNCHANGED <<leader, code, child, log, holds, reader>> /\ UNCHANGED <<Thread, Clock>>

\* End of file needs every holder of the pipe to be gone.
ReadEof ==
    /\ reader = "reading" /\ pipe = <<>> /\ holds = {}
    /\ reader' = "done"
    /\ UNCHANGED <<Program, lines, Thread, Clock>>

-----------------------------------------------------------------------------
(* The probe thread.                                                       *)

\* terminate_probe_process_tree is called at most once.
Terminate(error, back) ==
    /\ fatal' = (fatal \/ error)
    /\ IF ended THEN pc' = back /\ UNCHANGED <<after, ended>>
       ELSE pc' = "kill" /\ after' = back /\ ended' = TRUE

\* Fault: neither is looked at before the output has ended.
BugInterrupt ==
    /\ pc = "wait" /\ ~fatal /\ (cancel \/ late)
    /\ Terminate(TRUE, pc)
    /\ UNCHANGED <<Program, Reading, summary, seen, Clock, outcome, stranger>>

\* Cancellation and deadline are looked at before every wait for a line.
Interrupt ==
    /\ pc \in {"lines", "wait"} /\ ~fatal /\ (cancel \/ late)
    /\ Terminate(TRUE, pc)
    /\ UNCHANGED <<Program, Reading, summary, seen, Clock, outcome, stranger>>

\* Fault: a second result for a node is taken like the first.
BugRefusedLine(line) == line.kind = "bad" \/ summary # "none"

\* Lines that end the probe: malformed ones, anything behind the summary, a
\* second result for a node.
RefusedLine(line) ==
    \/ line.kind = "bad"
    \/ summary # "none"
    \/ line.kind = "result" /\ line.node \in seen

TakeLine ==
    /\ pc = "lines" /\ lines # <<>>
    /\ lines' = Tail(lines)
    /\ LET line == Head(lines)
       IN IF fatal THEN UNCHANGED <<pc, after, ended, fatal, summary, seen>>
          ELSE IF RefusedLine(line) THEN Terminate(TRUE, "lines") /\ UNCHANGED <<summary, seen>>
          ELSE /\ seen' = IF line.kind = "result" THEN seen \cup ({line.node} \cap Nodes) ELSE seen
               /\ summary' = IF line.kind \in {"complete", "incomplete"} THEN line.kind ELSE summary
               /\ UNCHANGED <<pc, after, ended, fatal>>
    /\ UNCHANGED <<Program, reader, Clock, outcome, stranger>>

\* The reader has dropped its end of the channel.
LinesEnd ==
    /\ pc = "lines" /\ lines = <<>> /\ reader = "done"
    /\ pc' = "wait"
    /\ UNCHANGED <<Program, Reading, after, ended, fatal, summary, seen, Clock, outcome, stranger>>

\* Fault: try_wait reaps the leader before the group is taken down.
BugObserved == leader' = "reaped"

\* waitid with WNOWAIT leaves the pid of the leader reserved.
Observed == UNCHANGED leader

LeaderGone ==
    /\ pc = "wait" /\ leader = "zombie"
    /\ Observed
    /\ Terminate(FALSE, "reap")
    /\ UNCHANGED <<code, child, pipe, log, holds, Reading, summary, seen, Clock, outcome, stranger>>

\* The descendant that is left when the group was signalled.
Spared == IF child = "up" THEN "dead" ELSE child

\* SIGTERM, grace period, SIGKILL to the group.
Kill ==
    /\ pc = "kill"
    /\ stranger' = (stranger \/ leader = "reaped")
    /\ leader' = IF leader = "up" THEN "zombie" ELSE leader
    /\ code' = IF leader = "up" THEN "error" ELSE code
    /\ child' = Spared
    /\ holds' = IF Spared \in {"up", "escaped"} THEN holds \cap {"child"} ELSE {}
    /\ pc' = after
    /\ UNCHANGED <<pipe, log, Reading, after, ended, fatal, summary, seen, Clock, outcome>>

Complete == summary = "complete" /\ ~fatal /\ code = "ok"

\* The leader is waited for, then the one Finished event is sent; a descendant
\* that still holds the error output lets its reader time out.
Reap ==
    /\ pc = "reap"
    /\ leader' = "reaped" /\ pc' = "done"
    /\ outcome' \in (IF ~Complete THEN {"incomplete"}
                     ELSE IF child = "escaped" THEN {"complete", "incomplete"} ELSE {"complete"})
    /\ UNCHANGED <<code, child, pipe, log, holds, Reading, after, ended, fatal, summary, seen, Clock, stranger>>

CancelJob == ~cancel /\ cancel' = TRUE /\ UNCHANGED <<Program, Reading, Thread, late>>
Deadline == ~late /\ late' = TRUE /\ UNCHANGED <<Program, Reading, Thread, cancel>>

ProcNext == \/ \E line \in LineKinds : Write(line)
            \/ \E group \in {"up", "escaped"} : Fork(group)
            \/ CloseOutput \/ (\E status \in {"ok", "error"} : Exit(status)) \/ ChildExits
            \/ ReadLine \/ ReadEof
            \/ Interrupt \/ TakeLine \/ LinesEnd \/ LeaderGone \/ Kill \/ Reap
            \/ CancelJob \/ Deadline

ProcSpec == ProcInit /\ [][ProcNext]_procVars

\* The probe thread and the reader go on and time passes; of the program nothing
\* is assumed, it may never write or exit.
ProcFairSpec == /\ ProcSpec
                /\ WF_procVars(ReadLine) /\ WF_procVars(ReadEof)
                /\ WF_procVars(Interrupt \/ TakeLine \/ LinesEnd \/ LeaderGone \/ Kill \/ Reap)
                /\ WF_procVars(Deadline)

-----------------------------------------------------------------------------
(* Correctness.                                                            *)

\* A probe is complete only if everything the program wrote agrees with it: one
\* summary, as its last word, no node twice, and a good end; every result it wrote
\* about a member is there.  When the event is sent, nothing of the process group
\* is left.
CompleteIsEarned ==
    LET Results == {i \in 1..Len(log) : log[i].kind = "result" /\ log[i].node \in Nodes}
    IN /\ outcome = "complete" =>
             /\ code = "ok" /\ log # <<>> /\ log[Len(log)].kind = "complete"
             /\ \A i \in 1..Len(log) - 1 : log[i].kind \in {"result", "progress"}
             /\ \A i, j \in Results : i # j => log[i].node # log[j].node
             /\ seen = {log[i].node : i \in Results}
       /\ outcome # "none" => child # "up" /\ leader = "reaped"

\* The signals of the termination only ever reach the probe's own group.
OwnGroupOnly == ~stranger

\* Together: what the end of a probe says is earned, and reached by fair means.
OutcomeIsEarned == CompleteIsEarned /\ OwnGroupOnly

\* A descendant that left the process group keeps the output open.
HeldOpen == child = "escaped" /\ "child" \in holds

\* A cancelled probe comes to an end, whether or not the program writes, closes its
\* output or reacts to signals, and whatever its descendants do inside its group; one
\* that left the group must not keep the output open for ever.
ProbeEnds == []<>(~HeldOpen) => (cancel ~> outcome # "none")

\* "Reader completion itself is also bounded to keep shutdown independent of a
\* third-party program's descriptor hygiene" (run_program_probe): a cancelled probe comes
\* to an end whatever the program and all its descendants do with their descriptors.
CancelAlwaysEnds == cancel ~> outcome # "none"
=============================================================================
