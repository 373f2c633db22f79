--------------------------- MODULE BuiltinProbes ---------------------------
(***************************************************************************)
(* The three built-in usability probes (builtin_usability_probe.rs) on the *)
(* traversal adapter of the runtime manager: every candidate is prefiltered*)
(* in order and, if reachable, put to the real test behind the runtime's   *)
(* proxy.  Why a test went as it did is the environment's doing; the code  *)
(* only sees what it ended with, and blames the node or ends the probe.    *)
(***************************************************************************)
EXTENDS Naturals, FiniteSets

CONSTANT Total   \* candidates
ASSUME BuiltinAssumption == Total \in Nat

BuiltinKinds == {"streaming", "github", "agy"}

VARIABLES builtin, doing, turn,
          proxied,   \* candidate the proxy of the runtime leads to, 0 for none
          ending,    \* what the test of the current candidate ended with, as the code sees it
          truth,     \* candidate -> the cause of how its test went, which the code never sees
          verdicts,  \* candidate -> "none", "usable", "rejected"
          why,       \* candidate -> the outcome its result rests on
          stageTwo,  \* [total, completed, accepted]
          runtimeUp, \* the isolated runtime is up
          logs,      \* private diagnostic logs of Agy on disk
          abandoned, \* the probe was cancelled
          event      \* the Finished event: "none", "complete", "incomplete"

bpVars ==
    <<builtin, doing, turn, proxied, ending, truth, verdicts, why, stageTwo, runtimeUp, logs, abandoned, event>>

Candidates == 1..Total

BpInit ==
        /\ builtin \in BuiltinKinds /\ doing = "start" /\ turn = 1 /\ proxied = 0 /\ ending = "none"
        /\ truth = [n \in Candidates |-> "none"] /\ verdicts = [n \in Candidates |-> "none"]
        /\ why = [n \in Candidates |-> "none"]
        /\ stageTwo = [total |-> 0, completed |-> 0, accepted |-> 0]
        /\ runtimeUp = FALSE /\ logs = 0 /\ abandoned = FALSE /\ event = "none"

\* Why a test goes as it does: it works, the way through the node to the service
\* does not, the probe's own runtime (its client or the isolated sing-box) fails,
\* something else does (no login, no program, no log, no time), or it is cancelled.
Causes == {"worked", "node", "runtime", "other", "cancelled"}

\* What the code can see of each cause.
Streaming(cause) == CASE cause = "worked" -> {"completed"}
                      [] cause = "node" -> {"transfer failed"}
                      [] cause = "runtime" -> {"transfer failed", "runtime failed"}
                      [] cause = "other" -> {"runtime failed"}
                      [] cause = "cancelled" -> {"cancelled"}
Github(cause) == CASE cause = "worked" -> {"banner"}
                   [] cause = "node" -> {"closed", "refused", "no banner"}
                   [] cause = "runtime" -> {"closed", "no banner", "proxy error"}
                   [] OTHER -> {}
\* How the supervised command of Agy ends: its own exit, the deadline, a
\* cancellation, or it was not started, not observed or its output not read.
Exits(cause) == CASE cause = "worked" -> {"success"}
                  [] cause = "cancelled" -> {"cancelled"}
                  [] cause = "other" -> {"failure", "deadline", "unsupervised"}
                  [] OTHER -> {"failure", "deadline"}

\* What output and log tell of it.
Says(cause) == CASE cause = "node" -> {"location", "nothing"}
                 [] cause = "other" -> {"login", "nothing"}
                 [] OTHER -> {"nothing"}

Classified(exit, said) ==
    CASE exit \in {"success", "cancelled"} -> exit
      [] exit = "unsupervised" -> "start failed"
      [] exit = "failure" /\ said = "location" -> "location"
      [] exit \in {"failure", "deadline"} /\ said = "login" -> "login"
      [] exit = "failure" /\ said = "nothing" -> "process failed"
      [] OTHER -> "timeout"

AgyOutcomes == {"success", "location", "login", "process failed", "timeout", "start failed",
                "log setup failed", "cancelled"}

Agy(cause) == {outcome \in AgyOutcomes :
                 \/ cause = "other" /\ outcome = "log setup failed"
                 \/ \E exit \in Exits(cause), said \in Says(cause) : outcome = Classified(exit, said)}

Signals(cause) == CASE builtin = "streaming" -> Streaming(cause)
                    [] builtin = "github" -> Github(cause)
                    [] builtin = "agy" -> Agy(cause)

Succeeded == {"completed", "banner", "success"}

-----------------------------------------------------------------------------
\* The one event a probe ends with; the traversal is dropped and shut down.
Finish(complete) ==
    /\ event' = IF complete THEN "complete" ELSE "incomplete"
    /\ doing' = "done" /\ runtimeUp' = FALSE /\ proxied' = 0

\* NodeRuntimeTraversal::start: created with exactly the candidates asked for, or not.
StartTraversal ==
    /\ doing = "start"
    /\ \/ runtimeUp' = TRUE /\ doing' = "next" /\ UNCHANGED <<event, proxied>>
       \/ Finish(FALSE)
    /\ UNCHANGED <<builtin, turn, ending, truth, verdicts, why, stageTwo, logs, abandoned>>

Settle(n, verdict, reason) ==
    /\ verdicts' = [verdicts EXCEPT ![n] = verdict]
    /\ why' = [why EXCEPT ![n] = reason]

\* Cancellation is looked at before every candidate; the next one is scanned.
Scan ==
    /\ doing = "next" /\ turn <= Total
    /\ \/ abandoned /\ Finish(FALSE) /\ UNCHANGED <<turn, verdicts, why, stageTwo>>
       \/ ~abandoned /\ Finish(FALSE) /\ UNCHANGED <<turn, verdicts, why, stageTwo>>  \* runtime error
       \/ /\ ~abandoned /\ Settle(turn, "rejected", "prefilter")
          /\ turn' = turn + 1 /\ proxied' = 0
          /\ UNCHANGED <<doing, stageTwo, runtimeUp, event>>
       \/ /\ ~abandoned /\ proxied' = turn
          /\ stageTwo' = [stageTwo EXCEPT !.total = @ + 1]
          /\ doing' = "test"
          /\ UNCHANGED <<turn, verdicts, why, runtimeUp, event>>
    /\ UNCHANGED <<builtin, ending, truth, logs, abandoned>>

\* The test behind the proxy.  Agy gets a log file of its own, removed behind it.
Test(cause) ==
    /\ doing = "test"
    /\ cause = "cancelled" => abandoned
    /\ ending' \in Signals(cause) /\ doing' = "judge"
    /\ truth' = [truth EXCEPT ![proxied] = cause]
    /\ logs' = IF builtin = "agy" /\ ending' # "log setup failed" THEN logs + 1 ELSE logs
    /\ UNCHANGED <<builtin, turn, proxied, verdicts, why, stageTwo, runtimeUp, abandoned, event>>

\* Fault: a failure of Agy counts against the node whatever its diagnostic says.
BugBlamed == {"transfer failed", "closed", "refused", "no banner", "location", "login", "process failed"}

\* SustainedProbeOutcome::TransferFailed, Ok((false, _)) of probe_github_ssh, and the
\* NodeRejected of classify_agy_failure.
Blamed == {"transfer failed", "closed", "refused", "no banner", "location"}

\* Fault: a rejected node does not count as tested.
BugCompleted == IF ending \in Succeeded THEN stageTwo.completed + 1 ELSE stageTwo.completed

Completed == stageTwo.completed + 1

\* A node is published as usable or rejected, or the probe ends as incomplete.
Judge ==
    /\ doing = "judge"
    /\ logs' = 0
    /\ IF ending \in Succeeded \cup Blamed
       THEN /\ Settle(proxied, IF ending \in Succeeded THEN "usable" ELSE "rejected", ending)
            /\ stageTwo' = [stageTwo EXCEPT !.completed = Completed,
                                            !.accepted = IF ending \in Succeeded THEN @ + 1 ELSE @]
            /\ turn' = turn + 1 /\ doing' = "next"
            /\ UNCHANGED <<proxied, runtimeUp, event>>
       ELSE Finish(FALSE) /\ UNCHANGED <<turn, verdicts, why, stageTwo>>
    /\ ending' = "none"
    /\ UNCHANGED <<builtin, truth, abandoned>>

AllScanned ==
    /\ doing = "next" /\ turn = Total + 1
    /\ Finish(TRUE)
    /\ UNCHANGED <<builtin, turn, ending, truth, verdicts, why, stageTwo, logs, abandoned>>

CancelProbe == /\ ~abandoned /\ abandoned' = TRUE
               /\ UNCHANGED <<builtin, doing, turn, proxied, ending, truth, verdicts, why, stageTwo, runtimeUp, logs,
                              event>>

BpNext == \/ StartTraversal \/ Scan \/ Judge \/ AllScanned \/ CancelProbe
          \/ \E cause \in Causes : Test(cause)

BpSpec == BpInit /\ [][BpNext]_bpVars

-----------------------------------------------------------------------------
\* The candidates whose test counts.
Tested == {n \in Candidates : why[n] \notin {"none", "prefilter"}}
Rejected == {n \in Tested : verdicts[n] = "rejected"}

\* What a dead runtime and a dead node look alike in: the transfer broke, the
\* connection closed, no banner came.
LooksLikeNode == {"transfer failed", "closed", "no banner"}

\* A tested node is rejected because the way through it did not work, or because
\* the runtime failed in a way that looks like it; never for a missing login, a
\* timeout of the program or a cancellation.  A usable one worked, a complete probe
\* has judged every candidate, and nothing of it, runtime or log, is left behind.
OnlyNodesAreBlamed ==
    /\ \A n \in Rejected : truth[n] = "node" \/ (truth[n] = "runtime" /\ why[n] \in LooksLikeNode)
    /\ \A n \in Candidates : verdicts[n] = "usable" => truth[n] = "worked"
    /\ event = "complete" => \A n \in Candidates : verdicts[n] # "none"
    /\ event # "none" => ~runtimeUp /\ logs = 0

\* CONTEXT.md, "Usability probe result": program or runtime failures leave the
\* assessment incomplete rather than making nodes unusable.  The code does not keep
\* it: sustained_quality.rs:345 and builtin_usability_probe.rs:797 count every
\* failure behind the proxy as the node's.
RuntimeIsNotBlamed == \A n \in Rejected : truth[n] # "runtime"

\* The progress shown is consistent as it is demanded of programs: no stage is
\* ahead of the one before it, and the counts are those of the results.
ProgressConsistent ==
    /\ stageTwo.accepted <= stageTwo.completed /\ stageTwo.completed <= stageTwo.total
    /\ stageTwo.total <= turn
    /\ stageTwo.completed = Cardinality(Tested)
    /\ stageTwo.accepted = Cardinality({n \in Tested : verdicts[n] = "usable"})

\* Together: a verdict is earned and the counts are those of the verdicts.
VerdictsEarned == OnlyNodesAreBlamed /\ ProgressConsistent
=============================================================================
