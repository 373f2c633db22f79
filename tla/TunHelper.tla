------------------------------ MODULE TunHelper ------------------------------
(***************************************************************************)
(* The Private Access TUN helper (tun.rs): a privileged child process that *)
(* owns the TUN device and the split-DNS files under /etc/resolver, driven *)
(* over a pipe by the service that owns the VPN session.  The SonicWall    *)
(* service keeps its helper across reconnects, Hillstone does not.         *)
(*                                                                         *)
(* Routes and the device go with the process; the resolver files do not,   *)
(* so they are the state modelled.  Inspecting a stale file and removing   *)
(* it, and comparing an own file and removing it, are one step each: a     *)
(* user does not edit between the two calls.                               *)
(***************************************************************************)
EXTENDS Naturals, Sequences, FiniteSets

CONSTANTS NumNames,   \* pushed namespaces, installed in order
          MaxHelpers, MaxSession,
          Queue,      \* events a reader thread may pile up
          MaxEdits,   \* files the user writes
          MaxMishaps  \* crashes, timeouts, I/O errors, reused pids

Clients == {"sonicwall", "hillstone"}
HelperPids == 1..MaxHelpers
Paths == 1..NumNames
Names == [i \in Paths |-> i]

ASSUME TunAssumption == NumNames \in Nat /\ MaxHelpers \in Nat

VARIABLES clients,  \* service -> its TunHelperClient
          helper,  \* pid -> the helper process
          commands, answers, \* pid -> the two pipes
          files,   \* /etc/resolver
          alive,   \* pids for which kill(pid, 0) succeeds
          killed,  \* helpers that had no chance to clean up
          sessions, edits, mishaps

tunVars == <<clients, helper, commands, answers, files, alive, killed, sessions, edits, mishaps>>

NoClient == [st |-> "none", pid |-> 0, session |-> 0, fresh |-> TRUE]
Unborn == [st |-> "unborn", ctx |-> 0, new |-> 0, todo |-> <<>>, held |-> <<>>, phase |-> "idle",
           then |-> "none", reader |-> FALSE]
NoFile == [kind |-> "none", pid |-> 0]
UserFile == [kind |-> "user", pid |-> 0]
Owned(p) == [kind |-> "owned", pid |-> p]
Empty(p) == [kind |-> "empty", pid |-> p]

TunInit == /\ clients = [s \in Clients |-> NoClient]
           /\ helper = [p \in HelperPids |-> Unborn]
           /\ commands = [p \in HelperPids |-> <<>>] /\ answers = [p \in HelperPids |-> <<>>]
           /\ files \in [Paths -> {NoFile, UserFile}]
           /\ alive = {} /\ killed = {} /\ sessions = 0 /\ edits = 0 /\ mishaps = 0

-----------------------------------------------------------------------------
(* The client, in the service process.                                     *)

Running(p) == helper[p].st = "running"
Connected(p) == \E s \in Clients : clients[s].pid = p
Mishap == mishaps < MaxMishaps /\ mishaps' = mishaps + 1
System == <<files, alive, killed>>
Counters == <<sessions, edits, mishaps>>

\* The configuration, here the session it is for, travels with the command.
Command(c, session) == [op |-> c, session |-> session]

Sends(s, c, st) ==
    /\ commands' = [commands EXCEPT ![clients[s].pid] = Append(@, Command(c, 0))]
    /\ clients' = [clients EXCEPT ![s].st = st]

Spawn(s) ==
    LET p == Cardinality({q \in HelperPids : helper[q].st # "unborn"}) + 1
    IN /\ clients[s].st = "none" /\ p <= MaxHelpers /\ sessions < MaxSession
       /\ sessions' = sessions + 1
       /\ clients' = [clients EXCEPT ![s] = [st |-> "wait_ready", pid |-> p, session |-> sessions + 1, fresh |-> TRUE]]
       /\ helper' = [helper EXCEPT ![p].st = "running"]
       /\ alive' = alive \cup {p}
       /\ commands' = [commands EXCEPT ![p] = <<Command("Start", sessions + 1)>>]
       /\ UNCHANGED <<answers, files, killed, edits, mishaps>>

\* start_session on the retained helper after an EVPN reconnect.
StartAgain(s) ==
    /\ clients[s].st = "idle" /\ sessions < MaxSession /\ Running(clients[s].pid)
    /\ sessions' = sessions + 1
    /\ commands' = [commands EXCEPT ![clients[s].pid] = Append(@, Command("Start", sessions + 1))]
    /\ clients' = [clients EXCEPT ![s] = [@ EXCEPT !.st = "wait_ready", !.session = sessions + 1, !.fresh = FALSE]]
    /\ UNCHANGED <<helper, answers, System, edits, mishaps>>

SendPacket(s) ==
    /\ clients[s].st = "up" /\ Len(commands[clients[s].pid]) = 0
    /\ Sends(s, "Packet", "up")
    /\ UNCHANGED <<helper, answers, System, Counters>>

\* The packet loop ended; the shutdown flag makes it an orderly stop.
LoopEnds(s) ==
    /\ clients[s].st = "up"
    /\ \/ Sends(s, "Stop", "stopping")
       \/ s = "sonicwall" /\ Sends(s, "Reset", "wait_stopped")
       \/ s = "hillstone" /\ Sends(s, "Stop", "dropping")
    /\ UNCHANGED <<helper, answers, System, Counters>>

\* Fault: a retained helper is used again without a reset.
BugFailed(s) == IF clients[s].fresh \/ s # "sonicwall" THEN "drop" ELSE "keep"

\* What a failed wait leads to: a helper that never came up is dropped, a retained
\* one is reset, and one that cannot be reset is dropped.
Failed(s) == IF clients[s].st # "wait_stopped" /\ ~(clients[s].st = "wait_ready" /\ clients[s].fresh)
                /\ s = "sonicwall"
             THEN "reset" ELSE "drop"

Recovers(s) ==
    CASE Failed(s) = "reset" -> Sends(s, "Reset", "wait_stopped")
      [] Failed(s) = "drop" -> Sends(s, "Stop", "dropping")
      [] Failed(s) = "keep" -> clients' = [clients EXCEPT ![s].st = "idle"] /\ UNCHANGED commands

\* wait_ready, wait_stopped and try_recv_ipv4.
Receive(s) ==
    LET p == clients[s].pid
    IN /\ clients[s].st \in {"wait_ready", "wait_stopped", "up"} /\ answers[p] # <<>>
       /\ answers' = [answers EXCEPT ![p] = Tail(@)]
       /\ LET e == Head(answers[p])
              st == clients[s].st
          IN CASE st = "wait_ready" /\ e = "Ready" -> clients' = [clients EXCEPT ![s].st = "up"] /\ UNCHANGED commands
               [] st = "wait_stopped" /\ e = "Stopped" -> clients' = [clients EXCEPT ![s].st = "idle"] /\ UNCHANGED commands
               [] e = "Packet" \/ (e = "Ready" /\ st # "wait_ready") -> UNCHANGED <<clients, commands>>
               [] OTHER -> Recovers(s)
       /\ UNCHANGED <<helper, System, Counters>>

\* The deadline passed, or the helper is gone and its pipe drained.
WaitFails(s) ==
    /\ clients[s].st \in {"wait_ready", "wait_stopped", "up"}
    /\ \/ clients[s].st # "up" /\ Mishap
       \/ ~Running(clients[s].pid) /\ answers[clients[s].pid] = <<>> /\ UNCHANGED mishaps
    /\ Recovers(s)
    /\ UNCHANGED <<helper, answers, System, sessions, edits>>

\* Drop: Stop is sent and the child killed at once; sudo does not let itself be killed.
DropKills(s) ==
    LET p == clients[s].pid
    IN /\ clients[s].st = "dropping"
       /\ \/ /\ helper' = [helper EXCEPT ![p].st = "dead"]
             /\ alive' = IF Running(p) THEN alive \ {p} ELSE alive
             /\ killed' = IF Running(p) THEN killed \cup {p} ELSE killed
             /\ clients' = [clients EXCEPT ![s] = NoClient]
          \/ /\ clients' = [clients EXCEPT ![s].st = "stopping"]
             /\ UNCHANGED <<helper, alive, killed>>
       /\ UNCHANGED <<commands, answers, files, Counters>>

\* stop(): the child has ended.
StopReturns(s) ==
    /\ clients[s].st = "stopping" /\ ~Running(clients[s].pid)
    /\ clients' = [clients EXCEPT ![s] = NoClient]
    /\ UNCHANGED <<helper, commands, answers, System, Counters>>

\* A shutdown between two sessions drops the retained helper.
Abandon(s) ==
    /\ clients[s].st = "idle"
    /\ Sends(s, "Stop", "dropping")
    /\ UNCHANGED <<helper, answers, System, Counters>>

\* The service process dies: the pipes close.
OwnerDies(s) ==
    /\ clients[s].st # "none" /\ Mishap
    /\ clients' = [clients EXCEPT ![s] = NoClient]
    /\ UNCHANGED <<helper, commands, answers, System, sessions, edits>>

-----------------------------------------------------------------------------
(* The helper process.                                                     *)

\* emit_tun_helper_event: a closed pipe ends the helper, which drops its context.
Emits(p, h, e) ==
    IF Connected(p)
    THEN /\ helper' = [helper EXCEPT ![p] = h]
         /\ answers' = [answers EXCEPT ![p] = Append(@, e)]
    ELSE /\ helper' = [helper EXCEPT ![p] = [h EXCEPT !.phase = "undo", !.then = "exit"]]
         /\ UNCHANGED answers

Takes(p, c) == /\ Running(p) /\ helper[p].phase = "idle" /\ commands[p] # <<>> /\ Head(commands[p]).op = c
               /\ commands' = [commands EXCEPT ![p] = Tail(@)]

HelperStart(p) ==
    /\ Takes(p, "Start")
    /\ \/ helper[p].ctx # 0 /\ Emits(p, helper[p], "Error") /\ UNCHANGED mishaps
       \/ helper[p].ctx = 0 /\ Mishap /\ Emits(p, helper[p], "Error")  \* device or routes
       \/ /\ helper[p].ctx = 0
          /\ helper' = [helper EXCEPT ![p].phase = "inspect", ![p].todo = Names,
                                      ![p].new = Head(commands[p]).session]
          /\ UNCHANGED <<answers, mishaps>>
    /\ UNCHANGED <<clients, System, sessions, edits>>

\* Fault: an installation that fails forgets the files it has written.
BugInstallFails(p) == [helper[p] EXCEPT !.phase = "undo", !.then = "Error", !.held = <<>>]

\* The guard built so far is dropped before the error is reported.
InstallFails(p) == [helper[p] EXCEPT !.phase = "undo", !.then = "Error"]

\* Fault: whoever wrote the file, it is taken for stale.
BugStale(n) == files[n].kind = "owned"

\* remove_stale_owned_macos_resolver
Stale(n) == files[n].kind = "owned" /\ files[n].pid \notin alive

Inspect(p) ==
    /\ Running(p) /\ helper[p].phase = "inspect" /\ helper[p].todo # <<>>
    /\ LET n == Head(helper[p].todo)
       IN IF files[n] = NoFile \/ Stale(n)
          THEN /\ files' = [files EXCEPT ![n] = NoFile]
               /\ helper' = [helper EXCEPT ![p].phase = "create"]
          ELSE helper' = [helper EXCEPT ![p] = InstallFails(p)] /\ UNCHANGED files
    /\ UNCHANGED <<clients, commands, answers, alive, killed, Counters>>

\* create_new
Create(p) ==
    /\ Running(p) /\ helper[p].phase = "create"
    /\ LET n == Head(helper[p].todo)
       IN IF files[n] = NoFile
          THEN /\ files' = [files EXCEPT ![n] = Empty(p)]
               /\ helper' = [helper EXCEPT ![p].phase = "write"]
          ELSE helper' = [helper EXCEPT ![p] = InstallFails(p)] /\ UNCHANGED files
    /\ UNCHANGED <<clients, commands, answers, alive, killed, Counters>>

Write(p) ==
    /\ Running(p) /\ helper[p].phase = "write"
    /\ LET n == Head(helper[p].todo)
       IN \/ /\ files' = [files EXCEPT ![n] = Owned(p)]
             /\ helper' = [helper EXCEPT ![p].phase = "inspect", ![p].todo = Tail(@), ![p].held = Append(@, n)]
             /\ UNCHANGED mishaps
          \/ /\ Mishap
             /\ files' = [files EXCEPT ![n] = NoFile]
             /\ helper' = [helper EXCEPT ![p] = InstallFails(p)]
    /\ UNCHANGED <<clients, commands, answers, alive, killed, sessions, edits>>

Installed(p) ==
    /\ Running(p) /\ helper[p].phase = "inspect" /\ helper[p].todo = <<>>
    /\ Emits(p, [helper[p] EXCEPT !.phase = "idle", !.ctx = helper[p].new, !.reader = TRUE], "Ready")
    /\ UNCHANGED <<clients, commands, System, Counters>>

HelperPacket(p) ==
    /\ Takes(p, "Packet")
    /\ \/ helper[p].ctx = 0 /\ Emits(p, helper[p], "Error") /\ UNCHANGED mishaps
       \/ helper[p].ctx # 0 /\ Mishap /\ Emits(p, helper[p], "Error")
       \/ helper[p].ctx # 0 /\ UNCHANGED <<helper, answers, mishaps>>
    /\ UNCHANGED <<clients, System, sessions, edits>>

\* The reader thread is joined, the context dropped, then the event is sent.
HelperEnds(p) ==
    /\ \E c \in {"Reset", "Stop"} :
          /\ Takes(p, c)
          /\ helper' = [helper EXCEPT ![p].phase = "undo", ![p].reader = FALSE,
                                      ![p].then = IF c = "Reset" THEN "Stopped" ELSE "exit"]
    /\ UNCHANGED <<clients, answers, System, Counters>>

HelperEof(p) ==
    /\ Running(p) /\ helper[p].phase = "idle" /\ commands[p] = <<>> /\ ~Connected(p)
    /\ helper' = [helper EXCEPT ![p].phase = "undo", ![p].reader = FALSE, ![p].then = "exit"]
    /\ UNCHANGED <<clients, commands, answers, System, Counters>>

\* Fault: the file at the path is removed whatever it says.
BugMine(p, n) == files[n] # NoFile

\* Only a file with the very contents this helper wrote.
Mine(p, n) == files[n] = Owned(p)

\* Drop of the guard, last file first.
Undo(p) ==
    /\ Running(p) /\ helper[p].phase = "undo" /\ helper[p].held # <<>>
    /\ LET n == helper[p].held[Len(helper[p].held)]
       IN /\ files' = IF Mine(p, n) THEN [files EXCEPT ![n] = NoFile] ELSE files
          /\ helper' = [helper EXCEPT ![p].held = SubSeq(@, 1, Len(@) - 1)]
    /\ UNCHANGED <<clients, commands, answers, alive, killed, Counters>>

Undone(p) ==
    /\ Running(p) /\ helper[p].phase = "undo" /\ helper[p].held = <<>>
    /\ LET h == [helper[p] EXCEPT !.phase = "idle", !.ctx = 0, !.then = "none", !.todo = <<>>, !.reader = FALSE]
       IN IF helper[p].then = "exit"
          THEN /\ helper' = [helper EXCEPT ![p] = [h EXCEPT !.st = "dead"]]
               /\ answers' = IF Connected(p) THEN [answers EXCEPT ![p] = Append(@, "Stopped")] ELSE answers
               /\ alive' = alive \ {p}
          ELSE Emits(p, h, helper[p].then) /\ UNCHANGED alive
    /\ UNCHANGED <<clients, commands, files, killed, Counters>>

\* The reader thread of the device: an IPv4 packet, or the error that ends it.
Reader(p) ==
    /\ Running(p) /\ helper[p].reader /\ Connected(p) /\ Len(answers[p]) < Queue
    /\ \/ answers' = [answers EXCEPT ![p] = Append(@, "Packet")] /\ UNCHANGED <<helper, mishaps>>
       \/ /\ Mishap
          /\ answers' = [answers EXCEPT ![p] = Append(@, "Error")]
          /\ helper' = [helper EXCEPT ![p].reader = FALSE]
    /\ UNCHANGED <<clients, commands, System, sessions, edits>>

HelperKilled(p) ==
    /\ Running(p) /\ Mishap
    /\ helper' = [helper EXCEPT ![p].st = "dead"]
    /\ alive' = alive \ {p} /\ killed' = killed \cup {p}
    /\ UNCHANGED <<clients, commands, answers, files, sessions, edits>>

-----------------------------------------------------------------------------
(* The rest of the machine.                                                *)

PidReused(p) ==
    /\ helper[p].st = "dead" /\ p \notin alive /\ Mishap
    /\ alive' = alive \cup {p}
    /\ UNCHANGED <<clients, helper, commands, answers, files, killed, sessions, edits>>

UserEdits(n) ==
    /\ edits < MaxEdits /\ edits' = edits + 1
    /\ \A p \in HelperPids : Running(p) => helper[p].phase \notin {"create", "write"}
    /\ files' = [files EXCEPT ![n] = UserFile]
    /\ UNCHANGED <<clients, helper, commands, answers, alive, killed, sessions, mishaps>>

ClientStep == \E s \in Clients : \/ Spawn(s) \/ StartAgain(s) \/ SendPacket(s) \/ LoopEnds(s) \/ Receive(s)
                                 \/ WaitFails(s) \/ DropKills(s) \/ StopReturns(s) \/ Abandon(s) \/ OwnerDies(s)
HelperStep == \E p \in HelperPids : \/ HelperStart(p) \/ Inspect(p) \/ Create(p) \/ Write(p) \/ Installed(p)
                                    \/ HelperPacket(p) \/ HelperEnds(p) \/ HelperEof(p) \/ Undo(p) \/ Undone(p)
                                    \/ Reader(p) \/ HelperKilled(p) \/ PidReused(p)

TunNext == ClientStep \/ HelperStep \/ \E n \in Paths : UserEdits(n)

TunSpec == TunInit /\ [][TunNext]_tunVars

-----------------------------------------------------------------------------
\* A service that went on after "Ready" has a helper with this session's address,
\* routes and DNS; late answers of an earlier start or reset never stand for it
\* (wait_ready, reset_session).
ReadyIsMine ==
    \A s \in Clients : clients[s].st = "up" /\ Running(clients[s].pid) =>
        /\ helper[clients[s].pid].ctx = clients[s].session
        /\ helper[clients[s].pid].phase = "idle"

\* While a session is up the split-DNS files are the ones its helper wrote, except
\* where the user put a file of their own; no other helper's clean-up takes them.
SplitDnsBacked ==
    \A s \in Clients : clients[s].st = "up" /\ Running(clients[s].pid) =>
        \A n \in Paths : files[n] \in {Owned(clients[s].pid), UserFile}

\* A helper that ends by itself, after Stop, a failed installation or the death of its
\* service, leaves no resolver file behind; only a killed one can.
NothingLeft ==
    \A n \in Paths : files[n].pid # 0 => Running(files[n].pid) \/ files[n].pid \in killed

\* "removed on disconnect only if their contents are still owned by that helper"
\* (docs/private-access-service.md): a file the user wrote is never touched.
KeepsUsersFile ==
    \A n \in Paths : files[n] = UserFile => files'[n] = UserFile

\* Together: what a helper sets up is its own session's, and is gone with it.
ServesItsSession ==
    /\ KeepsUsersFile
    /\ (ReadyIsMine /\ SplitDnsBacked /\ NothingLeft)'
HelperSound == [][ServesItsSession]_tunVars
=============================================================================
