---------------------------- MODULE NodeRuntimes ----------------------------
(***************************************************************************)
(* The node runtime manager (node_runtime_manager.rs): a JSON-RPC session  *)
(* over standard input in which every request runs in a thread of its own. *)
(* A runtime is an isolated sing-box below a supervisor process, with one  *)
(* selector that is moved from node to node; the client uses its proxy     *)
(* between two next requests.  The client may pipeline requests in any     *)
(* order and close its end at any moment.                                  *)
(***************************************************************************)
EXTENDS Naturals, FiniteSets

CONSTANTS MaxRuntimeId, \* runtimes ever created
          MaxRequests,  \* requests of the session
          MaxRuntimes,  \* max_runtimes of initialize
          NodeCount,    \* candidates of a runtime
          MaxDeaths     \* sing-box processes that die, commands they refuse

ASSUME RuntimeAssumption ==
    /\ MaxRuntimeId \in Nat /\ MaxRequests \in Nat /\ MaxRuntimes \in Nat
    /\ NodeCount \in Nat /\ MaxDeaths \in Nat

VARIABLES active,   \* ManagerState::runtimes
          rt,       \* the runtimes
          req,      \* the request threads
          session,  \* the stdio loop: "open", "closed" (EOF read), "exited", "failed"
          shutting, \* shutting_down
          deaths

nrVars == <<active, rt, req, session, shutting, deaths>>

Ids == 1..MaxRuntimeId
Requests == 1..MaxRequests
Block == 0   \* the block outbound, where a runtime starts

NoRuntime == [st |-> "none", child |-> "none", dir |-> FALSE, stdin |-> FALSE, cancelled |-> FALSE,
              inFlight |-> FALSE, lock |-> 0, cursor |-> 0, bound |-> Block, poisoned |-> FALSE,
              told |-> Block]
NoRequest == [method |-> "none", id |-> 0, pc |-> "none", node |-> Block, answer |-> "none"]

Runtimes == [st : {"none", "up", "down"}, child : {"none", "up", "dead"}, dir : BOOLEAN,
             stdin : BOOLEAN, cancelled : BOOLEAN, inFlight : BOOLEAN, lock : 0..MaxRequests,
             cursor : 0..NodeCount, bound : 0..NodeCount, poisoned : BOOLEAN, told : 0..NodeCount]
Threads == [method : {"none", "create", "next", "step", "close"}, id : 0..MaxRuntimeId,
            pc : {"none", "check", "start", "started", "insert", "drop", "enter", "begin", "scan",
                  "bind", "end", "remove", "shut", "done", "answered"},
            node : 0..NodeCount,
            answer : {"none", "ok", "error", "busy", "node", "unreachable", "end"}]

TypeOK == /\ active \subseteq Ids
          /\ rt \in [Ids -> Runtimes]
          /\ req \in [Requests -> Threads]
          /\ session \in {"open", "closed", "exited", "failed"}
          /\ shutting \in BOOLEAN
          /\ deaths \in 0..MaxDeaths

\* After initialize, which sets the environment once and gives the limit of runtimes.
Init == /\ active = {}
        /\ rt = [i \in Ids |-> NoRuntime]
        /\ req = [q \in Requests |-> NoRequest]
        /\ session = "open"
        /\ shutting = FALSE
        /\ deaths = 0

-----------------------------------------------------------------------------
At(q, pc) == req[q].pc = pc /\ session \in {"open", "closed"}
Goto(q, pc) == req' = [req EXCEPT ![q].pc = pc]
Answer(q, answer) == req' = [req EXCEPT ![q].pc = "done", ![q].answer = answer]
Pending == {q \in Requests : req[q].pc \notin {"none", "answered"}}
Same == UNCHANGED <<session, shutting>>

Strike == deaths < MaxDeaths /\ deaths' = deaths + 1

\* ensure_child_alive, and a command the controller of the child refuses.
Healthy(i) == rt[i].st = "up" /\ rt[i].child = "up"
Refused(i) == IF Healthy(i) THEN Strike ELSE UNCHANGED deaths

\* RuntimeResources::shutdown: standard input is closed, the supervisor ends its
\* child and is waited for, the directory is removed.
ShutDown(r) == [r EXCEPT !.st = "down", !.child = "dead", !.dir = FALSE, !.stdin = FALSE]

\* The random id of a runtime is known once its creation was answered.
Known(i) == \E p \in Requests : req[p].id = i /\ req[p].method = "create"
                                   /\ req[p].pc = "answered" /\ req[p].answer = "ok"
Unused(i) == \A p \in Requests : req[p].id # i

\* A request line is read and gets its thread.
Arrive(q, method, i) ==
    /\ session = "open" /\ req[q].pc = "none"
    /\ \A p \in Requests : p < q => req[p].pc # "none"
    /\ IF method = "create" THEN Unused(i) /\ \A j \in Ids : j < i => ~Unused(j) ELSE Known(i)
    /\ req' = [req EXCEPT ![q] = [NoRequest EXCEPT !.method = method, !.id = i,
                                                   !.pc = CASE method = "create" -> "check"
                                                            [] method = "close" -> "remove"
                                                            [] OTHER -> "enter"]]
    /\ UNCHANGED <<active, rt, deaths>> /\ Same

-----------------------------------------------------------------------------
(* create_runtime                                                          *)

CreateChecks(q) ==
    /\ At(q, "check")
    /\ IF shutting \/ Cardinality(active) >= MaxRuntimes THEN Answer(q, "error") ELSE Goto(q, "start")
    /\ UNCHANGED <<active, rt, deaths>> /\ Same

\* NodeRuntime::start: ports, directory, config, supervisor, first answer; an
\* attempt that fails has removed its process and directory again.
CreateStarts(q) ==
    /\ At(q, "start")
    /\ \/ /\ rt' = [rt EXCEPT ![req[q].id] = [NoRuntime EXCEPT !.st = "up", !.child = "up", !.dir = TRUE,
                                                               !.stdin = TRUE]]
          /\ Goto(q, "started") /\ UNCHANGED deaths
       \/ Strike /\ Answer(q, "error") /\ rt' = [rt EXCEPT ![req[q].id].st = "down"]
    /\ UNCHANGED active /\ Same

CreateStarted(q) ==
    /\ At(q, "started")
    /\ Goto(q, IF shutting THEN "drop" ELSE "insert")
    /\ UNCHANGED <<active, rt, deaths>> /\ Same

\* Fault: the limit is not looked at again after the start.
BugCreateInserts(q) ==
    /\ At(q, "insert")
    /\ active' = active \cup {req[q].id} /\ Answer(q, "ok")
    /\ UNCHANGED <<rt, deaths>> /\ Same

\* Other requests may have taken the last slot while sing-box was starting.
CreateInserts(q) ==
    /\ At(q, "insert")
    /\ IF Cardinality(active) >= MaxRuntimes THEN Goto(q, "drop") /\ UNCHANGED active
       ELSE active' = active \cup {req[q].id} /\ Answer(q, "ok")
    /\ UNCHANGED <<rt, deaths>> /\ Same

\* The runtime that was not inserted is dropped.
CreateDrops(q) ==
    /\ At(q, "drop")
    /\ rt' = [rt EXCEPT ![req[q].id] = ShutDown(rt[req[q].id])]
    /\ Answer(q, "error")
    /\ UNCHANGED <<active, deaths>> /\ Same

-----------------------------------------------------------------------------
(* next and next_step                                                      *)

\* Fault: the runtime is free again as soon as the last traversal has its result.
BugTraverseEnters(q) ==
    /\ At(q, "enter")
    /\ IF req[q].id \in active THEN Goto(q, "begin") ELSE Answer(q, "error")
    /\ UNCHANGED <<active, rt, deaths>> /\ Same

\* The handle is looked up; one traversal at a time per runtime.
TraverseEnters(q) ==
    LET i == req[q].id
    IN /\ At(q, "enter")
       /\ \/ i \notin active /\ Answer(q, "error") /\ UNCHANGED rt
          \/ i \in active /\ rt[i].inFlight /\ Answer(q, "busy") /\ UNCHANGED rt
          \/ /\ i \in active /\ ~rt[i].inFlight
             /\ rt' = [rt EXCEPT ![i].inFlight = TRUE] /\ Goto(q, "begin")
       /\ UNCHANGED <<active, deaths>> /\ Same

\* Fault: the failed traversal keeps the runtime.
BugFails(q, i, poisoned) ==
    /\ rt' = [rt EXCEPT ![i].poisoned = rt[i].poisoned \/ poisoned]
    /\ Answer(q, "error")

\* The traversal fails and gives the runtime back.
Fails(q, i, poisoned) ==
    /\ rt' = [rt EXCEPT ![i].lock = 0, ![i].poisoned = rt[i].poisoned \/ poisoned]
    /\ Answer(q, "error")

\* Under the runtime's mutex: the previous node is disconnected first.
TraverseBegins(q) ==
    LET i == req[q].id
    IN /\ At(q, "begin") /\ rt[i].lock = 0
       /\ \/ rt[i].poisoned /\ Fails(q, i, FALSE) /\ UNCHANGED deaths
          \/ ~rt[i].poisoned /\ Refused(i) /\ Fails(q, i, TRUE)
          \/ /\ ~rt[i].poisoned /\ Healthy(i)
             /\ rt' = [rt EXCEPT ![i].lock = q, ![i].bound = Block] /\ Goto(q, "scan")
             /\ UNCHANGED deaths
       /\ UNCHANGED active /\ Same

\* The next candidate: its delay is measured, with or without success.
TraverseScans(q) ==
    LET i == req[q].id
    IN /\ At(q, "scan")
       /\ \/ /\ rt[i].cursor = NodeCount
             /\ rt' = [rt EXCEPT ![i] = [ShutDown(rt[i]) EXCEPT !.lock = 0]]
             /\ Goto(q, "end") /\ UNCHANGED deaths
          \/ /\ rt[i].cursor < NodeCount /\ rt[i].cancelled
             /\ Fails(q, i, FALSE) /\ UNCHANGED deaths
          \/ /\ rt[i].cursor < NodeCount /\ ~rt[i].cancelled /\ Refused(i)
             /\ Fails(q, i, TRUE)
          \/ /\ rt[i].cursor < NodeCount /\ ~rt[i].cancelled /\ Healthy(i)
             /\ rt' = [rt EXCEPT ![i].cursor = rt[i].cursor + 1]
             /\ Goto(q, "bind") /\ UNCHANGED deaths
       /\ UNCHANGED active /\ Same

\* A reachable node is bound and reported; next goes on behind an unreachable
\* one, next_step reports it.
TraverseBinds(q) ==
    LET i == req[q].id
    IN /\ At(q, "bind")
       /\ \/ /\ Healthy(i)
             /\ rt' = [rt EXCEPT ![i].bound = rt[i].cursor, ![i].lock = 0]
             /\ req' = [req EXCEPT ![q].pc = "done", ![q].answer = "node", ![q].node = rt[i].cursor]
             /\ UNCHANGED deaths
          \/ /\ Healthy(i)
             /\ IF req[q].method = "next" THEN Goto(q, "scan") /\ UNCHANGED rt
                ELSE Answer(q, "unreachable") /\ rt' = [rt EXCEPT ![i].lock = 0]
             /\ UNCHANGED deaths
          \/ Refused(i) /\ Fails(q, i, TRUE)
       /\ UNCHANGED active /\ Same

TraverseEnds(q) ==
    /\ At(q, "end")
    /\ active' = active \ {req[q].id}
    /\ Answer(q, "end")
    /\ UNCHANGED <<rt, deaths>> /\ Same

-----------------------------------------------------------------------------
(* close_runtime                                                           *)

\* Out of the table, cancelled, and the supervisor told: a traversal that holds
\* the runtime fails soon.
CloseRemoves(q) ==
    LET i == req[q].id
    IN /\ At(q, "remove")
       /\ IF i \in active
          THEN /\ active' = active \ {i}
               /\ rt' = [rt EXCEPT ![i].cancelled = TRUE, ![i].stdin = FALSE]
               /\ Goto(q, "shut")
          ELSE Answer(q, "ok") /\ UNCHANGED <<active, rt>>
       /\ UNCHANGED deaths /\ Same

CloseShuts(q) ==
    LET i == req[q].id
    IN /\ At(q, "shut") /\ rt[i].lock = 0
       /\ rt' = [rt EXCEPT ![i] = ShutDown(rt[i])]
       /\ Answer(q, "ok")
       /\ UNCHANGED <<active, deaths>> /\ Same

-----------------------------------------------------------------------------
(* The stdio loop.                                                         *)

\* close_all after the last response.
Exits(last) == session = "closed" /\ Pending \subseteq {last}

\* complete_next after the response was written; not for a rejected request.
Completes(q) == req[q].method \in {"next", "step"} /\ req[q].answer # "busy"

\* The response of q is written: the client now uses the proxy of the runtime.
Respond(q) ==
    LET i == req[q].id
        told == [rt EXCEPT ![i].inFlight = rt[i].inFlight /\ ~(Completes(q) /\ i \in active),
                           ![i].told = IF req[q].answer = "node" THEN req[q].node
                                       ELSE IF Completes(q) THEN Block ELSE rt[i].told]
    IN /\ At(q, "done")
       /\ req' = [req EXCEPT ![q].pc = "answered", ![q].node = Block]
       /\ rt' = [j \in Ids |-> IF Exits(q) /\ j \in active THEN ShutDown(told[j]) ELSE told[j]]
       /\ active' = IF Exits(q) THEN {} ELSE active
       /\ session' = IF Exits(q) THEN "exited" ELSE session
       /\ UNCHANGED <<shutting, deaths>>

\* cancel_all: every runtime of the table is cancelled and its supervisor told.
Cancelled == [i \in Ids |-> IF i \in active THEN [rt[i] EXCEPT !.cancelled = TRUE, !.stdin = FALSE]
                            ELSE rt[i]]

\* Fault: the loop ends with the input, whatever is still running.
BugEof ==
    /\ session = "open"
    /\ shutting' = TRUE
    /\ rt' = [i \in Ids |-> IF i \in active THEN ShutDown(rt[i]) ELSE rt[i]]
    /\ active' = {} /\ session' = "exited"
    /\ UNCHANGED <<req, deaths>>

\* End of input: requests under way are still answered.
Eof ==
    /\ session = "open"
    /\ shutting' = TRUE
    /\ IF Pending = {}
       THEN /\ rt' = [i \in Ids |-> IF i \in active THEN ShutDown(Cancelled[i]) ELSE rt[i]]
            /\ active' = {} /\ session' = "exited"
       ELSE /\ rt' = Cancelled /\ session' = "closed" /\ UNCHANGED active
    /\ UNCHANGED <<req, deaths>>

\* A read error ends the process at once; its pipes close with it.
InputFails ==
    /\ session = "open" /\ Strike
    /\ session' = "failed" /\ shutting' = TRUE
    /\ rt' = [i \in Ids |-> [rt[i] EXCEPT !.stdin = FALSE]]
    /\ UNCHANGED <<active, req>>

\* run_child_supervisor: without its input the supervisor ends sing-box; or
\* sing-box dies by itself.
ChildEnds(i) ==
    /\ rt[i].child = "up"
    /\ IF rt[i].stdin THEN Strike ELSE UNCHANGED deaths
    /\ rt' = [rt EXCEPT ![i].child = "dead"]
    /\ UNCHANGED <<active, req>> /\ Same

-----------------------------------------------------------------------------
Step(q) == \/ CreateChecks(q) \/ CreateStarts(q) \/ CreateStarted(q) \/ CreateInserts(q) \/ CreateDrops(q)
           \/ TraverseEnters(q) \/ TraverseBegins(q) \/ TraverseScans(q) \/ TraverseBinds(q) \/ TraverseEnds(q)
           \/ CloseRemoves(q) \/ CloseShuts(q) \/ Respond(q)

NrNext == \/ \E q \in Requests, method \in {"create", "next", "step", "close"}, i \in Ids : Arrive(q, method, i)
          \/ \E q \in Requests : Step(q)
          \/ Eof \/ InputFails
          \/ \E i \in Ids : ChildEnds(i)

Spec == Init /\ [][NrNext]_nrVars

\* Threads and the supervisor go on.
FairSpec == /\ Spec
            /\ \A q \in Requests : WF_nrVars(Step(q))
            /\ \A i \in Ids : WF_nrVars(~rt[i].stdin /\ ChildEnds(i))

-----------------------------------------------------------------------------
(* Correctness.                                                            *)

\* After the client was told a node and before it asks for the next one, the
\* proxy leads to that node: a pipelined request never moves it on, and not
\* before the answer to the earlier one was written either.
ProxyIsAsTold ==
    /\ \A q \in Requests : At(q, "done") /\ req[q].answer = "node" => rt[req[q].id].bound = req[q].node
    /\ \A i \in Ids : rt[i].told # Block /\ (\A q \in Pending : req[q].id = i => req[q].method = "close")
                         => rt[i].bound = rt[i].told

\* Concurrent creations never fill more than the slots there are.
RuntimeLimit == Cardinality(active) <= MaxRuntimes

\* When the manager has ended in order, no sing-box and no directory is left;
\* a runtime that nobody can reach any more has been shut down.
NothingLeft ==
    /\ session = "exited" => \A i \in Ids : rt[i].child # "up" /\ ~rt[i].dir
    /\ \A i \in Ids : rt[i].dir /\ session \in {"open", "closed"} =>
          i \in active \/ \E q \in Pending : req[q].id = i /\ req[q].pc # "done"

\* Together: runtimes are used as told, within their limit, and cleared away.
RuntimesSound == TypeOK /\ ProxyIsAsTold /\ RuntimeLimit /\ NothingLeft

\* After the end of input every request is answered and the manager ends.
SessionEnds == session = "closed" ~> session = "exited"
=============================================================================
