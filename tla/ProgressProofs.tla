--------------------------- MODULE ProgressProofs ---------------------------
(* Proofs about what has to come to an end: the sessions of the node runtime *)
(* manager, subscription refreshes with the reload they owe, and executable  *)
(* usability probes.  That they do end is left to TLC; here is what they     *)
(* keep on the way, for all values of the constants.                         *)
EXTENDS NodeRuntimes, SubscriptionRefresh, ProbeProgram, FiniteSetTheorems, SequenceTheorems, TLAPS

-----------------------------------------------------------------------------
(* Runtimes are used as told, stay within their limit and are cleared away,  *)
(* for every number of requests, runtimes, nodes, slots and deaths.          *)
(*                                                                           *)
(* The threads share only the table of runtimes.  A runtime's id becomes     *)
(* known with the answer to its creation, so a traversal or a close never    *)
(* meets a creation under way; and a traversal holds the in-flight mark from *)
(* its entry until its response is written, so no other one of that runtime  *)
(* moves the proxy in between.                                               *)

(* Which steps a request takes, by its method.                               *)
ThreadShape(q) ==
    /\ req[q].pc # "none" => req[q].id \in Ids
    /\ req[q].pc \in {"check", "start", "started", "insert", "drop"} => req[q].method = "create"
    /\ req[q].pc \in {"enter", "begin", "scan", "bind", "end"} => req[q].method \in {"next", "step"}
    /\ req[q].pc \in {"remove", "shut"} => req[q].method = "close"
    /\ req[q].answer \in {"busy", "node", "unreachable", "end"} => req[q].method \in {"next", "step"}

(* A runtime is created once; the others ask for what was created.           *)
Creator(q) == req[q].method = "create"
User(q) == req[q].method \in {"next", "step", "close"}
Served(q) == Known(req[q].id)
ThreadInv == /\ \A q \in Requests : ThreadShape(q)
             /\ \A p, q \in Requests : Creator(p) /\ Creator(q) /\ req[p].id = req[q].id => p = q
             /\ \A q \in Requests : User(q) => Served(q)

(* A traversal from its entry until its response is written; until it fails, *)
(* it owns the runtime, in the table or not.                                 *)
Holder(q) == /\ req[q].method \in {"next", "step"}
             /\ \/ req[q].pc \in {"begin", "scan", "bind", "end"}
                \/ req[q].pc = "done" /\ req[q].answer # "busy"
Owner(q) == \/ req[q].pc \in {"begin", "scan", "bind", "end"}
            \/ req[q].pc = "done" /\ req[q].answer \in {"node", "unreachable", "end"}
FlightInv ==
    /\ \A q \in Requests : Holder(q) /\ req[q].id \in active => rt[req[q].id].inFlight
    /\ \A p, q \in Requests : Holder(p) /\ Holder(q) /\ req[p].id = req[q].id /\ req[p].id \in active => p = q
    /\ \A p, q \in Requests : Owner(p) /\ Owner(q) /\ req[p].id = req[q].id => p = q

(* What was answered, and what the client was told, is where the proxy leads *)
(* to, but for a traversal that asks for another node.                       *)
Telling(q) == req[q].pc = "done" /\ req[q].answer = "node"
ToldInv ==
    /\ \A q \in Requests : Telling(q) => rt[req[q].id].bound = req[q].node
    /\ \A i \in Ids : rt[i].told # Block =>
          rt[i].bound = rt[i].told \/ \E q \in Requests : req[q].id = i /\ Holder(q)

(* A running sing-box or a directory has a place in the table or a thread    *)
(* that will give it one or clear it away.                                   *)
Keeper(q) == req[q].pc \in {"started", "insert", "drop", "shut"}
Left(i) == rt[i].dir \/ rt[i].child = "up"
Cleared(q) == ~Left(req[q].id)
LeftInv ==
    /\ session = "exited" => \A i \in Ids : ~Left(i)
    /\ \A i \in Ids : Left(i) => i \in active \/ \E q \in Requests : req[q].id = i /\ Keeper(q)
    /\ \A q \in Requests : req[q].pc = "end" => Cleared(q)

NrInv == TypeOK /\ ThreadInv /\ FlightInv /\ ToldInv /\ LeftInv /\ RuntimeLimit

-----------------------------------------------------------------------------
(* What a step says of the thread q that takes it and of its runtime i.      *)

Pcs == {"none", "check", "start", "started", "insert", "drop", "enter", "begin", "scan",
        "bind", "end", "remove", "shut", "done", "answered"}
Answers == {"none", "ok", "error", "busy", "node", "unreachable", "end"}

ThreadTo(q, goal, answer, node) ==
    /\ req' \in [Requests -> Threads]
    /\ \A p \in Requests : p # q => req'[p] = req[p]
    /\ req'[q].method = req[q].method /\ req'[q].id = req[q].id
    /\ req'[q].pc = goal /\ req'[q].answer = answer /\ req'[q].node = node

OneRuntime(i) == /\ rt' \in [Ids -> Runtimes]
                 /\ \A j \in Ids : j # i => rt'[j] = rt[j]

(* No other traversal is under way on the runtime of q.                      *)
Alone(q) == \A p \in Requests : p # q /\ Holder(p) => req[p].id # req[q].id

LEMMA GotoTo ==
    ASSUME TypeOK, NEW q \in Requests, NEW goal \in Pcs, Goto(q, goal)
    PROVE  ThreadTo(q, goal, req[q].answer, req[q].node)
BY DEF TypeOK, Goto, ThreadTo, Threads, Pcs

LEMMA AnswerTo ==
    ASSUME TypeOK, NEW q \in Requests, NEW answer \in Answers, Answer(q, answer)
    PROVE  ThreadTo(q, "done", answer, req[q].node)
<1> PICK was \in Threads : was = req[q]
  BY DEF TypeOK
<1>a. [was EXCEPT !.pc = "done", !.answer = answer] \in Threads
  BY ZenonT(40) DEF Threads, Answers
<1>b. PICK r \in Threads : r = [was EXCEPT !.pc = "done", !.answer = answer]
  BY <1>a
<1>c. r.method = was.method /\ r.id = was.id /\ r.pc = "done" /\ r.answer = answer /\ r.node = was.node
  BY <1>b DEF Threads
<1>d. req' = [req EXCEPT ![q] = r]
  BY <1>b DEF TypeOK, Answer
<1> QED BY <1>c, <1>d DEF ThreadTo, TypeOK

LEMMA ThreadTyped ==
    ASSUME NEW q, NEW goal, NEW answer, NEW node, ThreadTo(q, goal, answer, node)
    PROVE  req' \in [Requests -> Threads]
BY DEF ThreadTo

(* Threads: requests keep their method and id, and what is known stays so.   *)
LEMMA ThreadKept ==
    ASSUME TypeOK, ThreadInv, NEW q \in Requests, NEW goal, NEW answer, NEW node,
           ThreadTo(q, goal, answer, node), req[q].pc # "answered", ThreadShape(q)'
    PROVE  ThreadInv'
<1>1. \A p \in Requests : ThreadShape(p)'
  BY DEF ThreadInv, ThreadShape, ThreadTo
<1>2. \A p \in Requests : Creator(p)' <=> Creator(p)
  BY DEF Creator, ThreadTo
<1>3. \A p \in Requests : req'[p].id = req[p].id
  BY DEF ThreadTo
<1>4. \A p, r \in Requests : Creator(p)' /\ Creator(r)' /\ req'[p].id = req'[r].id => p = r
  BY <1>2, <1>3 DEF ThreadInv
<1>5. \A p \in Requests : User(p)' => User(p)
  BY DEF User, ThreadTo
<1>7. \A p \in Requests : User(p)' => Served(p)'
  <2> SUFFICES ASSUME NEW p \in Requests, User(p)' PROVE Served(p)'
    OBVIOUS
  <2>1. Known(req[p].id)
    BY <1>5 DEF ThreadInv, Served
  <2> QED BY <2>1, <1>3 DEF Served, Known, ThreadTo
<1> QED BY <1>1, <1>4, <1>7 DEF ThreadInv

(* Who owns a runtime holds it.                                              *)
LEMMA OwnerHolds ==
    ASSUME ThreadInv, NEW p \in Requests, Owner(p) PROVE Holder(p)
BY DEF ThreadInv, ThreadShape, Owner, Holder

(* Nobody uses a runtime whose creation has not been answered.               *)
LEMMA CreatorAlone ==
    ASSUME ThreadInv, NEW q \in Requests, Creator(q), req[q].pc # "answered"
    PROVE  /\ Alone(q)
           /\ \A p \in Requests : User(p) => req[p].id # req[q].id
<1>1. \A p \in Requests : User(p) => req[p].id # req[q].id
  BY DEF ThreadInv, Served, Known, Creator
<1>2. \A p \in Requests : Holder(p) => User(p)
  BY DEF Holder, User
<1> QED BY <1>1, <1>2 DEF Alone

(* The in-flight mark.                                                       *)
LEMMA FlightKept ==
    ASSUME TypeOK, ThreadInv, FlightInv,
           NEW q \in Requests, NEW goal, NEW answer, NEW node, ThreadTo(q, goal, answer, node),
           NEW i, i = req[q].id,
           \A j \in Ids : j # i /\ j \in active' => j \in active /\ rt'[j].inFlight = rt[j].inFlight,
           active' \subseteq Ids,
           Holder(q)' /\ i \in active' => rt'[i].inFlight,
           i \in active' => \/ Alone(q)
                            \/ /\ i \in active /\ (rt[i].inFlight => rt'[i].inFlight)
                               /\ Holder(q)' => Holder(q),
           Owner(q)' => Owner(q) \/ Alone(q)
    PROVE  FlightInv'
<1>0. \A p \in Requests : p # q => /\ req'[p].id = req[p].id
                                   /\ Holder(p)' <=> Holder(p)
                                   /\ Owner(p)' <=> Owner(p)
  BY DEF ThreadTo, Holder, Owner
<1>1. req'[q].id = i
  BY DEF ThreadTo
<1>2. \A p \in Requests : Owner(p) => Holder(p)
  BY OwnerHolds
<1>3. ASSUME NEW p \in Requests, Holder(p)', req'[p].id \in active' PROVE rt'[req'[p].id].inFlight
  <2>1. CASE p = q BY <2>1, <1>1, <1>3
  <2>2. CASE p # q /\ req[p].id = i BY <2>2, <1>0, <1>3 DEF FlightInv, Alone
  <2>3. CASE p # q /\ req[p].id # i BY <2>3, <1>0, <1>3 DEF FlightInv
  <2> QED BY <2>1, <2>2, <2>3
<1>4. ASSUME NEW p \in Requests, p # q, Holder(p)', Holder(q)', req'[p].id = i, i \in active' PROVE FALSE
  BY <1>0, <1>4 DEF FlightInv, Alone
<1>5. ASSUME NEW p \in Requests, NEW r \in Requests, p # q, r # q, p # r,
             Holder(p)', Holder(r)', req'[p].id = req'[r].id, req'[p].id \in active'
      PROVE  FALSE
  BY <1>0, <1>5 DEF FlightInv, Alone
<1>6. \A p, r \in Requests : Holder(p)' /\ Holder(r)' /\ req'[p].id = req'[r].id /\ req'[p].id \in active' => p = r
  BY <1>1, <1>4, <1>5
<1>7. ASSUME NEW p \in Requests, NEW r \in Requests, p # r, r # q,
             Owner(p)', Owner(r)', req'[p].id = req'[r].id
      PROVE  FALSE
  <2>1. Owner(r) /\ Holder(r)
    BY <1>0, <1>2, <1>7
  <2>2. CASE p = q BY <2>1, <2>2, <1>0, <1>1, <1>7 DEF FlightInv, Alone
  <2>3. CASE p # q BY <2>1, <2>3, <1>0, <1>7 DEF FlightInv
  <2> QED BY <2>2, <2>3
<1>8. \A p, r \in Requests : Owner(p)' /\ Owner(r)' /\ req'[p].id = req'[r].id => p = r
  BY <1>7
<1> QED BY <1>3, <1>6, <1>8 DEF FlightInv

(* What the client is told.                                                  *)
LEMMA ToldKept ==
    ASSUME TypeOK, ThreadInv, ToldInv,
           NEW q \in Requests, NEW goal, NEW answer, NEW node, ThreadTo(q, goal, answer, node),
           NEW i \in Ids, i = req[q].id,
           \A j \in Ids : j # i => rt'[j].bound = rt[j].bound /\ rt'[j].told = rt[j].told,
           Telling(q)' => rt'[i].bound = node,
           \/ rt'[i].bound = rt[i].bound
           \/ \A p \in Requests : p # q /\ Telling(p) => req[p].id # i,
           \/ rt'[i].told = Block
           \/ rt'[i].bound = rt'[i].told
           \/ Holder(q)'
           \/ rt'[i].bound = rt[i].bound /\ rt'[i].told = rt[i].told /\ ~Holder(q)
    PROVE  ToldInv'
<1>0. \A p \in Requests : p # q => /\ req'[p] = req[p]
                                   /\ Holder(p)' <=> Holder(p)
                                   /\ Telling(p)' <=> Telling(p)
  BY DEF ThreadTo, Holder, Telling
<1>1. req'[q].id = i /\ req'[q].node = node
  BY DEF ThreadTo
<1>2. \A p \in Requests : Telling(p) => req[p].id \in Ids
  BY DEF ThreadInv, ThreadShape, Telling
<1>3. ASSUME NEW p \in Requests, Telling(p)' PROVE rt'[req'[p].id].bound = req'[p].node
  <2>1. CASE p = q BY <2>1, <1>1, <1>3
  <2>2. CASE p # q /\ req[p].id = i BY <2>2, <1>0, <1>3 DEF ToldInv
  <2>3. CASE p # q /\ req[p].id # i BY <2>3, <1>0, <1>2, <1>3 DEF ToldInv
  <2> QED BY <2>1, <2>2, <2>3
<1>4. ASSUME NEW j \in Ids, rt'[j].told # Block
      PROVE  rt'[j].bound = rt'[j].told \/ \E p \in Requests : req'[p].id = j /\ Holder(p)'
  <2>1. CASE j = i
    <3>1. CASE rt'[i].bound = rt[i].bound /\ rt'[i].told = rt[i].told /\ ~Holder(q)
      BY <2>1, <3>1, <1>0, <1>4 DEF ToldInv
    <3>2. CASE rt'[i].bound = rt'[i].told \/ Holder(q)'
      BY <2>1, <3>2, <1>1
    <3> QED BY <2>1, <3>1, <3>2, <1>4
  <2>2. CASE j # i
    <3>1. rt[j].bound = rt[j].told \/ \E p \in Requests : req[p].id = j /\ Holder(p)
      BY <2>2, <1>4 DEF ToldInv
    <3> QED BY <2>2, <3>1, <1>0
  <2> QED BY <2>1, <2>2
<1> QED BY <1>3, <1>4 DEF ToldInv

(* What is left of runtimes.                                                 *)
LEMMA LeftKept ==
    ASSUME TypeOK, ThreadInv, LeftInv,
           NEW q \in Requests, NEW goal, NEW answer, NEW node, ThreadTo(q, goal, answer, node),
           NEW i \in Ids, i = req[q].id, session' # "exited",
           \A j \in Ids : j # i => /\ Left(j)' => Left(j)
                                   /\ Left(j)' /\ j \in active => j \in active',
           \/ ~Left(i)'
           \/ i \in active' \/ Keeper(q)'
           \/ Left(i) /\ ~Keeper(q) /\ i \notin active,
           goal = "end" => ~Left(i)',
           \/ Left(i)' => Left(i)
           \/ \A p \in Requests : p # q /\ req[p].pc = "end" => req[p].id # i
    PROVE  LeftInv'
<1>0. \A p \in Requests : p # q => req'[p] = req[p] /\ (Keeper(p)' <=> Keeper(p))
  BY DEF ThreadTo, Keeper
<1>1. req'[q].id = i /\ req'[q].pc = goal
  BY DEF ThreadTo
<1>2. \A p \in Requests : req[p].pc = "end" => req[p].id \in Ids
  BY DEF ThreadInv, ThreadShape
<1>3. ASSUME NEW j \in Ids, Left(j)' PROVE j \in active' \/ \E p \in Requests : req'[p].id = j /\ Keeper(p)'
  <2>1. CASE j = i
    <3>1. CASE i \in active' \/ Keeper(q)'
      BY <2>1, <3>1, <1>1
    <3>2. CASE Left(i) /\ ~Keeper(q) /\ i \notin active
      BY <2>1, <3>2, <1>0 DEF LeftInv
    <3> QED BY <2>1, <3>1, <3>2, <1>3
  <2>2. CASE j # i
    <3>1. j \in active \/ \E p \in Requests : req[p].id = j /\ Keeper(p)
      BY <2>2, <1>3 DEF LeftInv
    <3> QED BY <2>2, <3>1, <1>0, <1>3
  <2> QED BY <2>1, <2>2
<1>4. ASSUME NEW p \in Requests, req'[p].pc = "end" PROVE Cleared(p)'
  <2>1. CASE p = q
    BY <2>1, <1>1, <1>4 DEF Cleared, Left
  <2>2. CASE p # q
    <3>1. req[p].pc = "end" /\ Cleared(p) /\ req'[p].id = req[p].id /\ req[p].id \in Ids
      BY <2>2, <1>0, <1>2, <1>4 DEF LeftInv
    <3>2. CASE req[p].id = i BY <2>2, <3>1, <3>2 DEF Cleared, Left
    <3>3. CASE req[p].id # i BY <2>2, <3>1, <3>3 DEF Cleared, Left
    <3> QED BY <3>2, <3>3
  <2> QED BY <2>1, <2>2
<1> QED BY <1>3, <1>4 DEF LeftInv

-----------------------------------------------------------------------------
(* Steps of a thread that leave the table alone, and steps of the traversal  *)
(* that owns a runtime.                                                      *)

LEMMA IdTyped ==
    ASSUME NrInv, NEW q \in Requests, req[q].pc # "none"
    PROVE  req[q].id \in Ids
BY DEF NrInv, ThreadInv, ThreadShape

LEMMA QuietStep ==
    ASSUME NrInv, NEW q \in Requests, NEW goal, NEW answer, ThreadTo(q, goal, answer, req[q].node),
           rt' = rt, active' = active, deaths' = deaths, Same, session # "exited",
           req[q].pc \notin {"none", "answered"}, ThreadShape(q)',
           Holder(q)' /\ req[q].id \in active => Holder(q),
           Owner(q)' => Owner(q), ~Telling(q)', Holder(q) => Holder(q)',
           Keeper(q) => Keeper(q)', goal # "end"
    PROVE  NrInv'
<1> PICK i \in Ids : i = req[q].id BY IdTyped
<1>1. /\ TypeOK /\ ThreadInv /\ FlightInv /\ ToldInv /\ LeftInv /\ RuntimeLimit
      /\ req' \in [Requests -> Threads] /\ active \subseteq Ids
  BY DEF NrInv, TypeOK, ThreadTo
<1>2. TypeOK'
  BY <1>1 DEF TypeOK, Same
<1>3. ThreadInv'
  BY <1>1, ThreadKept
<1>4. FlightInv'
  <2>1. Holder(q)' /\ i \in active' => rt'[i].inFlight
    BY <1>1 DEF FlightInv
  <2>2. i \in active' => /\ i \in active /\ (rt[i].inFlight => rt'[i].inFlight)
                         /\ Holder(q)' => Holder(q)
    OBVIOUS
  <2> QED BY <1>1, <2>1, <2>2, FlightKept
<1>5. ToldInv'
  BY <1>1, ToldKept
<1>6. LeftInv'
  <2>1. \A j \in Ids : Left(j)' <=> Left(j)
    BY DEF Left
  <2>2. \/ ~Left(i)'
        \/ i \in active' \/ Keeper(q)'
        \/ Left(i) /\ ~Keeper(q) /\ i \notin active
    BY <2>1
  <2> QED BY <1>1, <2>1, <2>2, LeftKept DEF Same
<1>7. RuntimeLimit'
  BY <1>1 DEF RuntimeLimit
<1> QED BY <1>2, <1>3, <1>4, <1>5, <1>6, <1>7 DEF NrInv

LEMMA OwnedStep ==
    ASSUME NrInv, NEW q \in Requests, NEW i, i = req[q].id,
           NEW goal, NEW answer, NEW node, ThreadTo(q, goal, answer, node), OneRuntime(i),
           active' = active, deaths' \in 0..MaxDeaths, Same, session # "exited",
           req[q].pc \in {"begin", "scan", "bind"},
           \/ goal \in {"scan", "bind"} /\ answer = req[q].answer
           \/ goal = "end" /\ answer = req[q].answer /\ ~Left(i)'
           \/ goal = "done" /\ answer \in {"error", "unreachable"}
           \/ goal = "done" /\ answer = "node" /\ rt'[i].bound = node,
           rt'[i].inFlight = rt[i].inFlight, rt'[i].told = rt[i].told, Left(i)' => Left(i)
    PROVE  NrInv'
<1>0. i \in Ids BY IdTyped
<1>1. /\ TypeOK /\ ThreadInv /\ FlightInv /\ ToldInv /\ LeftInv /\ RuntimeLimit
      /\ req' \in [Requests -> Threads] /\ active' \subseteq Ids /\ rt' \in [Ids -> Runtimes]
      /\ \A j \in Ids : j # i => rt'[j] = rt[j]
  BY DEF NrInv, TypeOK, ThreadTo, OneRuntime
<1>2. TypeOK'
  BY <1>1 DEF TypeOK, Same
<1>s. req[q].method \in {"next", "step"}
  BY <1>1 DEF ThreadInv, ThreadShape
<1>3. ThreadInv'
  <2>1. ThreadShape(q)'
    BY <1>0, <1>s DEF ThreadTo, ThreadShape
  <2> QED BY <1>1, <2>1, ThreadKept
<1>h. Holder(q) /\ Holder(q)' /\ Owner(q)
  BY <1>s DEF Holder, Owner, ThreadTo
<1>4. FlightInv'
  <2>1. Holder(q)' /\ i \in active' => rt'[i].inFlight
    BY <1>1, <1>h DEF FlightInv
  <2>2. i \in active' => /\ i \in active /\ (rt[i].inFlight => rt'[i].inFlight)
                         /\ Holder(q)' => Holder(q)
    BY <1>h
  <2> QED BY <1>1, <1>h, <2>1, <2>2, FlightKept
<1>5. ToldInv'
  <2>1. Telling(q)' => rt'[i].bound = node
    BY DEF Telling, ThreadTo
  <2>2. ASSUME NEW p \in Requests, p # q, Telling(p), req[p].id = i PROVE FALSE
    <3>1. Owner(p) BY <2>2 DEF Telling, Owner
    <3> QED BY <1>1, <1>h, <2>2, <3>1 DEF FlightInv
  <2> QED BY <1>0, <1>1, <1>h, <2>1, <2>2, ToldKept
<1>6. LeftInv'
  <2>1. \A j \in Ids : j # i => (Left(j)' <=> Left(j))
    BY <1>1 DEF Left
  <2>2. ~Keeper(q)
    BY DEF Keeper
  <2>3. \/ ~Left(i)'
        \/ i \in active' \/ Keeper(q)'
        \/ Left(i) /\ ~Keeper(q) /\ i \notin active
    BY <2>2
  <2>4. goal = "end" => ~Left(i)'
    OBVIOUS
  <2> QED BY <1>0, <1>1, <2>1, <2>3, <2>4, LeftKept DEF Same
<1>7. RuntimeLimit'
  BY <1>1 DEF RuntimeLimit
<1> QED BY <1>2, <1>3, <1>4, <1>5, <1>6, <1>7 DEF NrInv

LEMMA FiniteActive ==
    ASSUME TypeOK PROVE IsFiniteSet(active) /\ Cardinality(active) \in Nat
<1>1. IsFiniteSet(Ids)
  BY FS_Interval, RuntimeAssumption DEF Ids
<1> QED BY <1>1, FS_Subset, FS_CardinalityType DEF TypeOK

LEMMA Strikes ==
    ASSUME TypeOK, Strike \/ deaths' = deaths PROVE deaths' \in 0..MaxDeaths
BY RuntimeAssumption DEF TypeOK, Strike

-----------------------------------------------------------------------------
(* create_runtime                                                            *)

LEMMA CreateChecksKept ==
    ASSUME NrInv, NEW q \in Requests, CreateChecks(q) PROVE NrInv'
<1>1. /\ req[q].pc = "check" /\ session # "exited" /\ rt' = rt /\ active' = active
      /\ deaths' = deaths /\ Same /\ TypeOK /\ ThreadShape(q)
  BY DEF CreateChecks, At, NrInv, ThreadInv
<1>2. ~Holder(q) /\ ~Owner(q) /\ ~Keeper(q)
  BY <1>1 DEF Holder, Owner, Keeper
<1>3. CASE Answer(q, "error")
  <2>1. ThreadTo(q, "done", "error", req[q].node)
    BY <1>1, <1>3, AnswerTo DEF Answers
  <2>2. ThreadShape(q)' /\ ~Holder(q)' /\ ~Owner(q)' /\ ~Telling(q)'
    BY <1>1, <2>1 DEF ThreadTo, ThreadShape, Holder, Owner, Telling
  <2> QED BY <1>1, <1>2, <2>1, <2>2, QuietStep
<1>4. CASE Goto(q, "start")
  <2>1. ThreadTo(q, "start", req[q].answer, req[q].node)
    BY <1>1, <1>4, GotoTo DEF Pcs
  <2>2. ThreadShape(q)' /\ ~Holder(q)' /\ ~Owner(q)' /\ ~Telling(q)'
    BY <1>1, <2>1 DEF ThreadTo, ThreadShape, Holder, Owner, Telling
  <2> QED BY <1>1, <1>2, <2>1, <2>2, QuietStep
<1> QED BY <1>3, <1>4 DEF CreateChecks

LEMMA CreateStartedKept ==
    ASSUME NrInv, NEW q \in Requests, CreateStarted(q) PROVE NrInv'
<1>1. /\ req[q].pc = "started" /\ session # "exited" /\ rt' = rt /\ active' = active
      /\ deaths' = deaths /\ Same /\ TypeOK /\ ThreadShape(q)
  BY DEF CreateStarted, At, NrInv, ThreadInv
<1> PICK goal \in {"drop", "insert"} : Goto(q, goal)
  BY DEF CreateStarted
<1>2. ~Holder(q) /\ ~Owner(q)
  BY <1>1 DEF Holder, Owner
<1>3. ThreadTo(q, goal, req[q].answer, req[q].node)
  BY <1>1, GotoTo DEF Pcs
<1>4. ThreadShape(q)' /\ ~Holder(q)' /\ ~Owner(q)' /\ ~Telling(q)' /\ Keeper(q)'
  BY <1>1, <1>3 DEF ThreadTo, ThreadShape, Holder, Owner, Telling, Keeper
<1> QED BY <1>1, <1>2, <1>3, <1>4, QuietStep

(* The steps of a creation that change the table: nobody else uses that      *)
(* runtime yet.                                                              *)
LEMMA CreationStep ==
    ASSUME NrInv, NEW q \in Requests, NEW i, i = req[q].id,
           NEW goal, NEW answer, ThreadTo(q, goal, answer, req[q].node), OneRuntime(i),
           active' \subseteq Ids, active' = active \/ active' = active \cup {i}, RuntimeLimit',
           deaths' \in 0..MaxDeaths, Same, session # "exited",
           req[q].pc \in {"start", "insert", "drop"},
           \/ goal = "started" /\ answer = req[q].answer
           \/ goal = "done" /\ answer \in {"ok", "error"},
           \/ rt'[i].told = Block
           \/ rt'[i].bound = rt[i].bound /\ rt'[i].told = rt[i].told,
           \/ ~Left(i)'
           \/ i \in active' \/ goal = "started"
           \/ Left(i) /\ req[q].pc = "start"
    PROVE  NrInv'
<1>0. i \in Ids BY IdTyped
<1>1. /\ TypeOK /\ ThreadInv /\ FlightInv /\ ToldInv /\ LeftInv
      /\ req' \in [Requests -> Threads] /\ rt' \in [Ids -> Runtimes]
      /\ \A j \in Ids : j # i => rt'[j] = rt[j] /\ (j \in active <=> j \in active')
      /\ active \subseteq active'
  BY DEF NrInv, TypeOK, ThreadTo, OneRuntime
<1>2. TypeOK'
  BY <1>1 DEF TypeOK, Same
<1>s. Creator(q)
  BY <1>1 DEF ThreadInv, ThreadShape, Creator
<1>h. ~Holder(q)' /\ ~Owner(q)' /\ ~Holder(q) /\ ~Telling(q)'
  BY <1>s DEF Holder, Owner, ThreadTo, Creator, Telling
<1>a. /\ Alone(q)
      /\ \A p \in Requests : User(p) => req[p].id # i
  BY <1>1, <1>s, CreatorAlone
<1>3. ThreadInv'
  <2>1. ThreadShape(q)'
    BY <1>0, <1>1, <1>s DEF ThreadTo, ThreadShape, ThreadInv, Creator
  <2> QED BY <1>1, <2>1, ThreadKept
<1>4. FlightInv'
  BY <1>1, <1>h, <1>a, FlightKept
<1>5. ToldInv'
  <2>1. \A p \in Requests : p # q /\ Telling(p) => req[p].id # i
    BY <1>1, <1>a DEF Telling, ThreadInv, ThreadShape, User
  <2> QED BY <1>0, <1>1, <1>h, <2>1, ToldKept
<1>6. LeftInv'
  <2>1. \A j \in Ids : j # i => /\ Left(j)' => Left(j)
                                /\ Left(j)' /\ j \in active => j \in active'
    BY <1>1 DEF Left
  <2>2. goal = "started" => Keeper(q)'
    BY DEF Keeper, ThreadTo
  <2>3. req[q].pc = "start" => ~Keeper(q)
    BY DEF Keeper
  <2>4. \/ ~Left(i)'
        \/ i \in active' \/ Keeper(q)'
        \/ Left(i) /\ ~Keeper(q) /\ i \notin active
    BY <1>1, <2>2, <2>3
  <2>5. \A p \in Requests : p # q /\ req[p].pc = "end" => req[p].id # i
    BY <1>1, <1>a DEF ThreadInv, ThreadShape, User
  <2>6. goal # "end" /\ session' # "exited"
    BY DEF Same
  <2> QED BY <1>0, <1>1, <2>1, <2>4, <2>5, <2>6, LeftKept
<1> QED BY <1>2, <1>3, <1>4, <1>5, <1>6 DEF NrInv

LEMMA NoRuntimeTyped == NoRuntime \in Runtimes
<1>1. 0 \in 0..MaxRequests /\ 0 \in 0..NodeCount
  BY RuntimeAssumption
<1> QED BY <1>1 DEF NoRuntime, Runtimes, Block

LEMMA CreateStartsKept ==
    ASSUME NrInv, NEW q \in Requests, CreateStarts(q) PROVE NrInv'
<1> PICK i \in Ids : i = req[q].id BY IdTyped DEF CreateStarts, At
<1>1. /\ req[q].pc = "start" /\ session # "exited" /\ active' = active /\ Same /\ TypeOK
      /\ active' \subseteq Ids /\ RuntimeLimit'
  BY DEF CreateStarts, At, NrInv, TypeOK, RuntimeLimit
<1>2. CASE /\ rt' = [rt EXCEPT ![i] = [NoRuntime EXCEPT !.st = "up", !.child = "up", !.dir = TRUE, !.stdin = TRUE]]
           /\ Goto(q, "started") /\ deaths' = deaths
  <2>1. ThreadTo(q, "started", req[q].answer, req[q].node)
    BY <1>1, <1>2, GotoTo DEF Pcs
  <2>2. PICK r \in Runtimes : /\ rt' = [rt EXCEPT ![i] = r] /\ r.told = Block
    <3>1. [NoRuntime EXCEPT !.st = "up", !.child = "up", !.dir = TRUE, !.stdin = TRUE] \in Runtimes
      <4> PICK none \in Runtimes : none = NoRuntime
        BY NoRuntimeTyped
      <4>1. [none EXCEPT !.st = "up", !.child = "up", !.dir = TRUE, !.stdin = TRUE] \in Runtimes
        BY DEF Runtimes
      <4> QED BY <4>1
    <3>2. [NoRuntime EXCEPT !.st = "up", !.child = "up", !.dir = TRUE, !.stdin = TRUE].told = Block
      BY DEF NoRuntime
    <3> QED BY <1>2, <3>1, <3>2
  <2>3. OneRuntime(i) /\ rt'[i].told = Block
    BY <1>1, <2>2 DEF OneRuntime, TypeOK
  <2>4. deaths' \in 0..MaxDeaths
    BY <1>1, <1>2, Strikes
  <2> QED BY <1>1, <2>1, <2>3, <2>4, CreationStep
<1>3. CASE Strike /\ Answer(q, "error") /\ rt' = [rt EXCEPT ![i].st = "down"]
  <2>1. ThreadTo(q, "done", "error", req[q].node)
    BY <1>1, <1>3, AnswerTo DEF Answers
  <2>2. OneRuntime(i) /\ rt'[i].bound = rt[i].bound /\ rt'[i].told = rt[i].told /\ (Left(i)' => Left(i))
    BY <1>1, <1>3 DEF OneRuntime, TypeOK, Runtimes, Left
  <2>4. deaths' \in 0..MaxDeaths
    BY <1>1, <1>3, Strikes
  <2> QED BY <1>1, <2>1, <2>2, <2>4, CreationStep
<1> QED BY <1>2, <1>3 DEF CreateStarts

LEMMA CreateInsertsKept ==
    ASSUME NrInv, NEW q \in Requests, CreateInserts(q) PROVE NrInv'
<1> PICK i \in Ids : i = req[q].id BY IdTyped DEF CreateInserts, At
<1>1. /\ req[q].pc = "insert" /\ session # "exited" /\ rt' = rt /\ deaths' = deaths /\ Same
      /\ TypeOK /\ ThreadShape(q) /\ active \subseteq Ids
  BY DEF CreateInserts, At, NrInv, TypeOK, ThreadInv
<1>2. CASE Goto(q, "drop") /\ active' = active
  <2>1. ThreadTo(q, "drop", req[q].answer, req[q].node)
    BY <1>1, <1>2, GotoTo DEF Pcs
  <2>2. /\ ThreadShape(q)' /\ ~Holder(q)' /\ ~Owner(q)' /\ ~Telling(q)' /\ Keeper(q)' /\ ~Holder(q)
    BY <1>1, <2>1 DEF ThreadTo, ThreadShape, Holder, Owner, Telling, Keeper
  <2> QED BY <1>1, <1>2, <2>1, <2>2, QuietStep
<1>3. CASE /\ ~(Cardinality(active) >= MaxRuntimes)
           /\ active' = active \cup {i} /\ Answer(q, "ok")
  <2>1. ThreadTo(q, "done", "ok", req[q].node)
    BY <1>1, <1>3, AnswerTo DEF Answers
  <2>2. OneRuntime(i) /\ rt'[i].bound = rt[i].bound /\ rt'[i].told = rt[i].told
    BY <1>1 DEF OneRuntime, TypeOK
  <2>3. RuntimeLimit'
    <3>1. IsFiniteSet(active) /\ Cardinality(active) \in Nat
      BY <1>1, FiniteActive
    <3>2. Cardinality(active \cup {i}) = IF i \in active THEN Cardinality(active) ELSE Cardinality(active) + 1
      BY <3>1, FS_AddElement
    <3> QED BY <1>3, <3>1, <3>2, RuntimeAssumption DEF RuntimeLimit
  <2>4. deaths' \in 0..MaxDeaths
    BY <1>1, Strikes
  <2> QED BY <1>1, <1>3, <2>1, <2>2, <2>3, <2>4, CreationStep
<1> QED BY <1>2, <1>3 DEF CreateInserts

LEMMA ShutDownTo ==
    ASSUME NEW r \in Runtimes
    PROVE  /\ ShutDown(r) \in Runtimes /\ ~ShutDown(r).dir /\ ShutDown(r).child = "dead"
           /\ ShutDown(r).inFlight = r.inFlight /\ ShutDown(r).bound = r.bound /\ ShutDown(r).told = r.told
BY DEF ShutDown, Runtimes

LEMMA CreateDropsKept ==
    ASSUME NrInv, NEW q \in Requests, CreateDrops(q) PROVE NrInv'
<1> PICK i \in Ids : i = req[q].id BY IdTyped DEF CreateDrops, At
<1>1. /\ req[q].pc = "drop" /\ session # "exited" /\ active' = active /\ deaths' = deaths /\ Same
      /\ TypeOK /\ active' \subseteq Ids /\ RuntimeLimit' /\ rt[i] \in Runtimes
      /\ rt' = [rt EXCEPT ![i] = ShutDown(rt[i])] /\ Answer(q, "error")
  BY DEF CreateDrops, At, NrInv, TypeOK, RuntimeLimit
<1>2. ThreadTo(q, "done", "error", req[q].node)
  BY <1>1, AnswerTo DEF Answers
<1>3. OneRuntime(i) /\ rt'[i].bound = rt[i].bound /\ rt'[i].told = rt[i].told /\ ~Left(i)'
  BY <1>1, ShutDownTo DEF OneRuntime, TypeOK, Left
<1>4. deaths' \in 0..MaxDeaths
  BY <1>1, Strikes
<1> QED BY <1>1, <1>2, <1>3, <1>4, CreationStep

-----------------------------------------------------------------------------
(* next and next_step                                                        *)

LEMMA TraverseEntersKept ==
    ASSUME NrInv, NEW q \in Requests, TraverseEnters(q) PROVE NrInv'
<1> PICK i \in Ids : i = req[q].id BY IdTyped DEF TraverseEnters, At
<1>1. /\ req[q].pc = "enter" /\ session # "exited" /\ active' = active /\ deaths' = deaths /\ Same
      /\ TypeOK /\ ThreadInv /\ FlightInv /\ ToldInv /\ LeftInv /\ RuntimeLimit
      /\ ThreadShape(q) /\ req[q].method \in {"next", "step"} /\ active \subseteq Ids
  BY DEF TraverseEnters, At, NrInv, TypeOK, ThreadInv, ThreadShape
<1>2. ~Holder(q) /\ ~Owner(q) /\ ~Keeper(q)
  BY <1>1 DEF Holder, Owner, Keeper
<1>3. CASE i \notin active /\ Answer(q, "error") /\ rt' = rt
  <2>1. ThreadTo(q, "done", "error", req[q].node)
    BY <1>1, <1>3, AnswerTo DEF Answers
  <2>2. ThreadShape(q)' /\ ~Owner(q)' /\ ~Telling(q)'
    BY <1>1, <2>1 DEF ThreadTo, ThreadShape, Owner, Telling
  <2> QED BY <1>1, <1>2, <1>3, <2>1, <2>2, QuietStep
<1>4. CASE Answer(q, "busy") /\ rt' = rt
  <2>1. ThreadTo(q, "done", "busy", req[q].node)
    BY <1>1, <1>4, AnswerTo DEF Answers
  <2>2. ThreadShape(q)' /\ ~Holder(q)' /\ ~Owner(q)' /\ ~Telling(q)'
    BY <1>1, <2>1 DEF ThreadTo, ThreadShape, Holder, Owner, Telling
  <2> QED BY <1>1, <1>2, <1>4, <2>1, <2>2, QuietStep
<1>5. CASE i \in active /\ ~rt[i].inFlight /\ rt' = [rt EXCEPT ![i].inFlight = TRUE] /\ Goto(q, "begin")
  <2>1. ThreadTo(q, "begin", req[q].answer, req[q].node)
    BY <1>1, <1>5, GotoTo DEF Pcs
  <2>2. /\ rt' \in [Ids -> Runtimes] /\ \A j \in Ids : j # i => rt'[j] = rt[j]
        /\ rt'[i].inFlight /\ rt'[i].bound = rt[i].bound /\ rt'[i].told = rt[i].told
        /\ Left(i)' => Left(i)
    <3> PICK was \in Runtimes : was = rt[i]
      BY <1>1 DEF TypeOK
    <3>1. [was EXCEPT !.inFlight = TRUE] \in Runtimes
      BY DEF Runtimes
    <3> PICK r \in Runtimes : r = [was EXCEPT !.inFlight = TRUE]
      BY <3>1
    <3>2. r.inFlight /\ r.bound = was.bound /\ r.told = was.told /\ r.dir = was.dir /\ r.child = was.child
      BY DEF Runtimes
    <3>3. rt' = [rt EXCEPT ![i] = r] /\ rt \in [Ids -> Runtimes]
      BY <1>1, <1>5 DEF TypeOK
    <3> QED BY <3>2, <3>3 DEF Left
  <2>3. ThreadShape(q)' /\ Holder(q)' /\ ~Telling(q)'
    BY <1>1, <2>1 DEF ThreadTo, ThreadShape, Holder, Telling
  <2>4. Alone(q)
    BY <1>1, <1>5 DEF FlightInv, Alone
  <2>5. TypeOK'
    BY <1>1, <2>1, <2>2, ThreadTyped DEF TypeOK, Same
  <2>6. ThreadInv'
    BY <1>1, <2>1, <2>3, ThreadKept
  <2>7. FlightInv'
    BY <1>1, <2>1, <2>2, <2>4, FlightKept
  <2>8. ToldInv'
    BY <1>1, <2>1, <2>2, <2>3, ToldKept
  <2>9. LeftInv'
    <3>1. \A j \in Ids : j # i => (Left(j)' <=> Left(j))
      BY <2>2 DEF Left
    <3> QED BY <1>1, <1>5, <2>1, <2>2, <3>1, LeftKept DEF Same
  <2>10. RuntimeLimit'
    BY <1>1 DEF RuntimeLimit
  <2> QED BY <2>5, <2>6, <2>7, <2>8, <2>9, <2>10 DEF NrInv
<1> QED BY <1>3, <1>4, <1>5 DEF TraverseEnters

LEMMA FailsKept ==
    ASSUME NrInv, NEW q \in Requests, NEW i, i = req[q].id, NEW poisoned \in BOOLEAN,
           Fails(q, i, poisoned), req[q].pc \in {"begin", "scan", "bind"},
           active' = active, Strike \/ deaths' = deaths, Same, session # "exited"
    PROVE  NrInv'
<1>1. TypeOK /\ i \in Ids
  BY IdTyped DEF NrInv
<1>2. ThreadTo(q, "done", "error", req[q].node)
  BY <1>1, AnswerTo DEF Answers, Fails
<1>3. /\ OneRuntime(i) /\ rt'[i].inFlight = rt[i].inFlight /\ rt'[i].told = rt[i].told
      /\ Left(i)' => Left(i)
  <2>1. 0 \in 0..MaxRequests
    BY RuntimeAssumption
  <2>2. rt' = [rt EXCEPT ![i].lock = 0, ![i].poisoned = rt[i].poisoned \/ poisoned]
    BY DEF Fails
  <2> PICK zero \in 0..MaxRequests : zero = 0
    BY <2>1
  <2> PICK also \in BOOLEAN : also = (rt[i].poisoned \/ poisoned)
    OBVIOUS
  <2>3. rt' = [rt EXCEPT ![i].lock = zero, ![i].poisoned = also]
    BY <2>2
  <2> QED BY <1>1, <2>3 DEF OneRuntime, TypeOK, Runtimes, Left
<1>4. deaths' \in 0..MaxDeaths
  BY <1>1, Strikes
<1> QED BY <1>2, <1>3, <1>4, OwnedStep

LEMMA TraverseBeginsKept ==
    ASSUME NrInv, NEW q \in Requests, TraverseBegins(q) PROVE NrInv'
<1> PICK i \in Ids : i = req[q].id BY IdTyped DEF TraverseBegins, At
<1>1. /\ req[q].pc = "begin" /\ session # "exited" /\ active' = active /\ Same /\ TypeOK
  BY DEF TraverseBegins, At, NrInv
<1>2. CASE Fails(q, i, FALSE) /\ deaths' = deaths
  BY <1>1, <1>2, FailsKept
<1>3. CASE Refused(i) /\ Fails(q, i, TRUE)
  BY <1>1, <1>3, FailsKept DEF Refused
<1>4. CASE /\ rt' = [rt EXCEPT ![i].lock = q, ![i].bound = Block] /\ Goto(q, "scan")
           /\ deaths' = deaths
  <2>1. ThreadTo(q, "scan", req[q].answer, req[q].node)
    BY <1>1, <1>4, GotoTo DEF Pcs
  <2>2. /\ OneRuntime(i) /\ rt'[i].inFlight = rt[i].inFlight /\ rt'[i].told = rt[i].told
        /\ Left(i)' => Left(i)
    <3>1. q \in 0..MaxRequests /\ Block \in 0..NodeCount
      BY RuntimeAssumption DEF Block, Requests
    <3> PICK lock \in 0..MaxRequests, block \in 0..NodeCount : lock = q /\ block = Block
      BY <3>1
    <3>2. rt' = [rt EXCEPT ![i].lock = lock, ![i].bound = block]
      BY <1>4
    <3> QED BY <1>1, <3>2 DEF OneRuntime, TypeOK, Runtimes, Left
  <2>3. deaths' \in 0..MaxDeaths
    BY <1>1, <1>4, Strikes
  <2> QED BY <1>1, <2>1, <2>2, <2>3, OwnedStep
<1> QED BY <1>2, <1>3, <1>4 DEF TraverseBegins

LEMMA TraverseScansKept ==
    ASSUME NrInv, NEW q \in Requests, TraverseScans(q) PROVE NrInv'
<1> PICK i \in Ids : i = req[q].id BY IdTyped DEF TraverseScans, At
<1>1. /\ req[q].pc = "scan" /\ session # "exited" /\ active' = active /\ Same /\ TypeOK
  BY DEF TraverseScans, At, NrInv
<1>2. CASE Fails(q, i, FALSE) /\ deaths' = deaths
  BY <1>1, <1>2, FailsKept
<1>3. CASE Refused(i) /\ Fails(q, i, TRUE)
  BY <1>1, <1>3, FailsKept DEF Refused
<1>4. CASE /\ rt[i].cursor < NodeCount
           /\ rt' = [rt EXCEPT ![i].cursor = rt[i].cursor + 1] /\ Goto(q, "bind")
           /\ deaths' = deaths
  <2>1. ThreadTo(q, "bind", req[q].answer, req[q].node)
    BY <1>1, <1>4, GotoTo DEF Pcs
  <2>2. /\ OneRuntime(i) /\ rt'[i].inFlight = rt[i].inFlight /\ rt'[i].told = rt[i].told
        /\ Left(i)' => Left(i)
    <3>1. rt[i].cursor + 1 \in 0..NodeCount
      BY <1>1, <1>4, RuntimeAssumption DEF TypeOK, Runtimes
    <3> PICK cursor \in 0..NodeCount : cursor = rt[i].cursor + 1
      BY <3>1
    <3>2. rt' = [rt EXCEPT ![i].cursor = cursor]
      BY <1>4
    <3> QED BY <1>1, <3>2 DEF OneRuntime, TypeOK, Runtimes, Left
  <2>3. deaths' \in 0..MaxDeaths
    BY <1>1, <1>4, Strikes
  <2> QED BY <1>1, <2>1, <2>2, <2>3, OwnedStep
<1>5. CASE /\ rt' = [rt EXCEPT ![i] = [ShutDown(rt[i]) EXCEPT !.lock = 0]]
           /\ Goto(q, "end") /\ deaths' = deaths
  <2>1. ThreadTo(q, "end", req[q].answer, req[q].node)
    BY <1>1, <1>5, GotoTo DEF Pcs
  <2>2. /\ OneRuntime(i) /\ rt'[i].inFlight = rt[i].inFlight /\ rt'[i].told = rt[i].told
        /\ ~Left(i)'
    <3>1. 0 \in 0..MaxRequests /\ rt[i] \in Runtimes
      BY <1>1, RuntimeAssumption DEF TypeOK
    <3> PICK down \in Runtimes : down = ShutDown(rt[i])
      BY <3>1, ShutDownTo
    <3>2. /\ ~down.dir /\ down.child = "dead" /\ down.inFlight = rt[i].inFlight
          /\ down.told = rt[i].told
      BY <3>1, ShutDownTo
    <3> PICK zero \in 0..MaxRequests : zero = 0
      BY <3>1
    <3>3. rt' = [rt EXCEPT ![i] = [down EXCEPT !.lock = zero]]
      BY <1>5
    <3>4. [down EXCEPT !.lock = zero] \in Runtimes
      BY DEF Runtimes
    <3> PICK free \in Runtimes : free = [down EXCEPT !.lock = zero]
      BY <3>4
    <3>5. /\ ~free.dir /\ free.child = "dead" /\ free.inFlight = rt[i].inFlight
          /\ free.told = rt[i].told
      BY <3>2 DEF Runtimes
    <3>6. rt' = [rt EXCEPT ![i] = free]
      BY <3>3
    <3> QED BY <1>1, <3>5, <3>6 DEF OneRuntime, TypeOK, Left
  <2>3. deaths' \in 0..MaxDeaths
    BY <1>1, <1>5, Strikes
  <2> QED BY <1>1, <2>1, <2>2, <2>3, OwnedStep
<1> QED BY <1>2, <1>3, <1>4, <1>5 DEF TraverseScans

LEMMA TraverseBindsKept ==
    ASSUME NrInv, NEW q \in Requests, TraverseBinds(q) PROVE NrInv'
<1> PICK i \in Ids : i = req[q].id BY IdTyped DEF TraverseBinds, At
<1>1. /\ req[q].pc = "bind" /\ session # "exited" /\ active' = active /\ Same /\ TypeOK
  BY DEF TraverseBinds, At, NrInv
<1>2. CASE Refused(i) /\ Fails(q, i, TRUE)
  BY <1>1, <1>2, FailsKept DEF Refused
<1>3. CASE /\ rt' = [rt EXCEPT ![i].bound = rt[i].cursor, ![i].lock = 0]
           /\ req' = [req EXCEPT ![q].pc = "done", ![q].answer = "node", ![q].node = rt[i].cursor]
           /\ deaths' = deaths
  <2>1. 0 \in 0..MaxRequests /\ rt[i].cursor \in 0..NodeCount
    BY <1>1, RuntimeAssumption DEF TypeOK, Runtimes
  <2> PICK zero \in 0..MaxRequests, node \in 0..NodeCount : zero = 0 /\ node = rt[i].cursor
    BY <2>1
  <2>2. /\ rt' = [rt EXCEPT ![i].bound = node, ![i].lock = zero]
        /\ req' = [req EXCEPT ![q].pc = "done", ![q].answer = "node", ![q].node = node]
    BY <1>3
  <2>3. ThreadTo(q, "done", "node", node)
    <3> PICK was \in Threads : was = req[q]
      BY <1>1 DEF TypeOK
    <3>a. [was EXCEPT !.pc = "done", !.answer = "node", !.node = node] \in Threads
      BY ZenonT(40) DEF Threads
    <3>b. PICK r \in Threads : r = [was EXCEPT !.pc = "done", !.answer = "node", !.node = node]
      BY <3>a
    <3>c. r.method = was.method /\ r.id = was.id /\ r.pc = "done" /\ r.answer = "node" /\ r.node = node
      BY <3>b DEF Threads
    <3>d. req' = [req EXCEPT ![q] = r]
      BY <3>b, <1>1, <2>2 DEF TypeOK
    <3> QED BY <1>1, <3>c, <3>d DEF ThreadTo, TypeOK
  <2>4. /\ OneRuntime(i) /\ rt'[i].inFlight = rt[i].inFlight /\ rt'[i].told = rt[i].told
        /\ rt'[i].bound = node /\ (Left(i)' => Left(i))
    <3>1. rt \in [Ids -> Runtimes] /\ rt' = [rt EXCEPT ![i].bound = node, ![i].lock = zero]
      BY <1>1, <2>2 DEF TypeOK
    <3>2. OneRuntime(i)
      BY <3>1 DEF OneRuntime, Runtimes
    <3>3. rt'[i].inFlight = rt[i].inFlight /\ rt'[i].told = rt[i].told /\ rt'[i].bound = node
      BY <3>1 DEF Runtimes
    <3>4. Left(i)' => Left(i)
      BY <3>1 DEF Runtimes, Left
    <3> QED BY <3>2, <3>3, <3>4
  <2>5. deaths' \in 0..MaxDeaths
    BY <1>1, <1>3, Strikes
  <2> QED BY <1>1, <2>3, <2>4, <2>5, OwnedStep
<1>4. CASE Goto(q, "scan") /\ rt' = rt /\ deaths' = deaths
  <2>1. ThreadTo(q, "scan", req[q].answer, req[q].node)
    BY <1>1, <1>4, GotoTo DEF Pcs
  <2>2. OneRuntime(i) /\ Left(i)' = Left(i)
    BY <1>1, <1>4 DEF OneRuntime, TypeOK, Left
  <2>3. deaths' \in 0..MaxDeaths
    BY <1>1, <1>4, Strikes
  <2> QED BY <1>1, <1>4, <2>1, <2>2, <2>3, OwnedStep
<1>5. CASE Answer(q, "unreachable") /\ rt' = [rt EXCEPT ![i].lock = 0] /\ deaths' = deaths
  <2>1. ThreadTo(q, "done", "unreachable", req[q].node)
    BY <1>1, <1>5, AnswerTo DEF Answers
  <2>2. /\ OneRuntime(i) /\ rt'[i].inFlight = rt[i].inFlight /\ rt'[i].told = rt[i].told
        /\ Left(i)' => Left(i)
    <3>1. 0 \in 0..MaxRequests
      BY RuntimeAssumption
    <3> PICK zero \in 0..MaxRequests : zero = 0
      BY <3>1
    <3>2. rt' = [rt EXCEPT ![i].lock = zero]
      BY <1>5
    <3> QED BY <1>1, <3>2 DEF OneRuntime, TypeOK, Runtimes, Left
  <2>3. deaths' \in 0..MaxDeaths
    BY <1>1, <1>5, Strikes
  <2> QED BY <1>1, <2>1, <2>2, <2>3, OwnedStep
<1> QED BY <1>2, <1>3, <1>4, <1>5 DEF TraverseBinds

-----------------------------------------------------------------------------
(* A runtime leaves the table: the end of a traversal, and close_runtime.    *)

LEMMA LeaveStep ==
    ASSUME NrInv, NEW q \in Requests, NEW i, i = req[q].id,
           NEW goal, NEW answer, ThreadTo(q, goal, answer, req[q].node), OneRuntime(i),
           active' = active \/ active' = active \ {i}, deaths' \in 0..MaxDeaths, Same,
           session # "exited", req[q].pc \in {"end", "remove", "shut"}, ThreadShape(q)',
           Holder(q)' => Holder(q), Holder(q) => Holder(q)', Owner(q)' => Owner(q), ~Telling(q)', goal # "end",
           rt'[i].inFlight = rt[i].inFlight, rt'[i].told = rt[i].told, rt'[i].bound = rt[i].bound,
           ~Left(i)' \/ (Left(i) /\ Keeper(q)')
    PROVE  NrInv'
<1>0. i \in Ids BY IdTyped
<1>1. /\ TypeOK /\ ThreadInv /\ FlightInv /\ ToldInv /\ LeftInv /\ RuntimeLimit
      /\ req' \in [Requests -> Threads] /\ active' \subseteq Ids /\ rt' \in [Ids -> Runtimes]
      /\ \A j \in Ids : j # i => rt'[j] = rt[j] /\ (j \in active <=> j \in active')
      /\ active' \subseteq active
  BY DEF NrInv, TypeOK, ThreadTo, OneRuntime
<1>2. TypeOK'
  BY <1>1 DEF TypeOK, Same
<1>3. ThreadInv'
  BY <1>1, ThreadKept
<1>4. FlightInv'
  <2>1. Holder(q)' /\ i \in active' => rt'[i].inFlight
    BY <1>1 DEF FlightInv
  <2>2. i \in active' => /\ i \in active /\ (rt[i].inFlight => rt'[i].inFlight)
                         /\ Holder(q)' => Holder(q)
    BY <1>1
  <2> QED BY <1>1, <2>1, <2>2, FlightKept
<1>5. ToldInv'
  BY <1>0, <1>1, ToldKept
<1>6. LeftInv'
  <2>1. \A j \in Ids : j # i => /\ Left(j)' => Left(j)
                                /\ Left(j)' /\ j \in active => j \in active'
    BY <1>1 DEF Left
  <2>2. \/ ~Left(i)'
        \/ i \in active' \/ Keeper(q)'
        \/ Left(i) /\ ~Keeper(q) /\ i \notin active
    OBVIOUS
  <2> QED BY <1>0, <1>1, <2>1, <2>2, LeftKept DEF Same
<1>7. RuntimeLimit'
  <2>1. IsFiniteSet(active) /\ Cardinality(active) \in Nat
    BY <1>1, FiniteActive
  <2>2. Cardinality(active') <= Cardinality(active) /\ Cardinality(active') \in Nat
    BY <1>1, <2>1, FS_Subset, FS_CardinalityType
  <2> QED BY <1>1, <2>1, <2>2, RuntimeAssumption DEF RuntimeLimit
<1> QED BY <1>2, <1>3, <1>4, <1>5, <1>6, <1>7 DEF NrInv

LEMMA TraverseEndsKept ==
    ASSUME NrInv, NEW q \in Requests, TraverseEnds(q) PROVE NrInv'
<1> PICK i \in Ids : i = req[q].id BY IdTyped DEF TraverseEnds, At
<1>1. /\ req[q].pc = "end" /\ session # "exited" /\ active' = active \ {i} /\ rt' = rt
      /\ deaths' = deaths /\ Same /\ TypeOK /\ ThreadShape(q) /\ LeftInv
      /\ req[q].method \in {"next", "step"} /\ Answer(q, "end")
  BY DEF TraverseEnds, At, NrInv, ThreadInv, ThreadShape
<1>2. ThreadTo(q, "done", "end", req[q].node)
  BY <1>1, AnswerTo DEF Answers
<1>3. /\ ThreadShape(q)' /\ Holder(q) /\ Holder(q)' /\ Owner(q) /\ ~Telling(q)'
  BY <1>1, <1>2 DEF ThreadTo, ThreadShape, Holder, Owner, Telling
<1>4. ~Left(i)'
  <2>1. ~Left(i) BY <1>1 DEF LeftInv, Cleared
  <2> QED BY <1>1, <2>1 DEF Left
<1>5. OneRuntime(i)
  BY <1>1 DEF OneRuntime, TypeOK
<1>6. deaths' \in 0..MaxDeaths
  BY <1>1, Strikes
<1>7. rt'[i].inFlight = rt[i].inFlight /\ rt'[i].told = rt[i].told /\ rt'[i].bound = rt[i].bound
  BY <1>1
<1>8. req[q].pc \in {"end", "remove", "shut"} /\ session # "exited" /\ Same /\ "done" # "end"
  BY <1>1
<1>9. /\ active' = active \/ active' = active \ {i}
      /\ Holder(q)' => Holder(q)
      /\ Holder(q) => Holder(q)'
      /\ Owner(q)' => Owner(q)
      /\ ~Left(i)' \/ (Left(i) /\ Keeper(q)')
  BY <1>1, <1>3, <1>4
<1> QED BY <1>2, <1>3, <1>5, <1>6, <1>7, <1>8, <1>9, LeaveStep

LEMMA CloseRemovesKept ==
    ASSUME NrInv, NEW q \in Requests, CloseRemoves(q) PROVE NrInv'
<1> PICK i \in Ids : i = req[q].id BY IdTyped DEF CloseRemoves, At
<1>1. /\ req[q].pc = "remove" /\ session # "exited" /\ deaths' = deaths /\ Same
      /\ TypeOK /\ ThreadShape(q) /\ req[q].method = "close" /\ LeftInv
  BY DEF CloseRemoves, At, NrInv, ThreadInv, ThreadShape
<1>2. ~Holder(q) /\ ~Owner(q)
  BY <1>1 DEF Holder, Owner
<1>3. deaths' \in 0..MaxDeaths
  BY <1>1, Strikes
<1>4. CASE /\ active' = active \ {i}
           /\ rt' = [rt EXCEPT ![i].cancelled = TRUE, ![i].stdin = FALSE]
           /\ Goto(q, "shut")
  <2>1. ThreadTo(q, "shut", req[q].answer, req[q].node)
    BY <1>1, <1>4, GotoTo DEF Pcs
  <2>2. ThreadShape(q)' /\ ~Holder(q)' /\ ~Owner(q)' /\ ~Telling(q)' /\ Keeper(q)'
    BY <1>1, <2>1 DEF ThreadTo, ThreadShape, Holder, Owner, Telling, Keeper
  <2>3. /\ OneRuntime(i) /\ (Left(i)' => Left(i)) /\ rt'[i].inFlight = rt[i].inFlight
        /\ rt'[i].told = rt[i].told /\ rt'[i].bound = rt[i].bound
    <3> PICK was \in Runtimes : was = rt[i]
      BY <1>1 DEF TypeOK
    <3>1. [was EXCEPT !.cancelled = TRUE, !.stdin = FALSE] \in Runtimes
      BY DEF Runtimes
    <3> PICK r \in Runtimes : r = [was EXCEPT !.cancelled = TRUE, !.stdin = FALSE]
      BY <3>1
    <3>2. /\ r.inFlight = was.inFlight /\ r.bound = was.bound /\ r.told = was.told
          /\ r.dir = was.dir /\ r.child = was.child
      BY DEF Runtimes
    <3>3. rt' = [rt EXCEPT ![i] = r] /\ rt \in [Ids -> Runtimes]
      BY <1>1, <1>4 DEF TypeOK
    <3> QED BY <3>2, <3>3 DEF Left, OneRuntime
  <2> QED BY <1>1, <1>2, <1>3, <1>4, <2>1, <2>2, <2>3, LeaveStep
<1>5. CASE Answer(q, "ok") /\ active' = active /\ rt' = rt
  <2>1. ThreadTo(q, "done", "ok", req[q].node)
    BY <1>1, <1>5, AnswerTo DEF Answers
  <2>2. ThreadShape(q)' /\ ~Holder(q)' /\ ~Owner(q)' /\ ~Telling(q)' /\ ~Keeper(q)
    BY <1>1, <2>1 DEF ThreadTo, ThreadShape, Holder, Owner, Telling, Keeper
  <2> QED BY <1>1, <1>2, <1>5, <2>1, <2>2, QuietStep
<1> QED BY <1>4, <1>5 DEF CloseRemoves

LEMMA CloseShutsKept ==
    ASSUME NrInv, NEW q \in Requests, CloseShuts(q) PROVE NrInv'
<1> PICK i \in Ids : i = req[q].id BY IdTyped DEF CloseShuts, At
<1>1. /\ req[q].pc = "shut" /\ session # "exited" /\ deaths' = deaths /\ Same /\ active' = active
      /\ TypeOK /\ ThreadShape(q) /\ req[q].method = "close" /\ rt[i] \in Runtimes
      /\ rt' = [rt EXCEPT ![i] = ShutDown(rt[i])] /\ Answer(q, "ok")
  BY DEF CloseShuts, At, NrInv, ThreadInv, ThreadShape, TypeOK
<1>2. deaths' \in 0..MaxDeaths
  BY <1>1, Strikes
<1>3. ThreadTo(q, "done", "ok", req[q].node)
  BY <1>1, AnswerTo DEF Answers
<1>4. ThreadShape(q)' /\ ~Holder(q) /\ ~Holder(q)' /\ ~Owner(q)' /\ ~Telling(q)'
  BY <1>1, <1>3 DEF ThreadTo, ThreadShape, Holder, Owner, Telling
<1>5. /\ OneRuntime(i) /\ ~Left(i)' /\ rt'[i].inFlight = rt[i].inFlight
      /\ rt'[i].told = rt[i].told /\ rt'[i].bound = rt[i].bound
  BY <1>1, ShutDownTo DEF OneRuntime, TypeOK, Left
<1>6. req[q].pc \in {"end", "remove", "shut"} /\ session # "exited" /\ Same /\ "done" # "end"
  BY <1>1
<1>9. /\ active' = active \/ active' = active \ {i}
      /\ Holder(q)' => Holder(q)
      /\ Holder(q) => Holder(q)'
      /\ Owner(q)' => Owner(q)
      /\ ~Left(i)' \/ (Left(i) /\ Keeper(q)')
  BY <1>1, <1>4, <1>5
<1> QED BY <1>2, <1>3, <1>4, <1>5, <1>6, <1>9, LeaveStep

-----------------------------------------------------------------------------
(* The stdio loop.                                                           *)

LEMMA ArriveKept ==
    ASSUME NrInv, NEW q \in Requests, NEW method \in {"create", "next", "step", "close"}, NEW i \in Ids,
           Arrive(q, method, i)
    PROVE  NrInv'
<1>1. /\ TypeOK /\ ThreadInv /\ FlightInv /\ ToldInv /\ LeftInv /\ RuntimeLimit
      /\ req[q].pc = "none" /\ session = "open" /\ active' = active /\ rt' = rt /\ deaths' = deaths /\ Same
      /\ method = "create" => Unused(i)
      /\ method # "create" => Known(i)
  BY DEF Arrive, NrInv
<1> PICK goal \in {"check", "remove", "enter"} :
        /\ goal = CASE method = "create" -> "check" [] method = "close" -> "remove" [] OTHER -> "enter"
        /\ goal = "check" <=> method = "create"
        /\ goal = "remove" <=> method = "close"
        /\ goal = "enter" <=> method \in {"next", "step"}
  OBVIOUS
<1>2. PICK r \in Threads : /\ req' = [req EXCEPT ![q] = r]
                           /\ r.method = method /\ r.id = i /\ r.pc = goal /\ r.answer = "none"
  <2>1. NoRequest \in Threads /\ NoRequest.answer = "none"
    BY RuntimeAssumption DEF NoRequest, Threads, Block
  <2> PICK none \in Threads : none = NoRequest
    BY <2>1
  <2>2. i \in 0..MaxRuntimeId
    BY RuntimeAssumption DEF Ids
  <2> DEFINE r == [none EXCEPT !.method = method, !.id = i, !.pc = goal]
  <2>3. r \in Threads /\ r.method = method /\ r.id = i /\ r.pc = goal /\ r.answer = none.answer
    <3>1. method \in {"none", "create", "next", "step", "close"}
      OBVIOUS
    <3>2. goal \in {"none", "check", "start", "started", "insert", "drop", "enter", "begin", "scan",
                  "bind", "end", "remove", "shut", "done", "answered"}
      OBVIOUS
    <3>3. r \in Threads
      BY <2>2, <3>1, <3>2, ZenonT(40) DEF Threads
    <3>4. r.method = method /\ r.id = i /\ r.pc = goal /\ r.answer = none.answer
      BY DEF Threads
    <3> QED BY <3>3, <3>4
  <2>4. req' = [req EXCEPT ![q] = r]
    BY DEF Arrive
  <2> QED BY <2>1, <2>3, <2>4
<1>3. /\ req' \in [Requests -> Threads] /\ req'[q] = r
      /\ \A p \in Requests : p # q => req'[p] = req[p]
  BY <1>1, <1>2 DEF TypeOK
<1>4. \A p \in Requests : p # q => /\ Creator(p)' <=> Creator(p)
                                   /\ User(p)' <=> User(p)
                                   /\ ThreadShape(p)' <=> ThreadShape(p)
  BY <1>3 DEF Creator, User, ThreadShape
<1>5. \A p \in Requests : p # q => /\ Holder(p)' <=> Holder(p)
                                   /\ Owner(p)' <=> Owner(p)
                                   /\ Telling(p)' <=> Telling(p)
                                   /\ Keeper(p)' <=> Keeper(p)
  BY <1>3 DEF Holder, Owner, Telling, Keeper
<1>6. ~Holder(q)' /\ ~Owner(q)' /\ ~Telling(q)' /\ ~Keeper(q) /\ ThreadShape(q)'
  BY <1>1, <1>2, <1>3 DEF Holder, Owner, Telling, Keeper, ThreadShape
<1>q. ~Holder(q)
  BY <1>1 DEF Holder
<1>7. TypeOK'
  BY <1>1, <1>3 DEF TypeOK, Same
<1>8. ThreadInv'
  <2>1. \A p \in Requests : ThreadShape(p)'
    BY <1>1, <1>4, <1>6 DEF ThreadInv
  <2>2. \A p \in Requests : p # q /\ Creator(p)' /\ Creator(q)' => req'[p].id # req'[q].id
    BY <1>1, <1>2, <1>3 DEF Creator, Unused
  <2>3. \A p, s \in Requests : p # q /\ s # q /\ Creator(p)' /\ Creator(s)' /\ req'[p].id = req'[s].id => p = s
    BY <1>1, <1>3, <1>4 DEF ThreadInv
  <2>4. \A p, s \in Requests : Creator(p)' /\ Creator(s)' /\ req'[p].id = req'[s].id => p = s
    BY <2>2, <2>3
  <2>5. ASSUME NEW p \in Requests, User(p)' PROVE Served(p)'
    <3>1. Known(req'[p].id)
      <4>1. CASE p = q
        BY <4>1, <1>1, <1>2, <1>3, <2>5 DEF User
      <4>2. CASE p # q
        BY <4>2, <1>1, <1>3, <1>4, <2>5 DEF ThreadInv, Served
      <4> QED BY <4>1, <4>2
    <3> QED BY <3>1, <1>1, <1>3 DEF Known, Served
  <2> QED BY <2>1, <2>4, <2>5 DEF ThreadInv
<1>9. FlightInv'
  BY <1>1, <1>3, <1>5, <1>6 DEF FlightInv
<1>10. ToldInv'
  BY <1>1, <1>3, <1>5, <1>6, <1>q DEF ToldInv
<1>11. LeftInv'
  <2>1. \A j \in Ids : Left(j)' <=> Left(j)
    BY <1>1 DEF Left
  <2>2. \A p \in Requests : req'[p].pc = "end" => Cleared(p)'
    BY <1>1, <1>2, <1>3 DEF LeftInv, Cleared, Left
  <2>3. \A j \in Ids : Left(j)' => j \in active' \/ \E p \in Requests : req'[p].id = j /\ Keeper(p)'
    BY <1>1, <1>3, <1>5, <1>6, <2>1 DEF LeftInv
  <2> QED BY <1>1, <2>2, <2>3 DEF LeftInv, Same
<1>12. RuntimeLimit'
  BY <1>1 DEF RuntimeLimit
<1> QED BY <1>7, <1>8, <1>9, <1>10, <1>11, <1>12 DEF NrInv

(* Steps of no request.                                                      *)
LEMMA EnvironmentStep ==
    ASSUME NrInv, TypeOK', req' = req,
           \A j \in Ids : /\ rt'[j].bound = rt[j].bound /\ rt'[j].told = rt[j].told
                          /\ rt'[j].inFlight = rt[j].inFlight
                          /\ Left(j)' => Left(j),
           session' = "exited" => \A j \in Ids : ~Left(j)',
           \/ active' = active
           \/ active' = {} /\ \A j \in Ids : ~Left(j)'
    PROVE  NrInv'
<1>1. /\ TypeOK /\ ThreadInv /\ FlightInv /\ ToldInv /\ LeftInv /\ RuntimeLimit
  BY DEF NrInv
<1>2. \A q \in Requests : req[q].pc \in {"end", "done"} => req[q].id \in Ids
  BY <1>1 DEF ThreadInv, ThreadShape
<1>3. \A q \in Requests : req[q].id \in active => req[q].id \in Ids
  BY <1>1 DEF TypeOK
<1>4. \A q \in Requests : /\ Holder(q)' <=> Holder(q)
                          /\ Owner(q)' <=> Owner(q)
                          /\ Telling(q)' <=> Telling(q)
                          /\ Keeper(q)' <=> Keeper(q)
                          /\ ThreadShape(q)' <=> ThreadShape(q)
                          /\ Creator(q)' <=> Creator(q)
                          /\ User(q)' <=> User(q)
                          /\ Served(q)' <=> Served(q)
  BY DEF Holder, Owner, Telling, Keeper, ThreadShape, Creator, User, Served, Known
<1>5. ThreadInv'
  BY <1>1, <1>4 DEF ThreadInv
<1>6. FlightInv'
  BY <1>1, <1>3, <1>4 DEF FlightInv
<1>7. ToldInv'
  BY <1>1, <1>2, <1>4 DEF ToldInv, Telling
<1>8. LeftInv'
  <2>1. \A q \in Requests : req'[q].pc = "end" => Cleared(q)'
    BY <1>1, <1>2 DEF LeftInv, Cleared, Left
  <2>2. \A j \in Ids : Left(j)' => j \in active' \/ \E q \in Requests : req'[q].id = j /\ Keeper(q)'
    BY <1>1, <1>4 DEF LeftInv
  <2> QED BY <2>1, <2>2 DEF LeftInv
<1>9. RuntimeLimit'
  <2>1. CASE active' = active
    BY <1>1, <2>1 DEF RuntimeLimit
  <2>2. CASE active' = {}
    <3>1. Cardinality(active') = 0
      BY <2>2, FS_EmptySet
    <3> QED BY <3>1, RuntimeAssumption DEF RuntimeLimit
  <2> QED BY <2>1, <2>2
<1> QED BY <1>5, <1>6, <1>7, <1>8, <1>9 DEF NrInv

(* What is left without a place in the table has a thread.                   *)
LEMMA NothingElse ==
    ASSUME NrInv, NEW q, Pending \subseteq {q}, q \in Requests => ~Keeper(q),
           NEW j \in Ids, Left(j)
    PROVE  j \in active
BY DEF NrInv, LeftInv, Pending, Keeper

LEMMA CancelledTo ==
    ASSUME NEW r \in Runtimes
    PROVE  LET c == [r EXCEPT !.cancelled = TRUE, !.stdin = FALSE]
           IN  /\ c \in Runtimes /\ c.inFlight = r.inFlight /\ c.bound = r.bound
               /\ c.told = r.told /\ c.dir = r.dir /\ c.child = r.child
BY DEF Runtimes

LEMMA EofKept == ASSUME NrInv, Eof PROVE NrInv'
<1>1. TypeOK /\ req' = req /\ deaths' = deaths /\ shutting' = TRUE
  BY DEF NrInv, Eof
<1>2. \A j \in Ids : /\ Cancelled[j] \in Runtimes /\ Cancelled[j].inFlight = rt[j].inFlight
                     /\ Cancelled[j].bound = rt[j].bound /\ Cancelled[j].told = rt[j].told
                     /\ Cancelled[j].dir = rt[j].dir /\ Cancelled[j].child = rt[j].child
  <2> SUFFICES ASSUME NEW j \in Ids
               PROVE  /\ Cancelled[j] \in Runtimes /\ Cancelled[j].inFlight = rt[j].inFlight
                      /\ Cancelled[j].bound = rt[j].bound /\ Cancelled[j].told = rt[j].told
                      /\ Cancelled[j].dir = rt[j].dir /\ Cancelled[j].child = rt[j].child
    OBVIOUS
  <2> PICK r \in Runtimes : r = rt[j]
    BY <1>1 DEF TypeOK
  <2>1. Cancelled[j] = IF j \in active THEN [r EXCEPT !.cancelled = TRUE, !.stdin = FALSE] ELSE r
    BY DEF Cancelled
  <2> QED BY <2>1, CancelledTo
<1>3. CASE /\ Pending = {}
           /\ rt' = [j \in Ids |-> IF j \in active THEN ShutDown(Cancelled[j]) ELSE rt[j]]
           /\ active' = {} /\ session' = "exited"
  <2>1. ASSUME NEW j \in Ids
        PROVE  /\ rt'[j] \in Runtimes /\ rt'[j].inFlight = rt[j].inFlight
               /\ rt'[j].bound = rt[j].bound /\ rt'[j].told = rt[j].told /\ ~Left(j)'
    <3>1. CASE j \in active
      <4>1. rt'[j] = ShutDown(Cancelled[j])
        BY <1>3, <3>1
      <4> PICK c \in Runtimes : c = Cancelled[j]
        BY <1>2
      <4>2. rt'[j] = ShutDown(c)
        BY <4>1
      <4>3. rt'[j] \in Runtimes /\ ~rt'[j].dir /\ rt'[j].child = "dead"
            /\ rt'[j].inFlight = c.inFlight /\ rt'[j].bound = c.bound /\ rt'[j].told = c.told
        BY <4>2, ShutDownTo
      <4> QED BY <4>3, <1>2 DEF Left
    <3>2. CASE j \notin active
      <4>1. rt'[j] = rt[j] /\ rt[j] \in Runtimes
        BY <1>1, <1>3, <3>2 DEF TypeOK
      <4>2. Pending \subseteq {0} /\ 0 \notin Requests
        BY <1>3, RuntimeAssumption DEF Requests
      <4>3. ~Left(j)
        BY <4>2, <3>2, NothingElse
      <4> QED BY <4>1, <4>3 DEF Left
    <3> QED BY <3>1, <3>2
  <2>2. TypeOK'
    BY <1>1, <1>3, <2>1 DEF TypeOK
  <2> QED BY <1>1, <1>3, <2>1, <2>2, EnvironmentStep
<1>4. CASE rt' = Cancelled /\ session' = "closed" /\ active' = active
  <2>1. TypeOK'
    BY <1>1, <1>2, <1>4 DEF TypeOK, Cancelled
  <2>2. \A j \in Ids : Left(j)' => Left(j)
    BY <1>2, <1>4 DEF Left
  <2> QED BY <1>1, <1>2, <1>4, <2>1, <2>2, EnvironmentStep
<1> QED BY <1>3, <1>4 DEF Eof

LEMMA InputFailsKept == ASSUME NrInv, InputFails PROVE NrInv'
<1>1. /\ TypeOK /\ req' = req /\ active' = active /\ shutting' = TRUE /\ session' = "failed"
      /\ rt' = [j \in Ids |-> [rt[j] EXCEPT !.stdin = FALSE]] /\ deaths' \in 0..MaxDeaths
  BY Strikes DEF NrInv, InputFails
<1>2. ASSUME NEW j \in Ids
      PROVE  /\ rt'[j] \in Runtimes /\ rt'[j].inFlight = rt[j].inFlight
             /\ rt'[j].bound = rt[j].bound /\ rt'[j].told = rt[j].told /\ (Left(j)' => Left(j))
  <2> PICK r \in Runtimes : r = rt[j]
    BY <1>1 DEF TypeOK
  <2>1. rt'[j] = [r EXCEPT !.stdin = FALSE]
    BY <1>1
  <2>2. [r EXCEPT !.stdin = FALSE] \in Runtimes
    BY DEF Runtimes
  <2>3. /\ rt'[j].inFlight = r.inFlight /\ rt'[j].bound = r.bound /\ rt'[j].told = r.told
        /\ rt'[j].dir = r.dir /\ rt'[j].child = r.child
    BY <2>1 DEF Runtimes
  <2> QED BY <2>1, <2>2, <2>3 DEF Left
<1>3. TypeOK'
  BY <1>1, <1>2 DEF TypeOK
<1> QED BY <1>1, <1>2, <1>3, EnvironmentStep

LEMMA ChildEndsKept == ASSUME NrInv, NEW i \in Ids, ChildEnds(i) PROVE NrInv'
<1>1. /\ TypeOK /\ LeftInv /\ req' = req /\ active' = active /\ Same
      /\ rt' = [rt EXCEPT ![i].child = "dead"] /\ deaths' \in 0..MaxDeaths
  BY Strikes DEF NrInv, ChildEnds
<1>2. rt' \in [Ids -> Runtimes]
  BY <1>1 DEF TypeOK, Runtimes
<1>3. \A j \in Ids : /\ rt'[j].bound = rt[j].bound /\ rt'[j].told = rt[j].told
                     /\ rt'[j].inFlight = rt[j].inFlight
                     /\ Left(j)' => Left(j)
  BY <1>1 DEF TypeOK, Runtimes, Left
<1>4. TypeOK'
  BY <1>1, <1>2 DEF TypeOK, Same
<1>5. session' = "exited" => \A j \in Ids : ~Left(j)'
  BY <1>1, <1>3 DEF LeftInv, Same
<1> QED BY <1>1, <1>3, <1>4, <1>5, EnvironmentStep

(* The table with one runtime replaced, and with what a response changes.    *)
SetTo(f, i, r) == f = [rt EXCEPT ![i] = r]
ToldTo(f, i, free, now) == f = [rt EXCEPT ![i].inFlight = free, ![i].told = now]

LEMMA RuntimeSet ==
    ASSUME TypeOK, NEW i \in Ids, NEW r \in Runtimes, NEW f, SetTo(f, i, r)
    PROVE  f \in [Ids -> Runtimes] /\ f[i] = r /\ \A j \in Ids : j # i => f[j] = rt[j]
BY DEF TypeOK, SetTo

LEMMA RuntimeTold ==
    ASSUME TypeOK, NEW i \in Ids, NEW free \in BOOLEAN, NEW now \in 0..NodeCount,
           NEW heard, ToldTo(heard, i, free, now)
    PROVE  /\ heard \in [Ids -> Runtimes]
           /\ \A j \in Ids : j # i => heard[j] = rt[j]
           /\ heard[i].inFlight = free /\ heard[i].told = now /\ heard[i].bound = rt[i].bound
           /\ heard[i].dir = rt[i].dir /\ heard[i].child = rt[i].child
<1> PICK was \in Runtimes : was = rt[i]
  BY DEF TypeOK
<1>1. [was EXCEPT !.inFlight = free, !.told = now] \in Runtimes
  BY ZenonT(40) DEF Runtimes
<1> PICK r \in Runtimes : r = [was EXCEPT !.inFlight = free, !.told = now]
  BY <1>1
<1>2. /\ r.inFlight = free /\ r.told = now /\ r.bound = was.bound
      /\ r.dir = was.dir /\ r.child = was.child
  BY DEF Runtimes
<1>3. SetTo(heard, i, r)
  BY DEF TypeOK, SetTo, ToldTo
<1>4. heard \in [Ids -> Runtimes] /\ heard[i] = r /\ \A j \in Ids : j # i => heard[j] = rt[j]
  BY <1>3, RuntimeSet
<1> QED BY <1>2, <1>4

(* The response of a request, with which the manager may end.                *)
LEMMA RespondKept ==
    ASSUME NrInv, NEW q \in Requests, Respond(q) PROVE NrInv'
<1> PICK i \in Ids : i = req[q].id BY IdTyped DEF Respond, At
<1>1. /\ TypeOK /\ ThreadInv /\ FlightInv /\ ToldInv /\ LeftInv /\ RuntimeLimit /\ ThreadShape(q)
      /\ req[q].pc = "done" /\ session # "exited" /\ shutting' = shutting /\ deaths' = deaths
      /\ active' = (IF Exits(q) THEN {} ELSE active)
      /\ session' = (IF Exits(q) THEN "exited" ELSE session)
      /\ req' = [req EXCEPT ![q].pc = "answered", ![q].node = Block]
      /\ rt \in [Ids -> Runtimes] /\ rt[i] \in Runtimes /\ req[q].node \in 0..NodeCount
      /\ active \subseteq Ids
  BY DEF Respond, At, NrInv, ThreadInv, TypeOK, Threads
<1>2. ThreadTo(q, "answered", req[q].answer, Block)
  <2>1. Block \in 0..NodeCount
    BY RuntimeAssumption DEF Block
  <2> PICK block \in 0..NodeCount : block = Block
    BY <2>1
  <2>2. req' = [req EXCEPT ![q].pc = "answered", ![q].node = block]
    BY <1>1
  <2>3. req \in [Requests -> Threads]
    BY <1>1 DEF TypeOK
  <2>4. ThreadTo(q, "answered", req[q].answer, block)
    <3> PICK was \in Threads : was = req[q]
      BY <2>3
    <3>a. [was EXCEPT !.pc = "answered", !.node = block] \in Threads
      BY ZenonT(40) DEF Threads
    <3>b. PICK r \in Threads : r = [was EXCEPT !.pc = "answered", !.node = block]
      BY <3>a
    <3>c. r.method = was.method /\ r.id = was.id /\ r.pc = "answered" /\ r.answer = was.answer /\ r.node = block
      BY <3>b DEF Threads
    <3>d. req' = [req EXCEPT ![q] = r]
      BY <3>b, <2>2, <2>3
    <3> QED BY <2>3, <3>c, <3>d DEF ThreadTo, TypeOK
  <2> QED BY <2>4
<1>3. /\ ThreadShape(q)' /\ ~Holder(q)' /\ ~Owner(q)' /\ ~Telling(q)' /\ ~Keeper(q) /\ ~Keeper(q)'
  BY <1>1, <1>2 DEF ThreadTo, ThreadShape, Holder, Owner, Telling, Keeper
<1>4. Completes(q) <=> Holder(q)
  BY <1>1 DEF Completes, Holder
<1>5. req[q].answer = "node" => Holder(q) /\ rt[i].bound = req[q].node
  BY <1>1 DEF Holder, ThreadShape, ToldInv, Telling
<1>f. PICK free \in BOOLEAN, now \in 0..NodeCount :
        /\ free = (rt[i].inFlight /\ ~(Completes(q) /\ i \in active))
        /\ now = (IF req[q].answer = "node" THEN req[q].node
                  ELSE IF Completes(q) THEN Block ELSE rt[i].told)
  <2>1. (rt[i].inFlight /\ ~(Completes(q) /\ i \in active)) \in BOOLEAN
    OBVIOUS
  <2>2. (IF req[q].answer = "node" THEN req[q].node
         ELSE IF Completes(q) THEN Block ELSE rt[i].told) \in 0..NodeCount
    <3>1. Block \in 0..NodeCount /\ rt[i].told \in 0..NodeCount
      BY <1>1, RuntimeAssumption DEF Block, Runtimes
    <3> QED BY <1>1, <3>1
  <2> QED BY <2>1, <2>2
<1>t. PICK heard : ToldTo(heard, i, free, now)
  BY DEF ToldTo
<1>6. /\ heard \in [Ids -> Runtimes]
      /\ \A j \in Ids : j # i => heard[j] = rt[j]
      /\ heard[i].inFlight = free /\ heard[i].told = now /\ heard[i].bound = rt[i].bound
      /\ heard[i].dir = rt[i].dir /\ heard[i].child = rt[i].child
  <2>1. TypeOK
    BY <1>1
  <2>2. \A j \in Ids, a \in BOOLEAN, b \in 0..NodeCount : ToldTo(heard, j, a, b) =>
           /\ heard \in [Ids -> Runtimes] /\ \A k \in Ids : k # j => heard[k] = rt[k]
           /\ heard[j].inFlight = a /\ heard[j].told = b /\ heard[j].bound = rt[j].bound
           /\ heard[j].dir = rt[j].dir /\ heard[j].child = rt[j].child
    BY <2>1, RuntimeTold
  <2> QED BY <2>2, <1>t
<1>7. rt' = [j \in Ids |-> IF Exits(q) /\ j \in active THEN ShutDown(heard[j]) ELSE heard[j]]
  <2>1. heard = [rt EXCEPT ![req[q].id].inFlight = rt[req[q].id].inFlight /\ ~(Completes(q) /\ req[q].id \in active),
                          ![req[q].id].told = IF req[q].answer = "node" THEN req[q].node
                                              ELSE IF Completes(q) THEN Block ELSE rt[req[q].id].told]
    BY <1>f, <1>t DEF ToldTo
  <2> QED BY <2>1 DEF Respond
<1>8. ASSUME NEW j \in Ids
      PROVE  /\ rt'[j] \in Runtimes /\ rt'[j].inFlight = heard[j].inFlight
             /\ rt'[j].bound = heard[j].bound /\ rt'[j].told = heard[j].told
             /\ Left(j)' => Left(j) /\ ~(Exits(q) /\ j \in active)
  <2> PICK t \in Runtimes : t = heard[j]
    BY <1>6
  <2>1. t.dir = rt[j].dir /\ t.child = rt[j].child
    BY <1>6
  <2>2. CASE Exits(q) /\ j \in active
    <3>1. rt'[j] = ShutDown(t)
      BY <1>7, <2>2
    <3> QED BY <3>1, ShutDownTo DEF Left
  <2>3. CASE ~(Exits(q) /\ j \in active)
    <3>1. rt'[j] = t
      BY <1>7, <2>3
    <3> QED BY <2>1, <2>3, <3>1 DEF Left
  <2> QED BY <2>2, <2>3
<1>9. Exits(q) => \A j \in Ids : ~Left(j)'
  <2> SUFFICES ASSUME Exits(q), NEW j \in Ids, Left(j)' PROVE FALSE
    OBVIOUS
  <2>1. Left(j) /\ j \notin active
    BY <1>8
  <2>2. Pending \subseteq {q}
    BY DEF Exits
  <2> QED BY <1>3, <2>1, <2>2, NothingElse
<1>10. TypeOK'
  <2>1. rt' \in [Ids -> Runtimes]
    BY <1>7, <1>8
  <2>2. session' \in {"open", "closed", "exited", "failed"} /\ active' \subseteq Ids
    BY <1>1 DEF TypeOK
  <2> QED BY <1>1, <1>2, <2>1, <2>2, ThreadTyped DEF TypeOK
<1>11. ThreadInv'
  BY <1>1, <1>2, <1>3, ThreadKept
<1>12. FlightInv'
  <2>1. \A j \in Ids : j # i /\ j \in active' => j \in active /\ rt'[j].inFlight = rt[j].inFlight
    BY <1>1, <1>6, <1>8
  <2>2. i \in active' => \/ Alone(q)
                         \/ /\ i \in active /\ (rt[i].inFlight => rt'[i].inFlight)
                            /\ Holder(q)' => Holder(q)
    <3>1. CASE Holder(q) /\ i \in active
      BY <1>1, <3>1 DEF FlightInv, Alone
    <3>2. CASE ~(Holder(q) /\ i \in active)
      BY <1>1, <1>3, <1>4, <1>6, <1>8, <1>f, <3>2
    <3> QED BY <3>1, <3>2
  <2>3. active' \subseteq Ids
    BY <1>1
  <2> QED BY <1>1, <1>2, <1>3, <2>1, <2>2, <2>3, FlightKept
<1>13. ToldInv'
  <2>1. \A j \in Ids : j # i => rt'[j].bound = rt[j].bound /\ rt'[j].told = rt[j].told
    BY <1>6, <1>8
  <2>2. rt'[i].bound = rt[i].bound /\ rt'[i].told = now
    BY <1>6, <1>8
  <2>3. \/ rt'[i].told = Block
        \/ rt'[i].bound = rt'[i].told
        \/ Holder(q)'
        \/ rt'[i].bound = rt[i].bound /\ rt'[i].told = rt[i].told /\ ~Holder(q)
    BY <1>4, <1>5, <1>f, <2>2
  <2> QED BY <1>1, <1>2, <1>3, <2>1, <2>2, <2>3, ToldKept
<1>14. LeftInv'
  <2>1. CASE Exits(q)
    <3>1. \A p \in Requests : req'[p].pc = "end" => Cleared(p)'
      <4>1. \A p \in Requests : req'[p].pc = "end" => req'[p].id \in Ids
        BY <1>11 DEF ThreadInv, ThreadShape
      <4> QED BY <1>9, <2>1, <4>1 DEF Cleared, Left
    <3> QED BY <1>9, <2>1, <3>1 DEF LeftInv
  <2>2. CASE ~Exits(q)
    <3>1. active' = active /\ session' # "exited"
      BY <1>1, <2>2
    <3>2. \A j \in Ids : Left(j)' => Left(j)
      BY <1>8
    <3>3. \/ ~Left(i)'
          \/ i \in active' \/ Keeper(q)'
          \/ Left(i) /\ ~Keeper(q) /\ i \notin active
      BY <1>3, <3>1, <3>2
    <3> QED BY <1>1, <1>2, <3>1, <3>2, <3>3, LeftKept
  <2> QED BY <2>1, <2>2
<1>15. RuntimeLimit'
  BY <1>1, FS_EmptySet, RuntimeAssumption DEF RuntimeLimit
<1> QED BY <1>10, <1>11, <1>12, <1>13, <1>14, <1>15 DEF NrInv

-----------------------------------------------------------------------------
(* The theorems.                                                             *)

LEMMA NrInit == ASSUME Init PROVE NrInv
<1>1. TypeOK
  <2>1. NoRequest \in Threads
    BY RuntimeAssumption DEF NoRequest, Threads, Block
  <2>2. 0 \in 0..MaxDeaths
    BY RuntimeAssumption
  <2> QED BY <2>1, <2>2, NoRuntimeTyped DEF Init, TypeOK
<1>2. \A q \in Requests : req[q] = NoRequest
  BY DEF Init
<1>3. \A q \in Requests : /\ ThreadShape(q) /\ ~Creator(q) /\ ~User(q) /\ ~Holder(q) /\ ~Owner(q)
                          /\ ~Telling(q) /\ req[q].pc # "end"
  BY <1>2 DEF NoRequest, ThreadShape, Creator, User, Holder, Owner, Telling
<1>4. \A i \in Ids : ~Left(i) /\ rt[i].told = Block
  BY DEF Init, NoRuntime, Left
<1>5. RuntimeLimit
  BY FS_EmptySet, RuntimeAssumption DEF Init, RuntimeLimit
<1> QED BY <1>1, <1>3, <1>4, <1>5 DEF NrInv, ThreadInv, FlightInv, ToldInv, LeftInv, Init

LEMMA NrStep == ASSUME NrInv, NrNext PROVE NrInv'
<1>1. ASSUME NEW q \in Requests, NEW method \in {"create", "next", "step", "close"}, NEW i \in Ids,
             Arrive(q, method, i)
      PROVE  NrInv'
  BY <1>1, ArriveKept
<1>2. ASSUME NEW q \in Requests, Step(q) PROVE NrInv'
  <2>1. CASE CreateChecks(q) BY <2>1, CreateChecksKept
  <2>2. CASE CreateStarts(q) BY <2>2, CreateStartsKept
  <2>3. CASE CreateStarted(q) BY <2>3, CreateStartedKept
  <2>4. CASE CreateInserts(q) BY <2>4, CreateInsertsKept
  <2>5. CASE CreateDrops(q) BY <2>5, CreateDropsKept
  <2>6. CASE TraverseEnters(q) BY <2>6, TraverseEntersKept
  <2>7. CASE TraverseBegins(q) BY <2>7, TraverseBeginsKept
  <2>8. CASE TraverseScans(q) BY <2>8, TraverseScansKept
  <2>9. CASE TraverseBinds(q) BY <2>9, TraverseBindsKept
  <2>10. CASE TraverseEnds(q) BY <2>10, TraverseEndsKept
  <2>11. CASE CloseRemoves(q) BY <2>11, CloseRemovesKept
  <2>12. CASE CloseShuts(q) BY <2>12, CloseShutsKept
  <2>13. CASE Respond(q) BY <2>13, RespondKept
  <2> QED BY <1>2, <2>1, <2>2, <2>3, <2>4, <2>5, <2>6, <2>7, <2>8, <2>9, <2>10, <2>11, <2>12, <2>13 DEF Step
<1>3. CASE Eof BY <1>3, EofKept
<1>4. CASE InputFails BY <1>4, InputFailsKept
<1>5. ASSUME NEW i \in Ids, ChildEnds(i) PROVE NrInv'
  BY <1>5, ChildEndsKept
<1> QED BY <1>1, <1>2, <1>3, <1>4, <1>5 DEF NrNext

LEMMA NrStutter == ASSUME NrInv, UNCHANGED nrVars PROVE NrInv'
<1>1. \A q \in Requests : /\ Holder(q)' <=> Holder(q)
                          /\ Owner(q)' <=> Owner(q)
                          /\ Telling(q)' <=> Telling(q)
                          /\ Keeper(q)' <=> Keeper(q)
                          /\ ThreadShape(q)' <=> ThreadShape(q)
                          /\ Creator(q)' <=> Creator(q)
                          /\ User(q)' <=> User(q)
                          /\ Served(q)' <=> Served(q)
                          /\ Cleared(q)' <=> Cleared(q)
  BY DEF nrVars, Holder, Owner, Telling, Keeper, ThreadShape, Creator, User, Served, Known, Cleared, Left
<1>2. \A j \in Ids : Left(j)' <=> Left(j)
  BY DEF nrVars, Left
<1>3. TypeOK' /\ RuntimeLimit'
  BY DEF NrInv, TypeOK, RuntimeLimit, nrVars
<1>4. ThreadInv' /\ FlightInv'
  BY <1>1 DEF NrInv, ThreadInv, FlightInv, nrVars
<1>5. ToldInv' /\ LeftInv'
  BY <1>1, <1>2 DEF NrInv, ToldInv, LeftInv, nrVars
<1> QED BY <1>3, <1>4, <1>5 DEF NrInv

(* The inductive invariant: what every thread may be at, who holds and owns  *)
(* a runtime, and what each runtime and directory is there for.              *)
THEOREM RuntimeInvariant == Spec => []NrInv
<1>1. Init => NrInv
  BY NrInit
<1>2. NrInv /\ [NrNext]_nrVars => NrInv'
  BY NrStep, NrStutter
<1> QED BY <1>1, <1>2, PTL DEF Spec

LEMMA SoundInvariant == ASSUME NrInv PROVE RuntimesSound
<1>1. /\ TypeOK /\ ThreadInv /\ FlightInv /\ ToldInv /\ LeftInv /\ RuntimeLimit
  BY DEF NrInv
<1>2. ProxyIsAsTold
  <2>1. \A q \in Requests : At(q, "done") /\ req[q].answer = "node" => rt[req[q].id].bound = req[q].node
    BY <1>1 DEF ToldInv, Telling, At
  <2>2. ASSUME NEW i \in Ids, rt[i].told # Block,
               \A q \in Pending : req[q].id = i => req[q].method = "close"
        PROVE  rt[i].bound = rt[i].told
    <3>1. ASSUME NEW q \in Requests, req[q].id = i, Holder(q) PROVE FALSE
      BY <2>2, <3>1 DEF Holder, Pending
    <3> QED BY <1>1, <2>2, <3>1 DEF ToldInv
  <2> QED BY <2>1, <2>2 DEF ProxyIsAsTold
<1>3. NothingLeft
  <2>1. session = "exited" => \A i \in Ids : rt[i].child # "up" /\ ~rt[i].dir
    BY <1>1 DEF LeftInv, Left
  <2>2. ASSUME NEW i \in Ids, rt[i].dir
        PROVE  i \in active \/ \E q \in Pending : req[q].id = i /\ req[q].pc # "done"
    BY <1>1, <2>2 DEF LeftInv, Left, Keeper, Pending
  <2> QED BY <2>1, <2>2 DEF NothingLeft
<1> QED BY <1>1, <1>2, <1>3 DEF RuntimesSound

(* Runtimes are used as told, within their limit, and cleared away: the      *)
(* proxy of a runtime leads to the node its client was last told until that  *)
(* client asks for another one; creations under way at the same time never   *)
(* fill more than the slots; and no sing-box or directory outlives the       *)
(* manager's orderly end.                                                    *)
THEOREM RuntimesAreSound == Spec => []RuntimesSound
BY RuntimeInvariant, SoundInvariant, PTL

-----------------------------------------------------------------------------
(* A refresh that meets no other one leaves config and cache agreed, and a   *)
(* commit the worker reported is never forgotten, for any number of sources, *)
(* versions, runs and faults.                                                *)
(*                                                                           *)
(* A run that began alone knows the cache step by step as long as the other  *)
(* actor stays idle, and it stops counting as alone when that one begins.    *)

Entry == [ver : Nat, age : {"fresh", "old", "other"}]
Run == [pc : {"idle", "load", "resolve", "save", "saving", "commit", "done"},
        read : [Sources -> Entry], pay : [Sources -> Nat], got : SUBSET Sources,
        stale : BOOLEAN, force : BOOLEAN, active : BOOLEAN, alone : BOOLEAN,
        result : {"none", "failed", "updated", "unchanged"}]

RefreshTypes ==
    /\ server \in [Sources -> Nat] /\ cache \in [Sources -> Entry]
    /\ torn \in BOOLEAN /\ config \in [Sources -> Nat]
    /\ run \in [Actors -> Run]
    /\ pending \in BOOLEAN /\ due \in BOOLEAN /\ moving \in BOOLEAN
    /\ commits \in Nat /\ loaded \in Nat /\ told \in Nat

(* What a run of an actor that no other run has met knows: the cache is      *)
(* whole but while the run itself writes it, and it has what the run read    *)
(* and, once saved, what the run is about to commit.                         *)
Undisturbed(a) ==
    LET r == run[a] IN
    /\ \A b \in Actors : b # a => run[b].pc = "idle"
    /\ r.pc \in {"resolve", "save", "commit"} => ~torn
    /\ r.pc = "resolve" => \A s \in Sources : r.read[s].ver = cache[s].ver
    /\ r.pc \in {"save", "saving"} => \A s \in Sources \ r.got : r.pay[s] = r.read[s].ver
    /\ r.pc = "save" => \A s \in Sources \ r.got : r.pay[s] = cache[s].ver
    /\ r.pc = "commit" => \A s \in Sources : r.pay[s] = cache[s].ver
    /\ r.pc = "done" /\ r.result # "failed" /\ r.active /\ ~r.stale =>
          ~torn /\ \A s \in Sources : config[s] = cache[s].ver
AloneInv == \A a \in Actors : run[a].alone /\ run[a].pc # "idle" => Undisturbed(a)

(* What is loaded and told is committed, and only a report has a result.     *)
OweInv == /\ told <= commits /\ loaded <= commits
          /\ \A a \in Actors : run[a].result # "none" => run[a].pc = "done"
          /\ ReloadOwed

RefreshInv == RefreshTypes /\ AloneInv /\ OweInv

LEMMA IdleTyped == Idle \in Run /\ NoEntry \in Entry
BY DEF Idle, NoEntry, Entry, Run

LEMMA RefreshStarts == ASSUME RefreshInit PROVE RefreshInv
<1>1. RefreshTypes
  <2>1. cache \in [Sources -> Entry] /\ run \in [Actors -> Run]
    BY IdleTyped DEF RefreshInit
  <2>2. server \in [Sources -> Nat] /\ config \in [Sources -> Nat]
    BY DEF RefreshInit
  <2> QED BY <2>1, <2>2 DEF RefreshInit, RefreshTypes
<1>2. \A a \in Actors : run[a].pc = "idle" /\ run[a].result = "none"
  BY DEF Idle, RefreshInit
<1>3. AloneInv /\ OweInv
  BY <1>2 DEF AloneInv, OweInv, ReloadOwed, RefreshInit
<1> QED BY <1>1, <1>3 DEF RefreshInv

(* A run under way disturbs those of the other actor.                        *)
LEMMA OneAlone ==
    ASSUME AloneInv, NEW a \in Actors, NEW b \in Actors, a # b, run[a].pc # "idle"
    PROVE  ~(run[b].alone /\ run[b].pc # "idle")
BY DEF AloneInv, Undisturbed

(* A step of a run that goes on to r.                                        *)
LEMMA RunGoesOn ==
    ASSUME RefreshInv, NEW a \in Actors, NEW r \in Run, run[a].pc \notin {"idle", "done"},
           run' = [run EXCEPT ![a] = r], r.pc # "idle", r.result # "none" => r.pc = "done",
           r.alone = run[a].alone, r.alone => Undisturbed(a)',
           cache' \in [Sources -> Entry], torn' \in BOOLEAN,
           UNCHANGED <<server, config, commits, told, Tui>>
    PROVE  RefreshInv'
<1>1. RefreshTypes /\ AloneInv /\ OweInv
  BY DEF RefreshInv
<1>2. RefreshTypes'
  BY <1>1 DEF RefreshTypes, Tui
<1>3. run'[a] = r /\ \A b \in Actors : b # a => run'[b] = run[b]
  BY <1>1 DEF RefreshTypes
<1>4. AloneInv'
  BY <1>1, <1>3, OneAlone DEF AloneInv
<1>5. run["tui"].result # "updated" \/ run["tui"].pc = "done"
  BY <1>1 DEF OweInv, Actors
<1>6. OweInv'
  BY <1>1, <1>3, <1>5 DEF OweInv, ReloadOwed, Tui
<1> QED BY <1>2, <1>4, <1>6 DEF RefreshInv

(* A run that fails.                                                         *)
LEMMA FailedKept ==
    ASSUME RefreshInv, NEW a \in Actors, run[a].pc \notin {"idle", "done"},
           run' = Failed(a), UNCHANGED <<server, Files, Tui>>
    PROVE  RefreshInv'
<1>1. RefreshTypes /\ AloneInv /\ OweInv /\ run[a] \in Run
  BY DEF RefreshInv, RefreshTypes
<1> DEFINE r == [Idle EXCEPT !.pc = "done", !.result = "failed", !.stale = run[a].stale,
                             !.active = run[a].active, !.alone = run[a].alone]
<1>2. run' = [run EXCEPT ![a] = r]
  BY DEF Failed, Done
<1>3. r \in Run /\ r.pc = "done" /\ r.result = "failed" /\ r.alone = run[a].alone
  BY <1>1, IdleTyped DEF Run, Idle
<1>4. run'[a] = r /\ \A b \in Actors : b # a => run'[b] = run[b]
  BY <1>1, <1>2 DEF RefreshTypes
<1>5. r.alone => Undisturbed(a)'
  BY <1>1, <1>3, <1>4 DEF AloneInv, Undisturbed
<1>6. cache' \in [Sources -> Entry] /\ torn' \in BOOLEAN
  BY <1>1 DEF RefreshTypes, Files
<1> HIDE DEF r
<1> QED BY <1>2, <1>3, <1>5, <1>6, RunGoesOn DEF Files

(* The steps of a run.                                                       *)
LEMMA LoadCacheKept == ASSUME RefreshInv, NEW a \in Actors, LoadCache(a) PROVE RefreshInv'
<1>1. RefreshTypes /\ AloneInv /\ OweInv /\ run[a] \in Run /\ run[a].pc = "load"
  BY DEF RefreshInv, RefreshTypes, LoadCache
<1>2. CASE torn
  BY <1>1, <1>2, FailedKept DEF LoadCache, Files, Tui
<1>3. CASE ~torn
  <2> DEFINE r == [run[a] EXCEPT !.pc = "resolve", !.read = cache]
  <2>1. run' = [run EXCEPT ![a] = r]
    BY <1>1, <1>3 DEF LoadCache, RefreshTypes
  <2>2. r \in Run /\ r.pc = "resolve" /\ r.result = run[a].result /\ r.alone = run[a].alone /\ r.read = cache
    BY <1>1 DEF Run, RefreshTypes
  <2>3. run'[a] = r /\ \A b \in Actors : b # a => run'[b] = run[b]
    BY <1>1, <2>1, <2>2 DEF RefreshTypes
  <2> HIDE DEF r
  <2>4. UNCHANGED <<server, cache, torn, config, commits, told, Tui>> /\ r.result = "none"
    BY <1>1, <2>2 DEF LoadCache, OweInv, Files
  <2>5. ASSUME r.alone PROVE Undisturbed(a)'
    <3>1. Undisturbed(a)
      BY <1>1, <2>2, <2>5 DEF AloneInv
    <3> QED BY <1>3, <2>2, <2>3, <2>4, <3>1 DEF Undisturbed
  <2> QED BY <1>1, <2>1, <2>2, <2>4, <2>5, RunGoesOn DEF RefreshTypes
<1> QED BY <1>2, <1>3

LEMMA ResolveKept ==
    ASSUME RefreshInv, NEW a \in Actors, NEW bad \in SUBSET Sources, Resolve(a, bad)
    PROVE  RefreshInv'
<1> DEFINE read == run[a].read
           got == {s \in Sources \ bad : ~FromCache(a, s)}
           pay == [s \in Sources |-> IF s \in got THEN server[s] ELSE read[s].ver]
<1>1. RefreshTypes /\ AloneInv /\ OweInv /\ run[a] \in Run /\ run[a].pc = "resolve"
  BY DEF RefreshInv, RefreshTypes, Resolve
<1>2. CASE \E s \in bad : read[s].age = "other"
  BY <1>1, <1>2, FailedKept DEF Resolve
<1>3. CASE ~\E s \in bad : read[s].age = "other"
  <2> DEFINE r == [run[a] EXCEPT !.pc = "save", !.pay = pay, !.got = got,
                                 !.stale = bad # {}, !.force = FALSE]
  <2>1. run' = [run EXCEPT ![a] = r]
    BY <1>1, <1>3 DEF Resolve, RefreshTypes
  <2>2. pay \in [Sources -> Nat] /\ got \in SUBSET Sources
    BY <1>1 DEF RefreshTypes, Run, Entry
  <2>3. /\ r \in Run /\ r.pc = "save" /\ r.result = run[a].result /\ r.alone = run[a].alone
        /\ r.pay = pay /\ r.got = got /\ r.read = read
    BY <1>1, <2>2 DEF Run
  <2>4. run'[a] = r /\ \A b \in Actors : b # a => run'[b] = run[b]
    BY <1>1, <2>1 DEF RefreshTypes
  <2>5. UNCHANGED <<server, cache, torn, config, commits, told, Tui>> /\ r.result = "none"
    BY <1>1, <2>3 DEF Resolve, OweInv, Files
  <2>6. \A s \in Sources \ got : pay[s] = read[s].ver
    OBVIOUS
  <2> HIDE DEF r, pay, got
  <2>7. ASSUME r.alone PROVE Undisturbed(a)'
    <3>1. Undisturbed(a)
      BY <1>1, <2>3, <2>7 DEF AloneInv
    <3>2. \A s \in Sources \ got : pay[s] = cache[s].ver
      BY <1>1, <2>6, <3>1 DEF Undisturbed
    <3> QED BY <1>1, <2>3, <2>4, <2>5, <2>6, <3>1, <3>2 DEF Undisturbed
  <2> QED BY <1>1, <2>1, <2>3, <2>5, <2>7, RunGoesOn DEF RefreshTypes
<1> QED BY <1>2, <1>3

(* A run goes on to pc, and may have written the cache.                      *)
LEMMA RunMovesOn ==
    ASSUME RefreshInv, NEW a \in Actors, run[a].pc \notin {"idle", "done"},
           NEW goal \in {"saving", "commit"}, run' = [run EXCEPT ![a].pc = goal],
           cache' \in [Sources -> Entry], torn' \in BOOLEAN,
           run[a].alone => Undisturbed(a)',
           UNCHANGED <<server, config, commits, told, Tui>>
    PROVE  RefreshInv'
<1>1. RefreshTypes /\ AloneInv /\ OweInv /\ run[a] \in Run
  BY DEF RefreshInv, RefreshTypes
<1> DEFINE r == [run[a] EXCEPT !.pc = goal]
<1>2. run' = [run EXCEPT ![a] = r]
  BY <1>1 DEF RefreshTypes
<1>3. r \in Run /\ r.pc = goal /\ r.result = run[a].result /\ r.alone = run[a].alone
  BY <1>1 DEF Run
<1>4. r.result = "none"
  BY <1>1, <1>3 DEF OweInv
<1> HIDE DEF r
<1> QED BY <1>2, <1>3, <1>4, RunGoesOn

(* What moving on changes of a run.                                          *)
LEMMA MovedRun ==
    ASSUME RefreshTypes, NEW a \in Actors, NEW goal, run' = [run EXCEPT ![a].pc = goal]
    PROVE  /\ run'[a].pc = goal
           /\ run'[a].read = run[a].read /\ run'[a].pay = run[a].pay /\ run'[a].got = run[a].got
           /\ \A b \in Actors : b # a => run'[b] = run[b]
BY DEF RefreshTypes, Run

LEMMA SaveBeginsKept == ASSUME RefreshInv, NEW a \in Actors, SaveBegins(a) PROVE RefreshInv'
<1>1. RefreshTypes /\ AloneInv /\ run[a].pc = "save" /\ run' = [run EXCEPT ![a].pc = "saving"]
  BY DEF RefreshInv, SaveBegins
<1>2. /\ run'[a].pc = "saving" /\ run'[a].read = run[a].read /\ run'[a].pay = run[a].pay
      /\ run'[a].got = run[a].got /\ \A b \in Actors : b # a => run'[b] = run[b]
  BY <1>1, MovedRun
<1>3. ASSUME run[a].alone PROVE Undisturbed(a)'
  <2>1. Undisturbed(a)
    BY <1>1, <1>3 DEF AloneInv
  <2> QED BY <1>1, <1>2, <2>1 DEF Undisturbed
<1> QED BY <1>1, <1>3, RunMovesOn DEF SaveBegins, RefreshTypes

LEMMA SaveEndsKept == ASSUME RefreshInv, NEW a \in Actors, SaveEnds(a) PROVE RefreshInv'
<1>1. /\ RefreshTypes /\ AloneInv /\ run[a] \in Run /\ run[a].pc = "saving"
      /\ run' = [run EXCEPT ![a].pc = "commit"]
  BY DEF RefreshInv, SaveEnds, RefreshTypes
<1>2. cache' = [s \in Sources |-> IF s \in run[a].got THEN [ver |-> run[a].pay[s], age |-> "fresh"]
                                  ELSE run[a].read[s]]
  BY DEF SaveEnds
<1>3. cache' \in [Sources -> Entry]
  BY <1>1, <1>2 DEF Run, Entry
<1>4. ASSUME run[a].alone PROVE \A s \in Sources : run[a].pay[s] = cache'[s].ver
  BY <1>1, <1>2, <1>4 DEF AloneInv, Undisturbed
<1>5. run[a].alone => Undisturbed(a)'
  BY <1>1, <1>4, MovedRun DEF AloneInv, Undisturbed, SaveEnds
<1> QED BY <1>1, <1>3, <1>5, RunMovesOn DEF SaveEnds

LEMMA SaveSkippedKept == ASSUME RefreshInv, NEW a \in Actors, SaveSkipped(a) PROVE RefreshInv'
<1>1. /\ RefreshTypes /\ AloneInv /\ run[a].pc = "save" /\ run[a].got = {}
      /\ run' = [run EXCEPT ![a].pc = "commit"] /\ UNCHANGED <<server, Files, Tui>>
  BY DEF RefreshInv, SaveSkipped
<1>2. run[a].alone => Undisturbed(a)'
  BY <1>1, MovedRun DEF AloneInv, Undisturbed, Files
<1> QED BY <1>1, <1>2, RunMovesOn DEF Files, RefreshTypes

LEMMA CommitKept == ASSUME RefreshInv, NEW a \in Actors, Commit(a) PROVE RefreshInv'
<1>1. RefreshTypes /\ AloneInv /\ OweInv /\ run[a] \in Run /\ run[a].pc = "commit"
  BY DEF RefreshInv, RefreshTypes, Commit
<1> DEFINE result == IF Commits(run[a]) THEN "updated" ELSE "unchanged"
           r == [Idle EXCEPT !.pc = "done", !.result = result, !.stale = run[a].stale,
                             !.active = run[a].active, !.alone = run[a].alone]
<1>2. run' = [run EXCEPT ![a] = r]
  BY DEF Commit, Done
<1>3. /\ r \in Run /\ r.pc = "done" /\ r.result = result /\ r.alone = run[a].alone
      /\ r.stale = run[a].stale /\ r.active = run[a].active
  BY <1>1, IdleTyped DEF Run, Idle
<1>4. run'[a] = r /\ \A b \in Actors : b # a => run'[b] = run[b]
  BY <1>1, <1>2 DEF RefreshTypes
<1>5. UNCHANGED <<server, cache, torn, Tui>>
  BY DEF Commit
<1> HIDE DEF r
<1>6. CASE Commits(run[a])
  <2>1. /\ config' = run[a].pay /\ commits' = commits + 1 /\ result = "updated"
        /\ told' = IF a = "tui" THEN commits' ELSE told
    BY <1>6 DEF Commit
  <2>2. RefreshTypes'
    BY <1>1, <1>2, <1>3, <1>5, <2>1 DEF RefreshTypes, Run, Tui
  <2>3. AloneInv'
    BY <1>1, <1>3, <1>4, <1>5, <2>1, OneAlone DEF AloneInv, Undisturbed
  <2>4. OweInv'
    BY <1>1, <1>3, <1>4, <1>5, <2>1 DEF OweInv, ReloadOwed, RefreshTypes, Actors, Tui
  <2> QED BY <2>2, <2>3, <2>4 DEF RefreshInv
<1>7. CASE ~Commits(run[a])
  <2>1. result = "unchanged" /\ UNCHANGED <<config, commits, told>>
    BY <1>7 DEF Commit
  <2>2. r.alone => Undisturbed(a)'
    BY <1>1, <1>3, <1>4, <1>7 DEF AloneInv, Undisturbed, Commits
  <2> QED BY <1>1, <1>2, <1>3, <1>5, <2>1, <2>2, RunGoesOn DEF RefreshTypes
<1> QED BY <1>6, <1>7

(* A commit that fails with the new config in place is nobody's to tell.     *)
LEMMA CommitStaysKept == ASSUME RefreshInv, NEW a \in Actors, CommitStays(a) PROVE RefreshInv'
<1>1. RefreshTypes /\ AloneInv /\ OweInv /\ run[a] \in Run /\ run[a].pc = "commit"
  BY DEF RefreshInv, RefreshTypes, CommitStays
<1> DEFINE r == [Idle EXCEPT !.pc = "done", !.result = "failed", !.stale = run[a].stale,
                             !.active = run[a].active, !.alone = run[a].alone]
<1>2. run' = [run EXCEPT ![a] = r]
  BY DEF CommitStays, Failed, Done
<1>3. r \in Run /\ r.pc = "done" /\ r.result = "failed" /\ r.alone = run[a].alone
  BY <1>1, IdleTyped DEF Run, Idle
<1>4. run'[a] = r /\ \A b \in Actors : b # a => run'[b] = run[b]
  BY <1>1, <1>2 DEF RefreshTypes
<1>5. UNCHANGED <<server, cache, torn, told, Tui>> /\ config' = run[a].pay /\ commits' = commits + 1
  BY DEF CommitStays
<1> HIDE DEF r
<1>6. RefreshTypes'
  BY <1>1, <1>2, <1>3, <1>5 DEF RefreshTypes, Run, Tui
<1>7. AloneInv'
  BY <1>1, <1>3, <1>4, <1>5, OneAlone DEF AloneInv, Undisturbed
<1>8. OweInv'
  <2>1. run'["tui"].result = "updated" <=> run["tui"].result = "updated"
    BY <1>1, <1>3, <1>4 DEF OweInv, Actors
  <2>2. \A b \in Actors : run'[b].result # "none" => run'[b].pc = "done"
    BY <1>1, <1>3, <1>4 DEF OweInv
  <2> QED BY <1>1, <1>5, <2>1, <2>2 DEF OweInv, ReloadOwed, RefreshTypes, Tui
<1> QED BY <1>6, <1>7, <1>8 DEF RefreshInv

LEMMA RunStepKept == ASSUME RefreshInv, NEW a \in Actors, RunStep(a) PROVE RefreshInv'
<1>1. CASE Unparsable(a)
  BY <1>1, FailedKept DEF Unparsable
<1>2. CASE CommitFails(a)
  BY <1>2, FailedKept DEF CommitFails
<1> QED BY <1>1, <1>2, LoadCacheKept, ResolveKept, SaveBeginsKept, SaveEndsKept, SaveSkippedKept,
           CommitKept, CommitStaysKept DEF RunStep

LEMMA BeginKept ==
    ASSUME RefreshInv, NEW a \in Actors, NEW force \in BOOLEAN, NEW main \in BOOLEAN,
           Begin(a, force, main)
    PROVE  RefreshInv'
<1>1. RefreshTypes /\ AloneInv /\ OweInv /\ UNCHANGED <<server, Files, Tui>> /\ run[a].pc = "idle"
  BY DEF RefreshInv, Begin
<1> DEFINE quiet == run = [c \in Actors |-> Idle]
           r == [Idle EXCEPT !.pc = "load", !.force = force, !.active = main, !.alone = quiet]
<1>2. run' = [b \in Actors |-> IF b = a THEN r ELSE [run[b] EXCEPT !.alone = FALSE]]
  BY DEF Begin
<1>3. r \in Run /\ r.pc = "load" /\ r.result = "none" /\ r.alone = quiet
  BY IdleTyped DEF Run, Idle
<1>4. quiet => \A b \in Actors : run[b].pc = "idle"
  BY DEF Idle
<1> HIDE DEF r, quiet
<1>5. run'[a] = r
  BY <1>2
<1>6. ASSUME NEW b \in Actors, b # a
      PROVE  run'[b] \in Run /\ run'[b].pc = run[b].pc /\ run'[b].result = run[b].result /\ ~run'[b].alone
  <2>1. run[b] \in Run
    BY <1>1 DEF RefreshTypes
  <2>2. run'[b] = [run[b] EXCEPT !.alone = FALSE]
    BY <1>2, <1>6
  <2> QED BY <2>1, <2>2 DEF Run
<1>7. RefreshTypes'
  <2>1. run' \in [Actors -> Run]
    BY <1>2, <1>3, <1>5, <1>6
  <2> QED BY <1>1, <2>1 DEF RefreshTypes, Files, Tui
<1>8. AloneInv'
  BY <1>3, <1>4, <1>5, <1>6 DEF AloneInv, Undisturbed
<1>9. OweInv'
  <2>1. \A b \in Actors : run'[b].result # "none" => run'[b].pc = "done"
    BY <1>1, <1>3, <1>5, <1>6 DEF OweInv
  <2>2. run["tui"].result = "updated" => run'["tui"].result = "updated"
    BY <1>1, <1>6 DEF OweInv, Actors
  <2> QED BY <1>1, <2>1, <2>2 DEF OweInv, ReloadOwed, Files, Tui
<1> QED BY <1>7, <1>8, <1>9 DEF RefreshInv

(* The providers, and the entries of the cache that grow old.                *)
LEMMA PublishKept == ASSUME RefreshInv, NEW s \in Sources, Publish(s) PROVE RefreshInv'
<1>1. RefreshTypes /\ AloneInv /\ OweInv /\ UNCHANGED <<Files, Tui, run>>
  BY DEF RefreshInv, Publish
<1>2. server' \in [Sources -> Nat]
  BY <1>1 DEF RefreshTypes, Publish
<1> QED BY <1>1, <1>2 DEF RefreshInv, RefreshTypes, AloneInv, Undisturbed, OweInv, ReloadOwed, Files, Tui

LEMMA AgeKept ==
    ASSUME RefreshInv, NEW s \in Sources, NEW age \in {"old", "other"}, Age(s, age)
    PROVE  RefreshInv'
<1>1. /\ RefreshTypes /\ AloneInv /\ OweInv
      /\ UNCHANGED <<server, torn, config, commits, told, Tui, run>>
  BY DEF RefreshInv, Age
<1>2. cache' \in [Sources -> Entry] /\ \A t \in Sources : cache'[t].ver = cache[t].ver
  BY <1>1 DEF RefreshTypes, Age, Entry
<1>3. RefreshTypes' /\ OweInv'
  BY <1>1, <1>2 DEF RefreshTypes, OweInv, ReloadOwed, Tui
<1>4. AloneInv'
  BY <1>1, <1>2 DEF AloneInv, Undisturbed
<1> QED BY <1>3, <1>4 DEF RefreshInv

(* The report of a run is taken, or its process is gone.                     *)
LEMMA RunCleared ==
    ASSUME RefreshInv, NEW a \in Actors, run' = [run EXCEPT ![a] = Idle],
           UNCHANGED <<server, Files>>
    PROVE  /\ run' \in [Actors -> Run] /\ AloneInv'
           /\ \A b \in Actors : run'[b].result # "none" => run'[b].pc = "done"
<1>1. RefreshTypes /\ AloneInv /\ OweInv
  BY DEF RefreshInv
<1>2. /\ run'[a].pc = "idle" /\ run'[a].result = "none"
      /\ \A b \in Actors : b # a => run'[b] = run[b]
  BY <1>1 DEF RefreshTypes, Idle
<1>3. run' \in [Actors -> Run]
  BY <1>1, IdleTyped DEF RefreshTypes
<1>4. AloneInv'
  BY <1>1, <1>2 DEF AloneInv, Undisturbed, Files
<1> QED BY <1>1, <1>2, <1>3, <1>4 DEF OweInv

LEMMA CommandEndsKept == ASSUME RefreshInv, CommandEnds PROVE RefreshInv'
<1>1. RefreshTypes /\ OweInv /\ UNCHANGED <<server, Files, Tui>> /\ run' = [run EXCEPT !["cli"] = Idle]
  BY DEF RefreshInv, CommandEnds
<1>2. /\ run' \in [Actors -> Run] /\ AloneInv'
      /\ \A b \in Actors : run'[b].result # "none" => run'[b].pc = "done"
  BY <1>1, RunCleared DEF Actors
<1>3. run'["tui"] = run["tui"]
  BY <1>1 DEF RefreshTypes, Actors
<1> QED BY <1>1, <1>2, <1>3 DEF RefreshInv, RefreshTypes, OweInv, ReloadOwed, Files, Tui

LEMMA PollKept == ASSUME RefreshInv, Poll PROVE RefreshInv'
<1>1. /\ RefreshTypes /\ OweInv /\ UNCHANGED <<server, Files, moving, loaded>>
      /\ run' = [run EXCEPT !["tui"] = Idle]
      /\ pending' = (pending \/ run["tui"].result = "updated")
      /\ due' = (due \/ run["tui"].result = "updated")
  BY DEF RefreshInv, Poll, Owes
<1>2. /\ run' \in [Actors -> Run] /\ AloneInv'
      /\ \A b \in Actors : run'[b].result # "none" => run'[b].pc = "done"
  BY <1>1, RunCleared DEF Actors
<1>3. RefreshTypes'
  <2>1. pending' \in BOOLEAN /\ due' \in BOOLEAN
    BY <1>1, Zenon DEF RefreshTypes
  <2> QED BY <1>1, <1>2, <2>1 DEF RefreshTypes, Files
<1>4. OweInv'
  BY <1>1, <1>2 DEF OweInv, ReloadOwed, Files
<1> QED BY <1>2, <1>3, <1>4 DEF RefreshInv

LEMMA RestartKept == ASSUME RefreshInv, Restart PROVE RefreshInv'
<1>1. /\ RefreshTypes /\ OweInv /\ UNCHANGED <<server, Files>> /\ loaded' = commits
      /\ run' = [run EXCEPT !["tui"] = Idle] /\ pending' = FALSE /\ due' = FALSE /\ moving' = FALSE
  BY DEF RefreshInv, Restart
<1>2. /\ run' \in [Actors -> Run] /\ AloneInv'
      /\ \A b \in Actors : run'[b].result # "none" => run'[b].pc = "done"
  BY <1>1, RunCleared DEF Actors
<1>3. RefreshTypes'
  BY <1>1, <1>2 DEF RefreshTypes, Files
<1>4. OweInv'
  <2>1. /\ commits \in Nat /\ told \in Nat /\ told <= commits
        /\ commits' = commits /\ told' = told /\ loaded' = commits
    BY <1>1 DEF RefreshTypes, OweInv, Files
  <2>2. loaded' <= commits' /\ ~(loaded' < told')
    BY <2>1
  <2> QED BY <1>2, <2>1, <2>2 DEF OweInv, ReloadOwed
<1> QED BY <1>2, <1>3, <1>4 DEF RefreshInv

(* Reloads, put off or done, and the transitions that reload too.            *)
LEMMA TuiStep ==
    ASSUME RefreshInv, UNCHANGED <<server, Files, run>>,
           pending' \in BOOLEAN, due' \in BOOLEAN, moving' \in BOOLEAN,
           loaded' \in {loaded, commits}, pending' = pending \/ loaded' = commits
    PROVE  RefreshInv'
<1>1. RefreshTypes /\ AloneInv /\ OweInv
  BY DEF RefreshInv
<1>2. RefreshTypes'
  BY <1>1 DEF RefreshTypes, Files
<1>3. AloneInv'
  BY <1>1 DEF AloneInv, Undisturbed, Files
<1>4. OweInv'
  BY <1>1 DEF OweInv, ReloadOwed, RefreshTypes, Files
<1> QED BY <1>2, <1>3, <1>4 DEF RefreshInv

LEMMA TuiStepKept ==
    ASSUME RefreshInv,
           Reload \/ ReloadFails \/ RetryDue \/ TransitionBegins \/ TransitionEnds
    PROVE  RefreshInv'
<1>1. pending \in BOOLEAN /\ due \in BOOLEAN /\ moving \in BOOLEAN
  BY DEF RefreshInv, RefreshTypes
<1>2. CASE Reload
  BY <1>1, <1>2, TuiStep DEF Reload
<1>3. CASE ReloadFails
  BY <1>1, <1>3, TuiStep DEF ReloadFails
<1>4. CASE RetryDue
  BY <1>1, <1>4, TuiStep DEF RetryDue
<1>5. CASE TransitionBegins
  BY <1>1, <1>5, TuiStep DEF TransitionBegins
<1>6. CASE TransitionEnds
  BY <1>1, <1>6, TuiStep DEF TransitionEnds
<1> QED BY <1>2, <1>3, <1>4, <1>5, <1>6

LEMMA RefreshStep == ASSUME RefreshInv, RefreshNext PROVE RefreshInv'
<1>1. ASSUME NEW force \in BOOLEAN, BeginWorker(force) PROVE RefreshInv'
  BY <1>1, BeginKept DEF BeginWorker, Actors
<1>2. ASSUME NEW force \in BOOLEAN, NEW main \in BOOLEAN, Begin("cli", force, main)
      PROVE  RefreshInv'
  BY <1>2, BeginKept DEF Actors
<1> QED BY <1>1, <1>2, PublishKept, AgeKept, RunStepKept, CommandEndsKept, PollKept, RestartKept,
           TuiStepKept DEF RefreshNext

(* The inductive invariant of refreshes: what a run that met no other one    *)
(* knows of the cache and the config, and that a commit not loaded yet is    *)
(* still to be reported or reloaded, for any number of sources, versions,    *)
(* runs and faults.                                                          *)
THEOREM RefreshInvariant == RefreshSpec => []RefreshInv
<1>1. RefreshInit => RefreshInv
  BY RefreshStarts
<1>2. RefreshInv /\ [RefreshNext]_refreshVars => RefreshInv'
  <2>1. ASSUME RefreshInv, UNCHANGED refreshVars PROVE RefreshInv'
    BY <2>1 DEF RefreshInv, RefreshTypes, AloneInv, Undisturbed, OweInv, ReloadOwed, refreshVars
  <2> QED BY <2>1, RefreshStep
<1> QED BY <1>1, <1>2, PTL DEF RefreshSpec

(* Refreshes agree and are not forgotten: one that succeeds with every       *)
(* source up to date and no other run near it leaves the config with the     *)
(* payloads of the cache; and a commit the TUI's worker reported and         *)
(* sing-box does not run yet is owed a reload or still to be polled.         *)
THEOREM RefreshesAreSound == RefreshSpec => []RefreshSound
<1>1. RefreshInv => RefreshSound
  BY DEF RefreshInv, AloneInv, Undisturbed, OweInv, RefreshSound, AloneMeansAgreed
<1> QED BY <1>1, RefreshInvariant, PTL

-----------------------------------------------------------------------------
(* The outcome of a probe program is earned, for every set of nodes, output  *)
(* and capacity of the channel.                                              *)
(*                                                                           *)
(* Every line written is taken, in the channel or in the pipe, in this       *)
(* order; the end of the output is read only when the last two are empty,    *)
(* so what the thread knows from the lines it took is about all of them.     *)

(* What the program wrote is what was taken, what waits in the channel and   *)
(* what waits in the pipe.                                                   *)
Taken == Len(log) - Len(lines) - Len(pipe)
Queued ==
    /\ Taken \in Nat
    /\ \A i \in 1..Len(lines) : lines[i] = log[Taken + i]
    /\ \A i \in 1..Len(pipe) : pipe[i] = log[Taken + Len(lines) + i]

(* Nothing comes after the end of the output, which the probe thread reads   *)
(* to before it waits for the program.                                       *)
Reads == \/ pc = "lines"
         \/ pc = "kill" /\ after = "lines"
EofInv == /\ reader = "done" => pipe = <<>> /\ "leader" \notin holds
          /\ ~Reads => reader = "done" /\ lines = <<>>

(* As long as no line was refused, the thread knows what the lines it took   *)
(* say.                                                                      *)
Reported(i) == log[i].kind = "result" /\ log[i].node \in Nodes
Report == {i \in 1..Taken : Reported(i)}
TakenInv ==
    ~fatal =>
       /\ \A i \in 1..Taken : i < Taken \/ summary = "none" => log[i].kind \in {"result", "progress"}
       /\ summary # "none" => Taken > 0 /\ log[Taken].kind = summary
       /\ seen = {log[i].node : i \in Report}
       /\ \A i, j \in Report : i # j => log[i].node # log[j].node

(* The group is taken down once, before its leader is waited for.            *)
TreeInv ==
    /\ leader = "reaped" <=> pc = "done"
    /\ outcome # "none" <=> pc = "done"
    /\ pc \in {"kill", "reap", "done"} => ended
    /\ ended /\ pc # "kill" => leader # "up" /\ child # "up"
    /\ outcome = "complete" => Complete
    /\ ~stranger

ProcTypes ==
    /\ leader \in {"up", "zombie", "reaped"} /\ code \in {"ok", "error"}
    /\ child \in {"none", "up", "escaped", "dead"}
    /\ pipe \in Seq(LineKinds) /\ log \in Seq(LineKinds) /\ lines \in Seq(LineKinds)
    /\ holds \subseteq {"leader", "child"} /\ reader \in {"reading", "done"}
    /\ pc \in {"lines", "wait", "kill", "reap", "done"} /\ after \in {"lines", "wait", "reap"}
    /\ ended \in BOOLEAN /\ fatal \in BOOLEAN
    /\ summary \in {"none", "complete", "incomplete"} /\ seen \subseteq Nodes
    /\ outcome \in {"none", "complete", "incomplete"} /\ stranger \in BOOLEAN
    /\ cancel \in BOOLEAN /\ late \in BOOLEAN

ProcInv == ProcTypes /\ Queued /\ EofInv /\ TakenInv /\ TreeInv

LEMMA ProcStarts == ASSUME ProcInit PROVE ProcInv
<1>1. /\ Len(log) = 0 /\ Len(lines) = 0 /\ Len(pipe) = 0
      /\ pipe \in Seq(LineKinds) /\ log \in Seq(LineKinds) /\ lines \in Seq(LineKinds)
  BY DEF ProcInit
<1>2. ProcTypes
  BY <1>1 DEF ProcInit, ProcTypes
<1>3. Taken = 0
  BY <1>1 DEF Taken
<1>4. Queued /\ Report = {}
  BY <1>1, <1>3 DEF Queued, Report
<1> QED BY <1>2, <1>3, <1>4 DEF ProcInit, ProcInv, EofInv, Reads, TakenInv, TreeInv

-----------------------------------------------------------------------------
(* Where the lines are.                                                      *)
LEMMA QueueTypes ==
    ASSUME ProcTypes, Queued
    PROVE  /\ Len(log) \in Nat /\ Len(lines) \in Nat /\ Len(pipe) \in Nat /\ Taken \in Nat
           /\ Len(log) = Taken + Len(lines) + Len(pipe)
BY DEF ProcTypes, Queued, Taken

LEMMA WriteQueues ==
    ASSUME ProcTypes, Queued, NEW line \in LineKinds, Write(line)
    PROVE  /\ pipe' \in Seq(LineKinds) /\ log' \in Seq(LineKinds)
           /\ Queued' /\ Taken' = Taken /\ \A i \in 1..Taken : log'[i] = log[i]
<1>1. /\ pipe \in Seq(LineKinds) /\ log \in Seq(LineKinds) /\ lines' = lines
      /\ pipe' = Append(pipe, line) /\ log' = Append(log, line)
  BY DEF ProcTypes, Write, Reading
<1>2. /\ Len(log) \in Nat /\ Len(lines) \in Nat /\ Len(pipe) \in Nat /\ Taken \in Nat
      /\ Len(log) = Taken + Len(lines) + Len(pipe)
  BY QueueTypes
<1>3. /\ pipe' \in Seq(LineKinds) /\ Len(pipe') = Len(pipe) + 1 /\ pipe'[Len(pipe) + 1] = line
      /\ \A i \in 1..Len(pipe) : pipe'[i] = pipe[i]
  BY <1>1, AppendProperties
<1>4. /\ log' \in Seq(LineKinds) /\ Len(log') = Len(log) + 1 /\ log'[Len(log) + 1] = line
      /\ \A i \in 1..Len(log) : log'[i] = log[i]
  BY <1>1, AppendProperties
<1>5. Taken' = Taken
  BY <1>1, <1>2, <1>3, <1>4 DEF Taken
<1>6. \A i \in 1..Len(lines') : lines'[i] = log'[Taken' + i]
  BY <1>1, <1>2, <1>4, <1>5 DEF Queued
<1>7. ASSUME NEW i \in 1..Len(pipe') PROVE pipe'[i] = log'[Taken' + Len(lines') + i]
  <2>1. CASE i = Len(pipe) + 1
    BY <2>1, <1>1, <1>2, <1>3, <1>4, <1>5
  <2>2. CASE i \in 1..Len(pipe)
    <3>1. Taken + Len(lines) + i \in 1..Len(log) /\ pipe'[i] = pipe[i]
      BY <2>2, <1>2, <1>3
    <3>2. pipe[i] = log[Taken + Len(lines) + i]
      BY <2>2 DEF Queued
    <3> QED BY <3>1, <3>2, <1>1, <1>4, <1>5
  <2> QED BY <2>1, <2>2, <1>2, <1>3
<1> QED BY <1>2, <1>3, <1>4, <1>5, <1>6, <1>7 DEF Queued

LEMMA ReadLineQueues ==
    ASSUME ProcTypes, Queued, ReadLine
    PROVE  pipe' \in Seq(LineKinds) /\ lines' \in Seq(LineKinds) /\ Queued' /\ Taken' = Taken
<1>1. /\ pipe \in Seq(LineKinds) /\ lines \in Seq(LineKinds) /\ log' = log /\ pipe # <<>>
      /\ lines' = Append(lines, Head(pipe)) /\ pipe' = Tail(pipe)
  BY DEF ProcTypes, ReadLine
<1>2. /\ Len(log) \in Nat /\ Len(lines) \in Nat /\ Len(pipe) \in Nat /\ Taken \in Nat
      /\ Len(log) = Taken + Len(lines) + Len(pipe)
  BY QueueTypes
<1>3. /\ Len(pipe) > 0 /\ Head(pipe) = pipe[1] /\ Head(pipe) \in LineKinds
      /\ pipe' \in Seq(LineKinds) /\ Len(pipe') = Len(pipe) - 1
      /\ \A i \in 1..Len(pipe') : pipe'[i] = pipe[i + 1]
  BY <1>1
<1>4. /\ lines' \in Seq(LineKinds) /\ Len(lines') = Len(lines) + 1
      /\ lines'[Len(lines) + 1] = pipe[1] /\ \A i \in 1..Len(lines) : lines'[i] = lines[i]
  BY <1>1, <1>3, AppendProperties
<1>5. Taken' = Taken
  BY <1>1, <1>2, <1>3, <1>4 DEF Taken
<1>6. ASSUME NEW i \in 1..Len(lines') PROVE lines'[i] = log'[Taken' + i]
  <2>1. CASE i = Len(lines) + 1
    BY <2>1, <1>1, <1>2, <1>3, <1>4, <1>5 DEF Queued
  <2>2. CASE i \in 1..Len(lines)
    BY <2>2, <1>1, <1>2, <1>4, <1>5 DEF Queued
  <2> QED BY <2>1, <2>2, <1>2, <1>4
<1>7. ASSUME NEW i \in 1..Len(pipe') PROVE pipe'[i] = log'[Taken' + Len(lines') + i]
  <2>1. i + 1 \in 1..Len(pipe) /\ Taken' + Len(lines') + i = Taken + Len(lines) + (i + 1)
    BY <1>2, <1>3, <1>4, <1>5
  <2> QED BY <2>1, <1>1, <1>3 DEF Queued
<1> QED BY <1>2, <1>3, <1>4, <1>5, <1>6, <1>7 DEF Queued

LEMMA TakeLineQueues ==
    ASSUME ProcTypes, Queued, TakeLine
    PROVE  /\ lines' \in Seq(LineKinds) /\ Queued' /\ Taken' = Taken + 1
           /\ Head(lines) = log[Taken + 1] /\ Head(lines) \in LineKinds /\ Taken + 1 <= Len(log)
<1>1. /\ lines \in Seq(LineKinds) /\ log' = log /\ pipe' = pipe /\ lines # <<>> /\ lines' = Tail(lines)
  BY DEF ProcTypes, TakeLine, Program
<1>2. /\ Len(log) \in Nat /\ Len(lines) \in Nat /\ Len(pipe) \in Nat /\ Taken \in Nat
      /\ Len(log) = Taken + Len(lines) + Len(pipe)
  BY QueueTypes
<1>3. /\ Len(lines) > 0 /\ Head(lines) = lines[1] /\ Head(lines) \in LineKinds
      /\ lines' \in Seq(LineKinds) /\ Len(lines') = Len(lines) - 1
      /\ \A i \in 1..Len(lines') : lines'[i] = lines[i + 1]
  BY <1>1
<1>4. Taken' = Taken + 1
  BY <1>1, <1>2, <1>3 DEF Taken
<1>5. ASSUME NEW i \in 1..Len(lines') PROVE lines'[i] = log'[Taken' + i]
  <2>1. i + 1 \in 1..Len(lines) /\ Taken' + i = Taken + (i + 1)
    BY <1>2, <1>3, <1>4
  <2> QED BY <2>1, <1>1, <1>3 DEF Queued
<1>6. ASSUME NEW i \in 1..Len(pipe') PROVE pipe'[i] = log'[Taken' + Len(lines') + i]
  <2>1. Taken' + Len(lines') + i = Taken + Len(lines) + i
    BY <1>1, <1>2, <1>3, <1>4
  <2> QED BY <2>1, <1>1 DEF Queued
<1>7. Head(lines) = log[Taken + 1]
  BY <1>2, <1>3 DEF Queued
<1> QED BY <1>2, <1>3, <1>4, <1>5, <1>6, <1>7 DEF Queued

(* The other steps leave the lines where they are.                           *)
LEMMA LinesStay ==
    ASSUME ProcTypes, Queued, UNCHANGED <<pipe, log, lines>>
    PROVE  Queued' /\ Taken' = Taken
BY DEF Queued, Taken

(* Lines move as they are written, read and taken.                           *)
LEMMA QueuesKept ==
    ASSUME ProcTypes, Queued, ProcNext
    PROVE  /\ pipe' \in Seq(LineKinds) /\ log' \in Seq(LineKinds) /\ lines' \in Seq(LineKinds)
           /\ Queued'
<1>1. ASSUME NEW line \in LineKinds, Write(line)
      PROVE  /\ pipe' \in Seq(LineKinds) /\ log' \in Seq(LineKinds) /\ lines' \in Seq(LineKinds)
             /\ Queued'
  BY <1>1, WriteQueues DEF Write, Reading, ProcTypes
<1>2. CASE ReadLine
  BY <1>2, ReadLineQueues DEF ReadLine, ProcTypes
<1>3. CASE TakeLine
  BY <1>3, TakeLineQueues DEF TakeLine, Program, ProcTypes
<1>4. CASE UNCHANGED <<pipe, log, lines>>
  BY <1>4, LinesStay DEF ProcTypes
<1>5. \/ \E line \in LineKinds : Write(line)
      \/ ReadLine \/ TakeLine \/ UNCHANGED <<pipe, log, lines>>
  BY DEF ProcNext, Fork, CloseOutput, Exit, ChildExits, ReadEof, Interrupt, LinesEnd, LeaderGone,
         Kill, Reap, CancelJob, Deadline, Program, Reading
<1> QED BY <1>1, <1>2, <1>3, <1>4, <1>5

-----------------------------------------------------------------------------
(* Types.                                                                    *)
LEMMA TerminateTyped ==
    ASSUME ProcTypes, NEW error \in BOOLEAN, NEW back \in {"lines", "wait", "reap"},
           Terminate(error, back)
    PROVE  /\ pc' \in {back, "kill"} /\ after' \in {"lines", "wait", "reap"}
           /\ ended' \in BOOLEAN /\ fatal' \in BOOLEAN
<1>1. fatal' \in BOOLEAN
  BY Zenon DEF ProcTypes, Terminate
<1> QED BY <1>1 DEF ProcTypes, Terminate

ThreadTypes ==
    /\ pc \in {"lines", "wait", "kill", "reap", "done"} /\ after \in {"lines", "wait", "reap"}
    /\ ended \in BOOLEAN /\ fatal \in BOOLEAN
    /\ summary \in {"none", "complete", "incomplete"} /\ seen \subseteq Nodes
    /\ outcome \in {"none", "complete", "incomplete"} /\ stranger \in BOOLEAN

LEMMA ProbeThreadTyped == ASSUME ProcTypes, ProcNext PROVE ThreadTypes'
<1>1. CASE Interrupt
  BY <1>1, TerminateTyped DEF ThreadTypes, ProcTypes, Interrupt
<1>2. CASE TakeLine
  <2> DEFINE line == Head(lines)
  <2>1. UNCHANGED <<outcome, stranger>> /\ pc = "lines"
    BY <1>2 DEF TakeLine
  <2>2. CASE fatal
    BY <1>2, <2>1, <2>2 DEF TakeLine, ThreadTypes, ProcTypes
  <2>3. CASE ~fatal /\ RefusedLine(line)
    BY <1>2, <2>1, <2>3, TerminateTyped DEF TakeLine, ThreadTypes, ProcTypes
  <2>4. CASE ~fatal /\ ~RefusedLine(line)
    BY <1>2, <2>1, <2>4 DEF TakeLine, ThreadTypes, ProcTypes
  <2> QED BY <2>2, <2>3, <2>4
<1>3. CASE LeaderGone
  BY <1>3, TerminateTyped DEF ThreadTypes, ProcTypes, LeaderGone
<1>4. CASE Kill
  <2>1. stranger' \in BOOLEAN
    BY <1>4, Zenon DEF Kill, ProcTypes
  <2> QED BY <1>4, <2>1 DEF ThreadTypes, ProcTypes, Kill
<1>5. CASE Reap
  BY <1>5 DEF ThreadTypes, ProcTypes, Reap
<1>6. CASE LinesEnd
  BY <1>6 DEF ThreadTypes, ProcTypes, LinesEnd
<1>7. CASE UNCHANGED Thread
  BY <1>7 DEF ThreadTypes, ProcTypes, Thread
<1> QED BY <1>1, <1>2, <1>3, <1>4, <1>5, <1>6, <1>7
        DEF ProcNext, Write, Fork, CloseOutput, Exit, ChildExits, ReadLine, ReadEof, CancelJob, Deadline

LEMMA TypesKept == ASSUME ProcTypes, Queued, ProcNext PROVE ProcTypes'
<1>1. /\ leader' \in {"up", "zombie", "reaped"} /\ code' \in {"ok", "error"}
      /\ child' \in {"none", "up", "escaped", "dead"} /\ holds' \subseteq {"leader", "child"}
  BY DEF ProcTypes, ProcNext, Write, Fork, CloseOutput, Exit, ChildExits, ReadLine, ReadEof, Interrupt,
         TakeLine, LinesEnd, LeaderGone, Observed, Kill, Spared, Reap, CancelJob, Deadline, Program
<1>2. reader' \in {"reading", "done"} /\ cancel' \in BOOLEAN /\ late' \in BOOLEAN
  BY DEF ProcTypes, ProcNext, Write, Fork, CloseOutput, Exit, ChildExits, ReadLine, ReadEof, Interrupt,
         TakeLine, LinesEnd, LeaderGone, Kill, Reap, CancelJob, Deadline, Reading, Clock
<1> QED BY <1>1, <1>2, QueuesKept, ProbeThreadTyped DEF ProcTypes, ThreadTypes

-----------------------------------------------------------------------------
(* The end of the output.                                                    *)
LEMMA OutputEndKept == ASSUME ProcTypes, EofInv, ProcNext PROVE EofInv'
<1> USE DEF EofInv, Reads
<1>1. ASSUME NEW line \in LineKinds, Write(line) PROVE EofInv'
  BY <1>1 DEF Write, Reading, Thread
<1>2. CASE ReadLine \/ ReadEof
  BY <1>2 DEF ProcTypes, ReadLine, ReadEof, Program, Thread
<1>3. CASE Interrupt \/ LeaderGone
  BY <1>3 DEF Interrupt, LeaderGone, Terminate, Program, Reading
<1>4. CASE TakeLine
  BY <1>4 DEF TakeLine, Terminate, Program
<1>5. CASE LinesEnd \/ Kill \/ Reap
  BY <1>5 DEF LinesEnd, Kill, Reap, Program, Reading, ProcTypes
<1>6. ASSUME UNCHANGED <<pipe, lines, reader, pc, after>>, holds' \ {"child"} \subseteq holds PROVE EofInv'
  BY <1>6
<1> QED BY <1>1, <1>2, <1>3, <1>4, <1>5, <1>6
        DEF ProcNext, Fork, CloseOutput, Exit, ChildExits, CancelJob, Deadline, Program, Reading, Thread

(* How the program and its group end.                                        *)
LEMMA TreeKept == ASSUME ProcTypes, TreeInv, ProcNext PROVE TreeInv'
<1> USE DEF TreeInv
<1>1. ASSUME NEW group, Fork(group) PROVE TreeInv'
  BY <1>1 DEF Fork, Thread, Complete
<1>2. ASSUME NEW status, Exit(status) PROVE TreeInv'
  BY <1>2 DEF Exit, Thread, Complete
<1>3. CASE ChildExits
  BY <1>3 DEF ChildExits, Thread, Complete
<1>4. CASE Interrupt
  BY <1>4 DEF Interrupt, Terminate, Program, Complete, ProcTypes
<1>5. CASE LeaderGone
  BY <1>5 DEF LeaderGone, Observed, Terminate, Complete, ProcTypes
<1>6. CASE TakeLine
  BY <1>6 DEF TakeLine, Terminate, Program, Complete, ProcTypes
<1>7. CASE LinesEnd
  BY <1>7 DEF LinesEnd, Program, Complete, ProcTypes
<1>8. CASE Kill
  BY <1>8 DEF Kill, Spared, Complete, ProcTypes
<1>9. CASE Reap
  BY <1>9 DEF Reap, Complete, ProcTypes
<1>10. CASE UNCHANGED <<leader, code, child, Thread>>
  BY <1>10 DEF Thread, Complete
<1> QED BY <1>1, <1>2, <1>3, <1>4, <1>5, <1>6, <1>7, <1>8, <1>9, <1>10
        DEF ProcNext, Write, CloseOutput, ReadLine, ReadEof, CancelJob, Deadline, Program

-----------------------------------------------------------------------------
(* What the lines said.                                                      *)
LEMMA TakenStays ==
    ASSUME TakenInv, Taken \in Nat, Taken' = Taken, \A i \in 1..Taken : log'[i] = log[i],
           seen' = seen, summary' = summary, fatal => fatal'
    PROVE  TakenInv'
<1>1. Report' = Report
  BY DEF Report, Reported
<1>2. \A i \in Report : log'[i] = log[i]
  BY DEF Report
<1>3. {log'[i].node : i \in Report} = {log[i].node : i \in Report}
  BY <1>2
<1>4. Taken > 0 => log'[Taken] = log[Taken]
  OBVIOUS
<1> QED BY <1>1, <1>2, <1>3, <1>4 DEF TakenInv

LEMMA AcceptedLine ==
    ASSUME ProcTypes, Queued, TakenInv, TakeLine, ~fatal, ~RefusedLine(Head(lines))
    PROVE  TakenInv'
<1> DEFINE line == Head(lines)
           new == IF Reported(Taken + 1) THEN {Taken + 1} ELSE {}
<1>1. /\ Taken \in Nat /\ Taken' = Taken + 1 /\ line = log[Taken + 1] /\ line \in LineKinds
      /\ log' = log /\ fatal' = fatal /\ summary = "none"
      /\ seen' = IF line.kind = "result" THEN seen \cup ({line.node} \cap Nodes) ELSE seen
      /\ summary' = IF line.kind \in {"complete", "incomplete"} THEN line.kind ELSE summary
  BY TakeLineQueues, QueueTypes DEF TakeLine, Program, RefusedLine
<1>2. /\ line.kind \in {"result", "progress", "complete", "incomplete"}
      /\ line.kind = "result" => line.node \notin seen
  BY <1>1 DEF RefusedLine, LineKinds
<1> HIDE DEF line
<1>3. /\ \A i \in 1..Taken : log[i].kind \in {"result", "progress"}
      /\ seen = {log[i].node : i \in Report}
      /\ \A i, j \in Report : i # j => log[i].node # log[j].node
  BY <1>1 DEF TakenInv
<1>4. Report' = Report \cup new
  BY <1>1 DEF Report, Reported
<1>5. /\ Reported(Taken + 1) => line.kind = "result" /\ line.node \in Nodes
      /\ line.kind = "result" /\ line.node \in Nodes => Reported(Taken + 1)
  BY <1>1 DEF Reported
<1>6. \A i \in 1..Taken' : i < Taken' \/ summary' = "none" => log'[i].kind \in {"result", "progress"}
  <2>1. \A i \in 1..Taken' : i = Taken + 1 \/ i \in 1..Taken
    BY <1>1
  <2>2. summary' = "none" => log[Taken + 1].kind \in {"result", "progress"}
    BY <1>1, <1>2
  <2> QED BY <1>1, <1>3, <2>1, <2>2
<1>7. summary' # "none" => Taken' > 0 /\ log'[Taken'].kind = summary'
  BY <1>1
<1>8. seen' = {log'[i].node : i \in Report'}
  <2>1. {log[i].node : i \in Report \cup new} = seen \cup {log[i].node : i \in new}
    BY <1>3
  <2>2. {log[i].node : i \in new} = IF Reported(Taken + 1) THEN {line.node} ELSE {}
    BY <1>1
  <2>3. CASE Reported(Taken + 1)
    BY <1>1, <1>4, <1>5, <2>1, <2>2, <2>3
  <2>4. CASE ~Reported(Taken + 1)
    BY <1>1, <1>4, <1>5, <2>1, <2>2, <2>4
  <2> QED BY <2>3, <2>4
<1>9. ASSUME NEW i \in Report', NEW j \in Report', i # j PROVE log'[i].node # log'[j].node
  <2>1. \A k \in Report : log[k].node \in seen
    BY <1>3
  <2>2. \A k \in new : k = Taken + 1 /\ log[k].node \notin seen
    BY <1>1, <1>2, <1>5
  <2> HIDE DEF new
  <2> QED BY <1>1, <1>3, <1>4, <1>9, <2>1, <2>2
<1> QED BY <1>6, <1>7, <1>8, <1>9 DEF TakenInv

LEMMA TakenKept == ASSUME ProcTypes, Queued, TakenInv, ProcNext PROVE TakenInv'
<1>0. Taken \in Nat
  BY QueueTypes
<1>1. ASSUME NEW line \in LineKinds, Write(line) PROVE TakenInv'
  BY <1>0, <1>1, WriteQueues, TakenStays DEF Write, Thread
<1>2. CASE ReadLine
  BY <1>0, <1>2, ReadLineQueues, TakenStays DEF ReadLine, Thread
<1>3. CASE TakeLine
  <2>1. CASE ~fatal /\ ~RefusedLine(Head(lines))
    BY <1>3, <2>1, AcceptedLine
  <2>2. CASE fatal \/ RefusedLine(Head(lines))
    <3>1. fatal'
      BY <1>3, <2>2 DEF TakeLine, Terminate
    <3> QED BY <3>1 DEF TakenInv
  <2> QED BY <2>1, <2>2
<1>4. CASE UNCHANGED <<pipe, log, lines, seen, summary>> /\ (fatal => fatal')
  BY <1>0, <1>4, LinesStay, TakenStays
<1>5. \/ \E line \in LineKinds : Write(line)
      \/ ReadLine \/ TakeLine
      \/ UNCHANGED <<pipe, log, lines, seen, summary>> /\ (fatal => fatal')
  BY DEF ProcNext, Fork, CloseOutput, Exit, ChildExits, ReadEof, Interrupt, LinesEnd, LeaderGone,
         Terminate, Kill, Reap, CancelJob, Deadline, Program, Reading, Thread
<1> QED BY <1>1, <1>2, <1>3, <1>4, <1>5

LEMMA ProcStutter == ASSUME ProcInv, UNCHANGED procVars PROVE ProcInv'
<1>1. ProcTypes' /\ EofInv' /\ TreeInv'
  BY DEF ProcInv, ProcTypes, EofInv, Reads, TreeInv, Complete, procVars
<1>2. Queued' /\ Taken' = Taken /\ Taken \in Nat
  BY LinesStay, QueueTypes DEF ProcInv, procVars
<1>3. TakenInv'
  BY <1>2, TakenStays DEF ProcInv, procVars
<1> QED BY <1>1, <1>2, <1>3 DEF ProcInv

(* The inductive invariant of a probe program: where each line is, what the  *)
(* thread knows from the lines it took, and how far the group is taken down, *)
(* for every set of nodes, length of the output and capacity of the channel, *)
(* with and without descendants that escape.                                 *)
THEOREM ProgramInvariant == ProcSpec => []ProcInv
<1>1. ProcInit => ProcInv
  BY ProcStarts
<1>2. ProcInv /\ [ProcNext]_procVars => ProcInv'
  BY QueuesKept, TypesKept, OutputEndKept, TakenKept, TreeKept, ProcStutter DEF ProcInv
<1> QED BY <1>1, <1>2, PTL DEF ProcSpec

LEMMA EarnedInvariant == ASSUME ProcInv PROVE OutcomeIsEarned
<1>1. ProcTypes /\ Queued /\ EofInv /\ TakenInv /\ TreeInv
  BY DEF ProcInv
<1>2. ASSUME outcome = "complete"
      PROVE  /\ code = "ok" /\ log # <<>> /\ log[Len(log)].kind = "complete"
             /\ \A i \in 1..Len(log) - 1 : log[i].kind \in {"result", "progress"}
             /\ \A i, j \in Report : i # j => log[i].node # log[j].node
             /\ seen = {log[i].node : i \in Report}
             /\ Taken = Len(log)
  <2>1. pc = "done" /\ summary = "complete" /\ ~fatal /\ code = "ok"
    BY <1>1, <1>2 DEF TreeInv, Complete
  <2>2. Len(lines) = 0 /\ Len(pipe) = 0
    BY <1>1, <2>1 DEF EofInv, Reads
  <2>3. Taken = Len(log) /\ Len(log) \in Nat
    BY <1>1, <2>2, QueueTypes
  <2>4. Len(log) > 0 /\ log # <<>>
    BY <1>1, <2>1, <2>3 DEF TakenInv
  <2> QED BY <1>1, <2>1, <2>3, <2>4 DEF TakenInv
<1>3. outcome # "none" => child # "up" /\ leader = "reaped"
  BY <1>1 DEF TreeInv
<1>4. outcome = "complete" =>
         Report = {i \in 1..Len(log) : log[i].kind = "result" /\ log[i].node \in Nodes}
  BY <1>2 DEF Report, Reported
<1>5. CompleteIsEarned
  BY <1>2, <1>3, <1>4 DEF CompleteIsEarned
<1> QED BY <1>1, <1>5 DEF OutcomeIsEarned, OwnGroupOnly, TreeInv

(* The outcome of a probe is earned: a complete one has the whole output on  *)
(* its side, ended by one summary, with every result a node gave and none    *)
(* twice; with any outcome nothing of the group is left, and no signal ever  *)
(* went to a group that is not the program's.                                *)
THEOREM OutcomesAreEarned == ProcSpec => []OutcomeIsEarned
BY ProgramInvariant, EarnedInvariant, PTL
=============================================================================
