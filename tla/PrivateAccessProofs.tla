------------------------- MODULE PrivateAccessProofs -------------------------
(* What the TUI believes of its Private Access services is so: for any number *)
(* of profiles and processes, any capacity of the event queue, any number of  *)
(* failures, kills and restarts of the TUI.  Behind it, the conversations a   *)
(* service has with its gateway: the SonicWall logon and a Hillstone session; *)
(* the stream the Hillstone bridge gives to a browser; and the privileged     *)
(* helpers that own the TUN device and the split-DNS files.                   *)
EXTENDS PrivateAccess, SonicwallAuth, HillstoneSession, EspBridge, TunHelper, FiniteSetTheorems,
        SequenceTheorems, WellFoundedInduction, TLAPS

(* The files and the memory through which a service is found again.           *)
Known(p, pid) == \/ prof[p].proc = pid
                 \/ prof[p].proc = 0 /\ prof[p].background = pid
SavedInv ==
    /\ \A pid \in Pids : Alive(pid) => saved[svc[pid].profile] = pid
    /\ \A p \in Profiles : Alive(saved[p]) => svc[saved[p]].profile = p
ClaimInv ==
    /\ tui => \A pid \in Pids : Alive(pid) => Known(svc[pid].profile, pid)
    /\ ~tui => /\ modal = "none"
               /\ \A p \in Profiles : prof[p].proc = 0
RuntimeInv ==
    \A p \in Profiles :
        /\ prof[p].proc # 0 =>
             /\ Alive(prof[p].proc) => svc[prof[p].proc].profile = p
             /\ prof[p].background \in {0, prof[p].proc}
             /\ ~prof[p].failed
        /\ prof[p].proc = 0 /\ Alive(prof[p].background) =>
             /\ prof[p].state = "connected"
             /\ svc[prof[p].background].profile = p
        /\ prof[p].routes /\ p \in Interactive => prof[p].proc # 0
BypassInv == bypass \subseteq Interactive /\ BypassBacked
OwnersInv == SavedInv /\ ClaimInv /\ RuntimeInv /\ BypassInv

(* A queue that ends the session, and one after which the TUI, showing state  *)
(* now, will show connected: routes do not change what is shown.              *)
Ends(q) == \E i \in 1..Len(q) : q[i] \in {"failed", "disconnected"}
ShowsConnected(state, q) ==
    \/ state = "connected" /\ \A i \in 1..Len(q) : q[i] = "routes"
    \/ \E i \in 1..Len(q) : /\ q[i] = "connected"
                            /\ \A j \in 1..Len(q) : j > i => q[j] = "routes"
Has(c, cmd) == \E i \in 1..Len(c) : c[i] = cmd

(* Once every event is read the TUI shows what the service does: a worker     *)
(* that has nothing more to do has said so, but for a SonicWall session that  *)
(* was told to end, and connected is shown over a data plane, or to a TUI     *)
(* that is about to leave.                                                    *)
Told(s, q, state, c, interactive) ==
    /\ s.worker # "stopping"
    /\ s.worker = "done" => s.shutdown /\ interactive
    /\ ShowsConnected(state, q) =>
          s.worker = "data" \/ s.detached \/ Has(c, "detach")
Reported(s, q, c, state, interactive) ==
    s.main # "exited" /\ ~s.overflow =>
        /\ s.worker = "none" => ~s.session /\ c # <<>> /\ Head(c) = "connect"
        /\ s.worker \notin {"none", "done"} => s.session
        /\ Ends(q) \/ Told(s, q, state, c, interactive)
QueueInv ==
    \A p \in Profiles :
        LET pid == prof[p].proc
        IN  pid # 0 => Reported(svc[pid], events[pid], cmds[pid], prof[p].state,
                                p \in Interactive)

SessionInv == TypeOK /\ OwnersInv /\ QueueInv

-----------------------------------------------------------------------------
(* Sequences.                                                                 *)

LEMMA TakeIs ==
    ASSUME NEW S, NEW q \in Seq(S), q # <<>>
    PROVE  /\ Tail(q) \in Seq(S) /\ Head(q) \in S /\ Head(q) = q[1]
           /\ Len(q) \in Nat \ {0} /\ Len(Tail(q)) = Len(q) - 1
           /\ \A i \in 1..Len(Tail(q)) : Tail(q)[i] = q[i + 1]
BY HeadTailProperties, EmptySeq

LEMMA TakeHas ==
    ASSUME NEW S, NEW q \in Seq(S), q # <<>>, NEW x, Has(q, x), Head(q) # x
    PROVE  Has(Tail(q), x)
<1>1. PICK i \in 1..Len(q) : q[i] = x
  BY DEF Has
<1>2. i # 1 /\ i - 1 \in 1..Len(Tail(q))
  BY <1>1, TakeIs
<1>3. Tail(q)[i - 1] = x
  BY <1>1, <1>2, TakeIs
<1> QED
  BY <1>2, <1>3 DEF Has

LEMMA TakeEnds ==
    ASSUME NEW S, NEW q \in Seq(S), q # <<>>, Ends(q),
           Head(q) \notin {"failed", "disconnected"}
    PROVE  Ends(Tail(q))
<1>1. PICK i \in 1..Len(q) : q[i] \in {"failed", "disconnected"}
  BY DEF Ends
<1>2. i # 1 /\ i - 1 \in 1..Len(Tail(q))
  BY <1>1, TakeIs
<1>3. Tail(q)[i - 1] = q[i]
  BY <1>2, TakeIs
<1> QED
  BY <1>1, <1>2, <1>3 DEF Ends

(* Reading an event brings nothing on the screen that was not to come.        *)
LEMMA TakeShows ==
    ASSUME NEW S, NEW q \in Seq(S), q # <<>>, NEW before, NEW after,
           ShowsConnected(after, Tail(q)),
           after = "connected" =>
              Head(q) = "connected" \/ (Head(q) = "routes" /\ before = "connected")
    PROVE  ShowsConnected(before, q)
<1> DEFINE t == Tail(q)
<1>0. /\ Len(q) \in Nat \ {0} /\ Len(t) = Len(q) - 1 /\ Head(q) = q[1]
      /\ \A i \in 1..Len(t) : t[i] = q[i + 1]
  BY TakeIs
<1>1. CASE after = "connected" /\ \A i \in 1..Len(t) : t[i] = "routes"
  <2>1. \A j \in 1..Len(q) : j > 1 => q[j] = "routes"
    <3> SUFFICES ASSUME NEW j \in 1..Len(q), j > 1
                 PROVE  q[j] = "routes"
      OBVIOUS
    <3>1. j - 1 \in 1..Len(t) /\ t[j - 1] = q[j]
      BY <1>0
    <3> QED
      BY <1>1, <3>1
  <2>2. CASE Head(q) = "connected"
    BY <1>0, <2>1, <2>2 DEF ShowsConnected
  <2>3. CASE Head(q) = "routes" /\ before = "connected"
    BY <1>0, <2>1, <2>3 DEF ShowsConnected
  <2> QED
    BY <1>1, <2>2, <2>3
<1>2. CASE \E i \in 1..Len(t) : /\ t[i] = "connected"
                                /\ \A j \in 1..Len(t) : j > i => t[j] = "routes"
  <2>1. PICK i \in 1..Len(t) : /\ t[i] = "connected"
                               /\ \A j \in 1..Len(t) : j > i => t[j] = "routes"
    BY <1>2
  <2>2. i + 1 \in 1..Len(q) /\ q[i + 1] = "connected"
    BY <1>0, <2>1
  <2>3. ASSUME NEW j \in 1..Len(q), j > i + 1
        PROVE  q[j] = "routes"
    <3>1. j - 1 \in 1..Len(t) /\ t[j - 1] = q[j] /\ j - 1 > i
      BY <1>0, <2>3
    <3> QED
      BY <2>1, <3>1
  <2> QED
    BY <2>2, <2>3 DEF ShowsConnected
<1> QED
  BY <1>1, <1>2 DEF ShowsConnected

LEMMA AppendIs ==
    ASSUME NEW S, NEW c \in Seq(S), NEW x \in S
    PROVE  /\ Append(c, x) \in Seq(S) /\ Append(c, x) # <<>>
           /\ Has(Append(c, x), x)
           /\ \A y : Has(c, y) => Has(Append(c, x), y)
           /\ c # <<>> => Head(Append(c, x)) = Head(c)
<1>1. /\ Append(c, x) \in Seq(S) /\ Len(c) \in Nat
      /\ Len(Append(c, x)) = Len(c) + 1 /\ Append(c, x)[Len(c) + 1] = x
      /\ \A i \in 1..Len(c) : Append(c, x)[i] = c[i]
  OBVIOUS
<1>2. Append(c, x) # <<>>
  BY <1>1
<1>3. Has(Append(c, x), x)
  BY <1>1 DEF Has
<1>4. ASSUME NEW y, Has(c, y)
      PROVE  Has(Append(c, x), y)
  BY <1>1, <1>4 DEF Has
<1>5. ASSUME c # <<>>
      PROVE  Head(Append(c, x)) = Head(c)
  BY <1>1, <1>2, <1>5, TakeIs
<1> QED
  BY <1>1, <1>2, <1>3, <1>4, <1>5

LEMMA ConcatEnds ==
    ASSUME NEW S, NEW q \in Seq(S), NEW r \in Seq(S), Ends(q) \/ Ends(r)
    PROVE  Ends(q \o r)
<1>0. /\ Len(q) \in Nat /\ Len(r) \in Nat /\ Len(q \o r) = Len(q) + Len(r)
      /\ \A i \in 1..(Len(q) + Len(r)) :
            (q \o r)[i] = IF i <= Len(q) THEN q[i] ELSE r[i - Len(q)]
  BY ConcatProperties, LenProperties
<1>1. CASE Ends(q)
  BY <1>0, <1>1 DEF Ends
<1>2. CASE Ends(r)
  <2>1. PICK i \in 1..Len(r) : r[i] \in {"failed", "disconnected"}
    BY <1>2 DEF Ends
  <2>2. i + Len(q) \in 1..(Len(q) + Len(r)) /\ (q \o r)[i + Len(q)] = r[i]
    BY <1>0
  <2> QED
    BY <1>0, <2>1, <2>2 DEF Ends
<1> QED
  BY <1>1, <1>2

LEMMA ConcatShows ==
    ASSUME NEW S, NEW q \in Seq(S), NEW e \in S, NEW state,
           ShowsConnected(state, q \o <<e>>)
    PROVE  e = "connected" \/ (e = "routes" /\ ShowsConnected(state, q))
<1> DEFINE t == q \o <<e>>
<1>0. /\ Len(q) \in Nat /\ Len(t) = Len(q) + 1 /\ t[Len(q) + 1] = e
      /\ \A i \in 1..Len(q) : t[i] = q[i]
  <2>1. <<e>> \in Seq(S) /\ Len(<<e>>) = 1 /\ <<e>>[1] = e
    OBVIOUS
  <2> QED
    BY <2>1, ConcatProperties, LenProperties
<1> HIDE DEF t
<1>1. CASE state = "connected" /\ \A i \in 1..Len(t) : t[i] = "routes"
  BY <1>0, <1>1 DEF ShowsConnected
<1>2. CASE \E i \in 1..Len(t) : /\ t[i] = "connected"
                                /\ \A j \in 1..Len(t) : j > i => t[j] = "routes"
  <2>1. PICK i \in 1..Len(t) : /\ t[i] = "connected"
                               /\ \A j \in 1..Len(t) : j > i => t[j] = "routes"
    BY <1>2
  <2>2. CASE i = Len(q) + 1
    BY <1>0, <2>1, <2>2
  <2>3. CASE i # Len(q) + 1
    <3>1. i \in 1..Len(q) /\ q[i] = "connected" /\ e = "routes"
      BY <1>0, <2>1, <2>3
    <3>2. \A j \in 1..Len(q) : j > i => q[j] = "routes"
      BY <1>0, <2>1
    <3> QED
      BY <3>1, <3>2 DEF ShowsConnected
  <2> QED
    BY <2>2, <2>3
<1> QED
  BY <1>1, <1>2 DEF ShowsConnected, t

-----------------------------------------------------------------------------
(* Services and their typing.                                                 *)

LEMMA BlankServices ==
    /\ NoService \in Services /\ NoService.main = "exited" /\ NoService.worker = "none"
    /\ \A p \in Profiles : /\ NewService(p) \in Services /\ NewService(p).profile = p
                            /\ NewService(p).main = "loop" /\ NewService(p).worker = "none"
                            /\ ~NewService(p).session
<1>1. ASSUME NEW p \in Profiles
      PROVE  /\ NewService(p) \in Services /\ NewService(p).profile = p
             /\ NewService(p).main = "loop" /\ NewService(p).worker = "none"
             /\ ~NewService(p).session
  BY BoundsAssumption DEF NewService, Services, Phases
<1>2. PICK p \in Profiles : NoService = [NewService(p) EXCEPT !.main = "exited"]
  BY ProfilesAssumption DEF NoService
<1> QED
  BY <1>1, <1>2 DEF Services, NewService

LEMMA DeadIs ==
    ASSUME NEW s \in Services
    PROVE  Dead(s) \in Services /\ Dead(s).main = "exited"
<1>1. PICK tun \in {"none", "active"} : Dead(s) = [NoService EXCEPT !.tun = tun]
  BY DEF Dead
<1> QED
  BY <1>1, BlankServices DEF Services

LEMMA FinishedIs ==
    ASSUME NEW s \in Services
    PROVE  /\ Finished(s) \in Services /\ Finished(s).profile = s.profile
           /\ Finished(s).main = s.main /\ Finished(s).session = s.session
           /\ Finished(s).worker = "done" /\ Finished(s).overflow = s.overflow
           /\ Finished(s).shutdown = s.shutdown /\ Finished(s).detached = s.detached
BY DEF Finished, Services, Phases

(* A step of one service: the TUI and the other services stay as they are,    *)
(* nothing comes to life, and what the TUI will show stays true.              *)
Serves(pid) ==
    /\ ServiceUnchanged
    /\ svc' \in [Pids -> Services] /\ cmds' \in [Pids -> Seq(Commands)]
    /\ events' \in [Pids -> Seq(EventKinds)]
    /\ Len(events'[pid]) <= QueueCapacity
    /\ \A x \in Pids \ {pid} :
          svc'[x] = svc[x] /\ cmds'[x] = cmds[x] /\ events'[x] = events[x]
    /\ svc'[pid].main # "exited" =>
          svc[pid].main # "exited" /\ svc'[pid].profile = svc[pid].profile
    /\ Attached(pid) =>
          \A state \in States, interactive \in BOOLEAN :
             /\ Reported(svc[pid], events[pid], cmds[pid], state, interactive)
             /\ interactive = (svc[pid].profile \in Interactive)
             => Reported(svc'[pid], events'[pid], cmds'[pid], state, interactive)

LEMMA ServesKeeps ==
    ASSUME SessionInv, NEW pid \in Pids, Serves(pid), faults' \in 0..MaxFaults
    PROVE  SessionInv'
<1> USE DEF SessionInv
<1>1. TypeOK'
  <2>1. \A x \in Pids : Len(events'[x]) <= QueueCapacity
    BY DEF TypeOK, Serves
  <2> QED
    BY <2>1 DEF TypeOK, Serves, ServiceUnchanged
<1>2. \A x : Alive(x)' /\ x \in 0..MaxPid => Alive(x) /\ svc'[x].profile = svc[x].profile
  <2> SUFFICES ASSUME NEW x \in 0..MaxPid, Alive(x)'
               PROVE  Alive(x) /\ svc'[x].profile = svc[x].profile
    OBVIOUS
  <2>1. x \in Pids
    BY BoundsAssumption DEF Alive, Pids
  <2> QED
    BY <2>1 DEF Alive, Serves
<1>3. UNCHANGED <<kind, tui, prof, modal, saved, bypass, stale>>
  BY DEF Serves, ServiceUnchanged
<1>4. \A p \in Profiles : /\ saved[p] \in 0..MaxPid /\ prof[p].proc \in 0..MaxPid
                           /\ prof[p].background \in 0..MaxPid /\ prof[p].state \in States
  BY DEF TypeOK, Runtimes
<1>5. Pids \subseteq 0..MaxPid
  BY BoundsAssumption DEF Pids
<1>6. OwnersInv'
  <2>1. SavedInv'
    BY <1>2, <1>3, <1>4, <1>5 DEF OwnersInv, SavedInv
  <2>2. ClaimInv'
    BY <1>2, <1>3, <1>4, <1>5 DEF OwnersInv, ClaimInv, Known
  <2>3. RuntimeInv'
    BY <1>2, <1>3, <1>4, <1>5 DEF OwnersInv, RuntimeInv, Interactive
  <2>4. BypassInv'
    BY <1>3 DEF OwnersInv, BypassInv, BypassBacked, Interactive
  <2> QED
    BY <2>1, <2>2, <2>3, <2>4 DEF OwnersInv
<1>7. QueueInv'
  <2> SUFFICES ASSUME NEW p \in Profiles, prof[p].proc # 0
               PROVE  Reported(svc'[prof[p].proc], events'[prof[p].proc],
                               cmds'[prof[p].proc], prof[p].state, p \in Interactive)
    BY <1>3 DEF QueueInv, Interactive
  <2> DEFINE x == prof[p].proc
  <2>1. x \in Pids /\ Attached(x) /\ (p \in Interactive) \in BOOLEAN
    BY <1>4 DEF Pids, Attached, OwnersInv, ClaimInv
  <2>2. Reported(svc[x], events[x], cmds[x], prof[p].state, p \in Interactive)
    BY DEF QueueInv
  <2>3. CASE x # pid
    BY <2>1, <2>2, <2>3 DEF Serves
  <2>4. CASE x = pid /\ Alive(x)
    <3>1. svc[x].profile = p
      BY <2>4 DEF OwnersInv, RuntimeInv
    <3> QED
      BY <1>4, <2>1, <2>2, <2>4, <3>1 DEF Serves
  <2>5. CASE x = pid /\ ~Alive(x)
    BY <1>2, <1>4, <2>5 DEF Alive, Reported
  <2> QED
    BY <2>3, <2>4, <2>5
<1> QED
  BY <1>1, <1>6, <1>7

-----------------------------------------------------------------------------
(* What a service says.                                                       *)

LEMMA EmitIs ==
    ASSUME TypeOK, NEW pid \in Pids, NEW s \in Services, NEW evs \in Seq(EventKinds),
           Emit(pid, evs, s)
    PROVE  /\ svc' \in [Pids -> Services] /\ events' \in [Pids -> Seq(EventKinds)]
           /\ Len(events'[pid]) <= QueueCapacity
           /\ \A x \in Pids \ {pid} : svc'[x] = svc[x] /\ events'[x] = events[x]
           /\ svc'[pid].main = s.main /\ svc'[pid].profile = s.profile
           /\ Attached(pid) => \/ svc'[pid].overflow
                               \/ svc'[pid] = s /\ events'[pid] = events[pid] \o evs
<1> DEFINE room == QueueCapacity - Len(events[pid])
           fit == IF Len(evs) > room THEN room ELSE Len(evs)
           part == SubSeq(evs, 1, fit)
<1>1. /\ events \in [Pids -> Seq(EventKinds)] /\ svc \in [Pids -> Services]
      /\ Len(events[pid]) <= QueueCapacity
      /\ events[pid] \in Seq(EventKinds)
  BY DEF TypeOK
<1>2. CASE ~Attached(pid)
  BY <1>1, <1>2 DEF Emit
<1>3. CASE Attached(pid)
  <2>1. PICK r \in Services :
           /\ r.main = s.main /\ r.profile = s.profile
           /\ r.overflow = (s.overflow \/ fit < Len(evs))
           /\ ~(fit < Len(evs)) => r = s
           /\ svc' = [svc EXCEPT ![pid] = r]
    <3> DEFINE dropped == fit < Len(evs)
               r == [s EXCEPT !.overflow = s.overflow \/ dropped]
    <3>1. svc' = [svc EXCEPT ![pid] = r]
      BY <1>3 DEF Emit
    <3>2. dropped \in BOOLEAN
      OBVIOUS
    <3> HIDE DEF dropped
    <3>3. r \in Services /\ r.main = s.main /\ r.profile = s.profile
          /\ r.overflow = (s.overflow \/ dropped)
      BY <3>2 DEF Services
    <3>4. ~dropped => r = s
      BY <3>2 DEF Services
    <3> QED
      BY <3>1, <3>3, <3>4 DEF dropped
  <2>2. Len(evs) \in Nat /\ Len(events[pid]) \in Nat /\ room \in Nat /\ fit \in 0..Len(evs)
        /\ fit <= room
    BY <1>1, LenProperties, BoundsAssumption
  <2>3. part \in Seq(EventKinds) /\ Len(part) = fit
    <3>1. \A i \in 1..fit : evs[i] \in EventKinds
      BY <2>2, ElementOfSeq
    <3>2. /\ part \in Seq(EventKinds) /\ Len(part) = IF 1 <= fit THEN fit - 1 + 1 ELSE 0
      BY <2>2, <3>1, SubSeqProperties
    <3> QED
      BY <2>2, <3>2
  <2>4. ~(fit < Len(evs)) => part = evs
    BY <2>2, SubSeqFull
  <2>5. events' = [events EXCEPT ![pid] = events[pid] \o part]
    BY <1>3 DEF Emit
  <2> HIDE DEF part, fit
  <2>6. /\ events[pid] \o part \in Seq(EventKinds)
        /\ Len(events[pid] \o part) = Len(events[pid]) + Len(part)
    BY <1>1, <2>3, ConcatProperties
  <2>7. Len(events[pid]) + Len(part) <= QueueCapacity
    BY <2>2, <2>3, BoundsAssumption
  <2> QED
    BY <1>1, <2>1, <2>4, <2>5, <2>6, <2>7
<1> QED
  BY <1>2, <1>3

(* An event that ends the session, and one that does not.                     *)
LEMMA ReportsEnd ==
    ASSUME NEW q \in Seq(EventKinds), NEW evs \in Seq(EventKinds), Ends(evs),
           NEW s, NEW c, NEW state, NEW interactive,
           s.worker = "none" => ~s.session /\ c # <<>> /\ Head(c) = "connect",
           s.worker \notin {"none", "done"} => s.session
    PROVE  Reported(s, q \o evs, c, state, interactive)
BY ConcatEnds DEF Reported

LEMMA ReportsEvent ==
    ASSUME NEW q \in Seq(EventKinds), NEW e \in EventKinds,
           NEW old, NEW c, NEW s, NEW d, NEW state, NEW interactive,
           Reported(old, q, c, state, interactive),
           old.main # "exited", ~old.overflow,
           s.worker = "none" => ~s.session /\ d # <<>> /\ Head(d) = "connect",
           s.worker \notin {"none", "done"} => s.session,
           Told(old, q, state, c, interactive) =>
              /\ s.worker # "stopping"
              /\ s.worker = "done" => s.shutdown /\ interactive,
           e = "connected" => s.worker = "data" \/ s.detached,
           e = "routes" => /\ old.worker # "data"
                           /\ old.detached => s.detached
                           /\ Has(c, "detach") => Has(d, "detach")
    PROVE  Reported(s, q \o <<e>>, d, state, interactive)
<1>1. CASE Ends(q)
  <2>1. <<e>> \in Seq(EventKinds)
    OBVIOUS
  <2>2. Ends(q \o <<e>>)
    BY <1>1, <2>1, ConcatEnds
  <2> QED
    BY <2>2 DEF Reported
<1>2. CASE Told(old, q, state, c, interactive)
  <2>1. ASSUME ShowsConnected(state, q \o <<e>>)
        PROVE  s.worker = "data" \/ s.detached \/ Has(d, "detach")
    <3>1. e = "connected" \/ (e = "routes" /\ ShowsConnected(state, q))
      BY <2>1, ConcatShows
    <3> QED
      BY <1>2, <3>1 DEF Told
  <2>2. Told(s, q \o <<e>>, state, d, interactive)
    BY <1>2, <2>1 DEF Told
  <2> QED
    BY <2>2 DEF Reported
<1> QED
  BY <1>1, <1>2 DEF Reported

LEMMA ReportsNothing ==
    ASSUME NEW q, NEW old, NEW c, NEW s, NEW d, NEW state, NEW interactive,
           Reported(old, q, c, state, interactive),
           old.main # "exited", ~old.overflow,
           s.worker = "none" => ~s.session /\ d # <<>> /\ Head(d) = "connect",
           s.worker \notin {"none", "done"} => s.session,
           Told(old, q, state, c, interactive) =>
              /\ s.worker # "stopping"
              /\ s.worker = "done" => s.shutdown /\ interactive
              /\ old.worker = "data" => s.worker = "data"
              /\ old.detached => s.detached
              /\ Has(c, "detach") => s.detached \/ Has(d, "detach")
    PROVE  Reported(s, q, d, state, interactive)
BY DEF Reported, Told

(* From these, a step of the service.                                         *)
LEMMA EmitServes ==
    ASSUME TypeOK, NEW pid \in Pids, NEW s \in Services, NEW evs \in Seq(EventKinds),
           WorkerEmit(pid, evs, s) \/ MainEmit(pid, evs, s) \/ Emit(pid, evs, s),
           ServiceUnchanged, cmds' \in [Pids -> Seq(Commands)],
           \A x \in Pids \ {pid} : cmds'[x] = cmds[x],
           svc[pid].main # "exited", s.profile = svc[pid].profile,
           s.overflow = svc[pid].overflow,
           \A state \in States, interactive \in BOOLEAN :
              /\ Reported(svc[pid], events[pid], cmds[pid], state, interactive)
              /\ interactive = (svc[pid].profile \in Interactive)
              /\ ~svc[pid].overflow
              => Reported(s, events[pid] \o evs, cmds'[pid], state, interactive)
    PROVE  Serves(pid)
<1>1. /\ svc \in [Pids -> Services] /\ events \in [Pids -> Seq(EventKinds)]
      /\ svc[pid] \in Services /\ Len(events[pid]) <= QueueCapacity
  BY DEF TypeOK
<1>2. CASE Emit(pid, evs, s)
  <2>1. /\ svc' \in [Pids -> Services] /\ events' \in [Pids -> Seq(EventKinds)]
        /\ Len(events'[pid]) <= QueueCapacity
        /\ \A x \in Pids \ {pid} : svc'[x] = svc[x] /\ events'[x] = events[x]
        /\ svc'[pid].main = s.main /\ svc'[pid].profile = s.profile
        /\ Attached(pid) => \/ svc'[pid].overflow
                            \/ svc'[pid] = s /\ events'[pid] = events[pid] \o evs
    BY <1>2, EmitIs
  <2>2. ASSUME Attached(pid), NEW state \in States, NEW interactive \in BOOLEAN,
               Reported(svc[pid], events[pid], cmds[pid], state, interactive),
               interactive = (svc[pid].profile \in Interactive)
        PROVE  Reported(svc'[pid], events'[pid], cmds'[pid], state, interactive)
    <3>1. CASE svc'[pid].overflow
      BY <3>1 DEF Reported
    <3>2. CASE svc'[pid] = s /\ events'[pid] = events[pid] \o evs
      <4>1. CASE svc[pid].overflow
        BY <3>2, <4>1 DEF Reported
      <4>2. CASE ~svc[pid].overflow
        BY <2>2, <3>2, <4>2
      <4> QED
        BY <4>1, <4>2
    <3> QED
      BY <2>1, <2>2, <3>1, <3>2
  <2> QED
    BY <2>1, <2>2 DEF Serves
<1>3. CASE ~Emit(pid, evs, s)
  <2>1. ~Attached(pid)
    BY <1>3 DEF WorkerEmit, MainEmit, CanEmit
  <2>2. PICK r \in Services :
           /\ r.main # "exited" => r.profile = svc[pid].profile
           /\ svc' = [svc EXCEPT ![pid] = r] /\ events' = events
    <3>1. CASE WorkerEmit(pid, evs, s)
      BY <1>1, <1>3, <3>1, FinishedIs DEF WorkerEmit, Quietly
    <3>2. CASE MainEmit(pid, evs, s)
      BY <1>1, <1>3, <3>2, DeadIs DEF MainEmit
    <3> QED
      BY <1>3, <3>1, <3>2
  <2> QED
    BY <1>1, <2>1, <2>2 DEF Serves
<1> QED
  BY <1>2, <1>3

LEMMA SilentServes ==
    ASSUME TypeOK, NEW pid \in Pids, NEW s \in Services,
           svc' = [svc EXCEPT ![pid] = s], events' = events,
           ServiceUnchanged, cmds' \in [Pids -> Seq(Commands)],
           \A x \in Pids \ {pid} : cmds'[x] = cmds[x],
           s.main # "exited" => /\ svc[pid].main # "exited"
                                /\ s.profile = svc[pid].profile
                                /\ s.overflow = svc[pid].overflow,
           Attached(pid) /\ s.main # "exited" =>
              \A state \in States, interactive \in BOOLEAN :
                 /\ Reported(svc[pid], events[pid], cmds[pid], state, interactive)
                 /\ interactive = (svc[pid].profile \in Interactive)
                 /\ ~svc[pid].overflow
                 => Reported(s, events[pid], cmds'[pid], state, interactive)
    PROVE  Serves(pid)
<1>1. /\ svc \in [Pids -> Services] /\ events \in [Pids -> Seq(EventKinds)]
      /\ Len(events[pid]) <= QueueCapacity /\ svc'[pid] = s
  BY DEF TypeOK
<1>2. ASSUME Attached(pid), NEW state \in States, NEW interactive \in BOOLEAN,
             Reported(svc[pid], events[pid], cmds[pid], state, interactive),
             interactive = (svc[pid].profile \in Interactive)
      PROVE  Reported(s, events[pid], cmds'[pid], state, interactive)
  <2>1. CASE s.main = "exited" \/ s.overflow
    BY <2>1 DEF Reported
  <2>2. CASE ~(s.main = "exited" \/ s.overflow)
    BY <1>2, <2>2
  <2> QED
    BY <2>1, <2>2
<1> QED
  BY <1>1, <1>2 DEF Serves

-----------------------------------------------------------------------------
(* The worker thread.                                                         *)

AtWork(pid) == Alive(pid) /\ svc[pid].worker \notin {"none", "done"}
KeepsSession(old, s) ==
    /\ s.profile = old.profile /\ s.main = old.main /\ s.session = old.session
    /\ s.overflow = old.overflow /\ s.shutdown = old.shutdown
    /\ s.detached = old.detached

LEMMA WorkerSays ==
    ASSUME TypeOK, NEW pid \in Pids, AtWork(pid), NEW s \in Services, NEW e \in EventKinds,
           WorkerEmit(pid, <<e>>, s), ServiceUnchanged, cmds' = cmds,
           KeepsSession(svc[pid], s), s.worker # "none",
           e \notin {"failed", "disconnected"} => s.worker \notin {"stopping", "done"},
           e = "connected" => s.worker = "data",
           e = "routes" => svc[pid].worker # "data"
    PROVE  Serves(pid)
<1> DEFINE old == svc[pid]
<1>1. /\ <<e>> \in Seq(EventKinds) /\ events[pid] \in Seq(EventKinds)
      /\ cmds \in [Pids -> Seq(Commands)]
      /\ old.main # "exited" /\ old.worker \notin {"none", "done"}
  BY DEF TypeOK, AtWork, Alive
<1>2. ASSUME NEW state \in States, NEW interactive \in BOOLEAN,
             Reported(old, events[pid], cmds[pid], state, interactive), ~old.overflow
      PROVE  Reported(s, events[pid] \o <<e>>, cmds[pid], state, interactive)
  <2>1. old.session /\ s.session
    BY <1>1, <1>2 DEF Reported, KeepsSession
  <2>2. CASE e \in {"failed", "disconnected"}
    <3>1. Ends(<<e>>)
      BY <2>2 DEF Ends
    <3> QED
      BY <1>1, <2>1, <3>1, ReportsEnd
  <2>3. CASE e \notin {"failed", "disconnected"}
    <3> HIDE DEF old
    <3> QED
      BY <1>1, <1>2, <2>1, <2>3, ReportsEvent DEF old, KeepsSession
  <2> QED
    BY <2>2, <2>3
<1>3. /\ s.profile = old.profile /\ s.main = old.main /\ s.overflow = old.overflow
      /\ WorkerEmit(pid, <<e>>, s)
  BY DEF KeepsSession
<1> QED
  BY <1>1, <1>2, <1>3, EmitServes

LEMMA FailureServes ==
    ASSUME TypeOK, NEW pid \in Pids, AtWork(pid), WorkerFails(pid),
           ServiceUnchanged, cmds' = cmds
    PROVE  Serves(pid)
<1> DEFINE evs == <<"failed", "error">>
           s == Finished(svc[pid])
<1>1. /\ evs \in Seq(EventKinds) /\ Ends(evs)
      /\ events[pid] \in Seq(EventKinds) /\ svc[pid] \in Services
      /\ cmds \in [Pids -> Seq(Commands)] /\ svc[pid].main # "exited"
  BY DEF TypeOK, AtWork, Alive, EventKinds, States, Ends
<1>2. /\ s \in Services /\ s.profile = svc[pid].profile
      /\ s.worker = "done" /\ s.overflow = svc[pid].overflow
  BY <1>1, FinishedIs
<1>3. WorkerEmit(pid, evs, s)
  BY DEF WorkerFails
<1> HIDE DEF evs, s
<1>4. \A state, interactive, c : Reported(s, events[pid] \o evs, c, state, interactive)
  BY <1>1, <1>2, ReportsEnd
<1> QED
  BY <1>1, <1>2, <1>3, <1>4, EmitServes

(* A worker ends without a word only when nobody listens, when it has said    *)
(* that the session is over, or when a SonicWall session was told to end.     *)
LEMMA QuietlyServes ==
    ASSUME TypeOK, NEW pid \in Pids, AtWork(pid), Quietly(pid),
           \/ svc[pid].worker = "stopping"
           \/ /\ svc[pid].shutdown /\ svc[pid].profile \in Interactive
              /\ svc[pid].worker # "data",
           ServiceUnchanged, cmds' = cmds
    PROVE  Serves(pid)
<1> DEFINE s == Finished(svc[pid])
           old == svc[pid]
<1>1. /\ old \in Services /\ cmds \in [Pids -> Seq(Commands)]
      /\ old.main # "exited" /\ old.worker \notin {"none", "done"}
  BY DEF TypeOK, AtWork, Alive
<1>2. /\ s \in Services /\ s.profile = old.profile /\ s.main = old.main
      /\ s.worker = "done" /\ s.overflow = old.overflow /\ s.session = old.session
      /\ s.shutdown = old.shutdown /\ s.detached = old.detached
  BY <1>1, FinishedIs
<1>3. svc' = [svc EXCEPT ![pid] = s] /\ events' = events
  BY DEF Quietly
<1> HIDE DEF s
<1>4. ASSUME NEW state \in States, NEW interactive \in BOOLEAN,
             Reported(old, events[pid], cmds[pid], state, interactive),
             interactive = (old.profile \in Interactive), ~old.overflow
      PROVE  Reported(s, events[pid], cmds[pid], state, interactive)
  <2>1. Told(old, events[pid], state, cmds[pid], interactive) =>
           s.shutdown /\ interactive /\ old.worker # "data"
    BY <1>2, <1>4 DEF Told
  <2> QED
    BY <1>1, <1>2, <1>4, <2>1, ReportsNothing
<1> QED
  BY <1>1, <1>2, <1>3, <1>4, SilentServes

LEMMA MoveServes ==
    ASSUME TypeOK, NEW pid \in Pids, AtWork(pid), NEW s \in Services,
           svc' = [svc EXCEPT ![pid] = s], events' = events,
           KeepsSession(svc[pid], s), svc[pid].worker # "data",
           s.worker \notin {"none", "stopping", "done"},
           ServiceUnchanged, cmds' = cmds
    PROVE  Serves(pid)
<1> DEFINE old == svc[pid]
<1>1. /\ old \in Services /\ cmds \in [Pids -> Seq(Commands)]
      /\ old.main # "exited" /\ old.worker \notin {"none", "done"}
  BY DEF TypeOK, AtWork, Alive
<1>2. ASSUME NEW state \in States, NEW interactive \in BOOLEAN,
             Reported(old, events[pid], cmds[pid], state, interactive),
             interactive = (old.profile \in Interactive), ~old.overflow
      PROVE  Reported(s, events[pid], cmds[pid], state, interactive)
  BY <1>1, <1>2 DEF Reported, Told, KeepsSession
<1> QED
  BY <1>1, <1>2, SilentServes DEF KeepsSession

LEMMA HillstoneServes ==
    ASSUME TypeOK, NEW pid \in Pids,
           HillstoneLogin(pid) \/ HillstoneStart(pid) \/ HillstoneData(pid)
    PROVE  Serves(pid)
<1>0. svc[pid] \in Services
  BY DEF TypeOK
<1>1. /\ ServiceUnchanged /\ cmds' = cmds /\ AtWork(pid)
  BY DEF HillstoneLogin, HillstoneStart, HillstoneData, Works, AtWork
<1>2. CASE WorkerFails(pid)
  BY <1>1, <1>2, FailureServes
<1>3. CASE HillstoneLogin(pid) /\ ~WorkerFails(pid)
  <2> DEFINE s == [svc[pid] EXCEPT !.worker = "routed"]
  <2>1. s \in Services /\ KeepsSession(svc[pid], s) /\ s.worker = "routed"
    BY <1>0 DEF Services, KeepsSession, Phases
  <2>2. WorkerEmit(pid, <<"routes">>, s) /\ svc[pid].worker # "data"
    BY <1>3 DEF HillstoneLogin, Works
  <2>3. "routes" \in EventKinds
    BY DEF EventKinds
  <2> HIDE DEF s
  <2> QED
    BY <1>1, <2>1, <2>2, <2>3, WorkerSays
<1>4. CASE HillstoneStart(pid) /\ ~WorkerFails(pid)
  <2>1. PICK tun \in {"none", "active"} :
           WorkerEmit(pid, <<"connected">>,
                      [svc[pid] EXCEPT !.worker = "data", !.tun = tun])
    BY <1>4 DEF HillstoneStart
  <2> DEFINE s == [svc[pid] EXCEPT !.worker = "data", !.tun = tun]
  <2>2. s \in Services /\ KeepsSession(svc[pid], s) /\ s.worker = "data"
    BY <1>0 DEF Services, KeepsSession, Phases
  <2>3. "connected" \in EventKinds
    BY DEF EventKinds, States
  <2> HIDE DEF s
  <2> QED
    BY <1>1, <2>1, <2>2, <2>3, WorkerSays DEF s
<1>5. CASE HillstoneData(pid) /\ ~WorkerFails(pid)
  <2> DEFINE s == Finished(svc[pid])
  <2>1. s \in Services /\ KeepsSession(svc[pid], s) /\ s.worker = "done"
    BY <1>0, FinishedIs DEF KeepsSession
  <2>2. WorkerEmit(pid, <<"disconnected">>, s)
    BY <1>5 DEF HillstoneData
  <2>3. "disconnected" \in EventKinds
    BY DEF EventKinds, States
  <2> HIDE DEF s
  <2> QED
    BY <1>1, <2>1, <2>2, <2>3, WorkerSays
<1> QED
  BY <1>2, <1>3, <1>4, <1>5

LEMMA DialogFailsServes ==
    ASSUME TypeOK, NEW pid \in Pids, AtWork(pid), DialogFails(pid),
           svc[pid].shutdown => svc[pid].worker # "data",
           svc[pid].profile \in Interactive, ServiceUnchanged, cmds' = cmds
    PROVE  Serves(pid)
BY QuietlyServes, FailureServes DEF DialogFails

LEMMA ReauthenticateServes ==
    ASSUME TypeOK, NEW pid \in Pids, AtWork(pid), Reauthenticate(pid),
           svc[pid].shutdown => svc[pid].worker # "data",
           svc[pid].profile \in Interactive, ServiceUnchanged, cmds' = cmds
    PROVE  Serves(pid)
<1>1. CASE svc[pid].shutdown
  BY <1>1, QuietlyServes DEF Reauthenticate
<1>2. CASE ~svc[pid].shutdown
  <2>0. PICK tries \in 0..ReconnectBudget : tries = 0
    BY BoundsAssumption
  <2>1. WorkerEmit(pid, <<"connecting">>,
              [svc[pid] EXCEPT !.worker = "discover", !.tun = "none", !.tries = tries])
    BY <1>2, <2>0 DEF Reauthenticate
  <2> DEFINE s == [svc[pid] EXCEPT !.worker = "discover", !.tun = "none", !.tries = tries]
  <2>2. s \in Services /\ KeepsSession(svc[pid], s) /\ s.worker = "discover"
    <3>1. svc[pid] \in Services
      BY DEF TypeOK
    <3> QED
      BY ZenonT(40), <3>1 DEF Services, KeepsSession, Phases
  <2>3. "connecting" \in EventKinds
    BY DEF EventKinds, States
  <2> HIDE DEF s
  <2> QED
    BY <2>1, <2>2, <2>3, WorkerSays DEF s
<1> QED
  BY <1>1, <1>2

LEMMA ReconnectServes ==
    ASSUME TypeOK, NEW pid \in Pids, AtWork(pid), NEW tries \in 0..ReconnectBudget,
           Reconnect(pid, tries), svc[pid].shutdown => svc[pid].worker # "data",
           svc[pid].profile \in Interactive, ServiceUnchanged, cmds' = cmds
    PROVE  Serves(pid)
<1>1. CASE tries = ReconnectBudget
  BY <1>1, DialogFailsServes DEF Reconnect
<1>2. CASE tries # ReconnectBudget
  <2>0. PICK next \in 0..ReconnectBudget : next = tries + 1
    BY <1>2, BoundsAssumption
  <2>1. WorkerEmit(pid, <<"connecting">>,
              [svc[pid] EXCEPT !.worker = "backoff", !.tun = "idle", !.tries = next])
    BY <1>2, <2>0 DEF Reconnect
  <2> DEFINE s == [svc[pid] EXCEPT !.worker = "backoff", !.tun = "idle", !.tries = next]
  <2>2. s \in Services /\ KeepsSession(svc[pid], s) /\ s.worker = "backoff"
    <3>1. svc[pid] \in Services
      BY DEF TypeOK
    <3> HIDE DEF Reconnect
    <3> QED
      BY ZenonT(40), <3>1 DEF Services, KeepsSession, Phases
  <2>3. "connecting" \in EventKinds
    BY DEF EventKinds, States
  <2> HIDE DEF s
  <2> QED
    BY <2>1, <2>2, <2>3, WorkerSays DEF s
<1> QED
  BY <1>1, <1>2

(* The end of a session that was told to end, once and for all or before the  *)
(* helper has stopped; and a step to another phase, with an event or without. *)
LEMMA AnswerServes ==
    ASSUME TypeOK, NEW pid \in Pids, AtWork(pid), ServiceUnchanged, cmds' = cmds,
           \/ WorkerEmit(pid, <<"disconnected">>, Finished(svc[pid]))
           \/ WorkerEmit(pid, <<"disconnected">>, [svc[pid] EXCEPT !.worker = "stopping"])
    PROVE  Serves(pid)
<1>1. /\ svc[pid] \in Services /\ "disconnected" \in EventKinds
  BY DEF TypeOK, EventKinds, States
<1>2. PICK s \in Services :
         /\ WorkerEmit(pid, <<"disconnected">>, s)
         /\ KeepsSession(svc[pid], s) /\ s.worker \in {"done", "stopping"}
  <2>1. CASE WorkerEmit(pid, <<"disconnected">>, Finished(svc[pid]))
    BY <1>1, <2>1, FinishedIs DEF KeepsSession
  <2>2. CASE WorkerEmit(pid, <<"disconnected">>, [svc[pid] EXCEPT !.worker = "stopping"])
    <3> DEFINE s == [svc[pid] EXCEPT !.worker = "stopping"]
    <3>1. s \in Services /\ KeepsSession(svc[pid], s) /\ s.worker = "stopping"
      BY <1>1 DEF Services, KeepsSession, Phases
    <3> QED
      BY <2>2, <3>1
  <2> QED
    BY <2>1, <2>2
<1> QED
  BY <1>1, <1>2, WorkerSays

InPhase(old, phase, reply, tun, dialogs) ==
    [old EXCEPT !.worker = phase, !.reply = reply, !.tun = tun, !.dialogs = dialogs]

LEMMA PhaseIs ==
    ASSUME NEW old \in Services, NEW phase \in Phases \ {"none", "stopping", "done"},
           NEW reply \in BOOLEAN, NEW tun \in {"none", "idle", "active"},
           NEW dialogs \in 0..MaxDialogs, NEW s,
           s = InPhase(old, phase, reply, tun, dialogs)
    PROVE  s \in Services /\ KeepsSession(old, s) /\ s.worker = phase
BY DEF Services, KeepsSession, InPhase

LEMMA PhaseServes ==
    ASSUME TypeOK, NEW pid \in Pids, AtWork(pid), ServiceUnchanged, cmds' = cmds,
           NEW phase \in Phases \ {"none", "stopping", "done"}, NEW s \in Services,
           KeepsSession(svc[pid], s), s.worker = phase,
           \/ WorkerEmit(pid, <<"connecting">>, s)
           \/ WorkerEmit(pid, <<"challenge">>, s)
           \/ WorkerEmit(pid, <<"routes">>, s) /\ svc[pid].worker # "data"
           \/ WorkerEmit(pid, <<"connected">>, s) /\ phase = "data"
    PROVE  Serves(pid)
<1>2. {"connecting", "challenge", "routes", "connected"} \subseteq EventKinds
  BY DEF EventKinds, States
<1>3. CASE WorkerEmit(pid, <<"connecting">>, s) \/ WorkerEmit(pid, <<"challenge">>, s)
  BY <1>2, <1>3, WorkerSays
<1>4. CASE WorkerEmit(pid, <<"routes">>, s) /\ svc[pid].worker # "data"
  BY <1>2, <1>4, WorkerSays
<1>5. CASE WorkerEmit(pid, <<"connected">>, s) /\ phase = "data"
  BY <1>2, <1>5, WorkerSays
<1> QED
  BY <1>3, <1>4, <1>5

LEMMA SonicwallServes ==
    ASSUME TypeOK, NEW pid \in Pids,
           \/ Discover(pid) \/ Logon(pid) \/ WaitForReply(pid) \/ Establish(pid)
           \/ StartTun(pid) \/ TunConnected(pid) \/ TunData(pid) \/ StopTun(pid)
           \/ Backoff(pid)
    PROVE  Serves(pid)
<1> DEFINE old == svc[pid]
           Phase(phase) == [old EXCEPT !.worker = phase, !.reply = old.reply,
                                       !.tun = old.tun, !.dialogs = old.dialogs]
<1>0. /\ old \in Services /\ svc \in [Pids -> Services]
      /\ old.reply \in BOOLEAN /\ old.tun \in {"none", "idle", "active"}
      /\ old.dialogs \in 0..MaxDialogs /\ old.tries \in 0..ReconnectBudget
  BY DEF TypeOK, Services
<1>00. \A phase : [old EXCEPT !.worker = phase] = Phase(phase)
  BY <1>0 DEF Services
<1>1. /\ ServiceUnchanged /\ cmds' = cmds /\ AtWork(pid)
      /\ svc[pid].profile \in Interactive
  BY DEF Discover, Logon, WaitForReply, Establish, StartTun, TunConnected, TunData,
         StopTun, Backoff, Works, AtWork
<1>2. {"logon", "waiting", "establish", "starting", "routed", "data"}
         \subseteq Phases \ {"none", "stopping", "done"}
  BY DEF Phases
<1>3. CASE \/ WorkerEmit(pid, <<"disconnected">>, Finished(old))
           \/ WorkerEmit(pid, <<"disconnected">>, [old EXCEPT !.worker = "stopping"])
  BY <1>1, <1>3, AnswerServes
<1>4. CASE WorkerFails(pid)
  BY <1>1, <1>4, FailureServes
<1>5. CASE DialogFails(pid) /\ (old.shutdown => old.worker # "data")
  BY <1>1, <1>5, DialogFailsServes
<1>6. CASE Reauthenticate(pid) /\ (old.shutdown => old.worker # "data")
  BY <1>1, <1>6, ReauthenticateServes
<1>7. CASE /\ \E tries \in {0, old.tries} : Reconnect(pid, tries)
           /\ old.shutdown => old.worker # "data"
  <2>1. PICK tries \in 0..ReconnectBudget : Reconnect(pid, tries)
    <3>1. PICK t \in {0, old.tries} : Reconnect(pid, t)
      BY <1>7
    <3>2. t \in 0..ReconnectBudget
      <4>1. old.tries \in 0..ReconnectBudget /\ 0 \in 0..ReconnectBudget
        BY <1>0, BoundsAssumption
      <4> HIDE DEF old
      <4> QED
        BY <3>1, <4>1
    <3> QED
      BY <3>1, <3>2
  <2> QED
    BY <1>1, <1>7, <2>1, ReconnectServes
<1>8. CASE /\ Quietly(pid)
           /\ old.worker = "stopping" \/ (old.shutdown /\ old.worker # "data")
  BY <1>1, <1>8, QuietlyServes
<1>9. CASE \E phase \in {"waiting", "establish", "starting", "routed", "data"} :
              \/ /\ svc' = [svc EXCEPT ![pid].worker = phase] /\ UNCHANGED events
                 /\ old.worker # "data"
              \/ WorkerEmit(pid, <<"connecting">>, [old EXCEPT !.worker = phase])
              \/ WorkerEmit(pid, <<"challenge">>, [old EXCEPT !.worker = phase])
              \/ /\ WorkerEmit(pid, <<"connected">>, [old EXCEPT !.worker = phase])
                 /\ phase = "data"
  <2>1. PICK phase \in {"waiting", "establish", "starting", "routed", "data"} :
              \/ /\ svc' = [svc EXCEPT ![pid].worker = phase] /\ UNCHANGED events
                 /\ old.worker # "data"
              \/ WorkerEmit(pid, <<"connecting">>, [old EXCEPT !.worker = phase])
              \/ WorkerEmit(pid, <<"challenge">>, [old EXCEPT !.worker = phase])
              \/ /\ WorkerEmit(pid, <<"connected">>, [old EXCEPT !.worker = phase])
                 /\ phase = "data"
    BY <1>9
  <2>2. PICK s : s = Phase(phase)
    OBVIOUS
  <2>3. [old EXCEPT !.worker = phase] = s
    BY <1>00, <2>2
  <2>4. svc' = [svc EXCEPT ![pid].worker = phase] => svc' = [svc EXCEPT ![pid] = s]
    BY <1>0, <2>3
  <2>5. s = [svc[pid] EXCEPT !.worker = phase, !.reply = old.reply,
                             !.tun = old.tun, !.dialogs = old.dialogs]
    BY <2>2
  <2>6. phase \in Phases \ {"none", "stopping", "done"}
    BY <1>2
  <2>7. s \in Services /\ KeepsSession(svc[pid], s) /\ s.worker = phase
    <3>1. PICK o \in Services : o = old
      BY <1>0
    <3>2. /\ o.reply \in BOOLEAN /\ o.tun \in {"none", "idle", "active"}
          /\ o.dialogs \in 0..MaxDialogs
      BY <3>1, <1>0
    <3>3. s = InPhase(o, phase, o.reply, o.tun, o.dialogs)
      BY <3>1, <2>5 DEF InPhase
    <3> QED
      BY <3>1, <3>2, <3>3, <2>6, PhaseIs
  <2>8. CASE /\ svc' = [svc EXCEPT ![pid].worker = phase] /\ UNCHANGED events
             /\ old.worker # "data"
    <3>1. svc' = [svc EXCEPT ![pid] = s] /\ events' = events /\ svc[pid].worker # "data"
      BY <2>4, <2>8
    <3> QED
      BY <1>1, <2>6, <2>7, <3>1, MoveServes
  <2>9. CASE \/ WorkerEmit(pid, <<"connecting">>, [old EXCEPT !.worker = phase])
             \/ WorkerEmit(pid, <<"challenge">>, [old EXCEPT !.worker = phase])
             \/ /\ WorkerEmit(pid, <<"connected">>, [old EXCEPT !.worker = phase])
                /\ phase = "data"
    <3>1. \/ WorkerEmit(pid, <<"connecting">>, s)
          \/ WorkerEmit(pid, <<"challenge">>, s)
          \/ WorkerEmit(pid, <<"connected">>, s) /\ phase = "data"
      BY <2>3, <2>9
    <3> QED
      BY <1>1, <2>6, <2>7, <3>1, PhaseServes
  <2> QED
    BY <2>1, <2>8, <2>9
<1>10. CASE /\ old.worker = "waiting"
            /\ \/ WorkerEmit(pid, <<"connecting">>,
                             [old EXCEPT !.worker = "establish", !.reply = FALSE])
               \/ WorkerEmit(pid, <<"challenge">>,
                             [old EXCEPT !.worker = "waiting", !.reply = FALSE])
  <2> PICK phase \in {"establish", "waiting"} :
               \/ WorkerEmit(pid, <<"connecting">>,
                             [old EXCEPT !.worker = phase, !.reply = FALSE])
               \/ WorkerEmit(pid, <<"challenge">>,
                             [old EXCEPT !.worker = phase, !.reply = FALSE])
    BY <1>10
  <2>1. PICK reply \in BOOLEAN : reply = FALSE
    OBVIOUS
  <2>2. PICK s : s = [old EXCEPT !.worker = phase, !.reply = reply,
                                 !.tun = old.tun, !.dialogs = old.dialogs]
    OBVIOUS
  <2>3. [old EXCEPT !.worker = phase, !.reply = FALSE] = s
    BY <1>0, <2>1, <2>2 DEF Services
  <2>4. phase \in Phases \ {"none", "stopping", "done"}
    BY <1>2
  <2>5. s = [svc[pid] EXCEPT !.worker = phase, !.reply = reply,
                             !.tun = old.tun, !.dialogs = old.dialogs]
    BY <2>2, <2>4
  <2>6. WorkerEmit(pid, <<"connecting">>, s) \/ WorkerEmit(pid, <<"challenge">>, s)
    BY <2>3
  <2>7. s \in Services /\ KeepsSession(svc[pid], s) /\ s.worker = phase
    <3>1. PICK o \in Services : o = old
      BY <1>0
    <3>2. /\ o.reply \in BOOLEAN /\ o.tun \in {"none", "idle", "active"}
          /\ o.dialogs \in 0..MaxDialogs
      BY <3>1, <1>0
    <3>3. s = InPhase(o, phase, reply, o.tun, o.dialogs)
      BY <3>1, <2>5 DEF InPhase
    <3> QED
      BY <3>1, <3>2, <3>3, <2>4, PhaseIs
  <2> QED
    BY <1>1, <2>4, <2>6, <2>7, PhaseServes
<1>11. CASE /\ old.worker = "starting"
            /\ WorkerEmit(pid, <<"routes">>,
                          [old EXCEPT !.worker = "routed", !.tun = "active"])
  <2>1. PICK tun \in {"none", "idle", "active"} : tun = "active"
    OBVIOUS
  <2>2. PICK s : s = [old EXCEPT !.worker = "routed", !.reply = old.reply,
                                 !.tun = tun, !.dialogs = old.dialogs]
    OBVIOUS
  <2>3. [old EXCEPT !.worker = "routed", !.tun = "active"] = s
    BY <1>0, <2>1, <2>2 DEF Services
  <2>4. PICK phase \in Phases \ {"none", "stopping", "done"} : phase = "routed"
    BY <1>2
  <2>5. s = [svc[pid] EXCEPT !.worker = phase, !.reply = old.reply,
                             !.tun = tun, !.dialogs = old.dialogs]
    BY <2>2, <2>4
  <2>6. WorkerEmit(pid, <<"routes">>, s) /\ svc[pid].worker # "data"
    BY <1>11, <2>3
  <2>7. s \in Services /\ KeepsSession(svc[pid], s) /\ s.worker = phase
    <3>1. PICK o \in Services : o = old
      BY <1>0
    <3>2. /\ o.reply \in BOOLEAN /\ o.tun \in {"none", "idle", "active"}
          /\ o.dialogs \in 0..MaxDialogs
      BY <3>1, <1>0
    <3>3. s = InPhase(o, phase, o.reply, tun, o.dialogs)
      BY <3>1, <2>5 DEF InPhase
    <3> QED
      BY <3>1, <3>2, <3>3, PhaseIs
  <2> QED
    BY <1>1, <2>6, <2>7, PhaseServes
<1>12. CASE /\ old.worker = "discover" /\ old.dialogs < MaxDialogs
            /\ svc' = [svc EXCEPT ![pid].worker = "logon", ![pid].dialogs = @ + 1]
            /\ UNCHANGED events
  <2>1. PICK dialogs \in 0..MaxDialogs : dialogs = old.dialogs + 1
    <3>1. old.dialogs \in 0..MaxDialogs /\ old.dialogs < MaxDialogs
      BY <1>0, <1>12
    <3> HIDE DEF old
    <3> QED
      BY <3>1, BoundsAssumption
  <2>2. PICK s : s = [old EXCEPT !.worker = "logon", !.reply = old.reply,
                                 !.tun = old.tun, !.dialogs = dialogs]
    OBVIOUS
  <2>3. svc' = [svc EXCEPT ![pid] = s]
    BY <1>0, <1>12, <2>1, <2>2 DEF Services
  <2>4. PICK phase \in Phases \ {"none", "stopping", "done"} : phase = "logon"
    BY <1>2
  <2>5. s = [svc[pid] EXCEPT !.worker = phase, !.reply = old.reply,
                             !.tun = old.tun, !.dialogs = dialogs]
    BY <2>2, <2>4
  <2>6. svc' = [svc EXCEPT ![pid] = s] /\ events' = events /\ svc[pid].worker # "data"
    BY <1>12, <2>3
  <2>7. s \in Services /\ KeepsSession(svc[pid], s) /\ s.worker = phase
    <3>1. PICK o \in Services : o = old
      BY <1>0
    <3>2. /\ o.reply \in BOOLEAN /\ o.tun \in {"none", "idle", "active"}
          /\ o.dialogs \in 0..MaxDialogs
      BY <3>1, <1>0
    <3>3. s = InPhase(o, phase, o.reply, o.tun, dialogs)
      BY <3>1, <2>5 DEF InPhase
    <3> QED
      BY <3>1, <3>2, <3>3, PhaseIs
  <2> QED
    BY <1>1, <2>4, <2>6, <2>7, MoveServes
<1> HIDE DEF old
<1>13. CASE Discover(pid)
  BY <1>3, <1>4, <1>12, <1>13 DEF Discover, Works, old
<1>14. CASE Logon(pid)
  BY <1>5, <1>9, <1>14 DEF Logon, Works, old
<1>15. CASE WaitForReply(pid)
  BY <1>3, <1>4, <1>10, <1>15 DEF WaitForReply, Works, old
<1>16. CASE Establish(pid)
  BY <1>5, <1>6, <1>8, <1>9, <1>16 DEF Establish, Works, old
<1>17. CASE StartTun(pid)
  BY <1>3, <1>4, <1>11, <1>17 DEF StartTun, Works, old
<1>18. CASE TunConnected(pid)
  BY <1>9, <1>18 DEF TunConnected, Works, old
<1>19. CASE TunData(pid)
  BY <1>3, <1>4, <1>7, <1>19 DEF TunData, Works, old
<1>20. CASE StopTun(pid)
  BY <1>8, <1>20 DEF StopTun, Works, old
<1>21. CASE Backoff(pid)
  BY <1>5, <1>6, <1>7, <1>8, <1>9, <1>21 DEF Backoff, Works, old
<1> QED
  BY <1>13, <1>14, <1>15, <1>16, <1>17, <1>18, <1>19, <1>20, <1>21

-----------------------------------------------------------------------------
(* The main thread.                                                           *)

LEMMA ReadIs ==
    ASSUME TypeOK, NEW pid \in Pids, NEW kinds, Reads(pid, kinds)
    PROVE  /\ ServiceUnchanged /\ faults' = faults
           /\ svc[pid] \in Services /\ svc[pid].main = "loop"
           /\ events[pid] \in Seq(EventKinds)
           /\ cmds' \in [Pids -> Seq(Commands)]
           /\ \A x \in Pids \ {pid} : cmds'[x] = cmds[x]
           /\ cmds'[pid] = Tail(cmds[pid]) /\ Head(cmds[pid]) \in kinds
           /\ ("detach" \notin kinds /\ Has(cmds[pid], "detach")) => Has(cmds'[pid], "detach")
<1>1. /\ cmds \in [Pids -> Seq(Commands)] /\ cmds[pid] \in Seq(Commands)
      /\ cmds[pid] # <<>> /\ Head(cmds[pid]) \in kinds
      /\ cmds' = [cmds EXCEPT ![pid] = Tail(cmds[pid])]
  BY DEF TypeOK, Reads
<1>2. Tail(cmds[pid]) \in Seq(Commands)
  BY <1>1, TakeIs
<1>3. ASSUME "detach" \notin kinds, Has(cmds[pid], "detach")
      PROVE  Has(Tail(cmds[pid]), "detach")
  BY <1>1, <1>3, TakeHas
<1> QED
  BY <1>1, <1>2, <1>3 DEF TypeOK, Reads

LEMMA RefusalServes ==
    ASSUME TypeOK, NEW pid \in Pids, NEW kinds, Reads(pid, kinds),
           NEW evs \in {<<"failed", "error">>, <<"disconnected">>},
           MainEmit(pid, evs, svc[pid]),
           "connect" \in kinds => svc[pid].session
    PROVE  Serves(pid)
<1>1. evs \in Seq(EventKinds) /\ Ends(evs)
  <2>1. /\ <<"failed", "error">> \in Seq(EventKinds) /\ Ends(<<"failed", "error">>)
        /\ <<"disconnected">> \in Seq(EventKinds) /\ Ends(<<"disconnected">>)
    BY DEF EventKinds, States, Ends
  <2> QED
    BY <2>1
<1>2. ASSUME NEW state \in States, NEW interactive \in BOOLEAN, ~svc[pid].overflow,
             Reported(svc[pid], events[pid], cmds[pid], state, interactive)
      PROVE  Reported(svc[pid], events[pid] \o evs, cmds'[pid], state, interactive)
  <2>1. svc[pid].worker # "none"
    BY <1>2, ReadIs DEF Reported
  <2>2. svc[pid].worker \notin {"none", "done"} => svc[pid].session
    BY <1>2, ReadIs DEF Reported
  <2> QED
    BY <1>1, <2>1, <2>2, ReadIs, ReportsEnd
<1>3. /\ ServiceUnchanged /\ svc[pid] \in Services /\ svc[pid].main # "exited"
      /\ cmds' \in [Pids -> Seq(Commands)]
      /\ \A x \in Pids \ {pid} : cmds'[x] = cmds[x]
  BY ReadIs
<1> QED
  BY <1>1, <1>2, <1>3, EmitServes

LEMMA ConnectServes ==
    ASSUME TypeOK, NEW pid \in Pids, MainConnect(pid)
    PROVE  Serves(pid)
<1> DEFINE old == svc[pid]
<1>0. Reads(pid, {"connect"})
  BY DEF MainConnect
<1>1. CASE old.session
  BY <1>0, <1>1, RefusalServes DEF MainConnect
<1>2. CASE ~old.session
  <2>1. PICK tries \in 0..ReconnectBudget, dialogs \in 0..MaxDialogs :
           tries = 0 /\ dialogs = 0
    BY BoundsAssumption
  <2>2. PICK off \in BOOLEAN, on \in BOOLEAN : off = FALSE /\ on = TRUE
    OBVIOUS
  <2>3. PICK s : s = [old EXCEPT !.session = on, !.worker = "discover", !.shutdown = off,
                                 !.reply = off, !.tries = tries, !.dialogs = dialogs]
    OBVIOUS
  <2>4. MainEmit(pid, <<"connecting">>, s)
    BY <1>2, <2>1, <2>2, <2>3 DEF MainConnect
  <2>5. /\ s \in Services /\ s.profile = old.profile /\ s.main = old.main
        /\ s.overflow = old.overflow /\ s.worker = "discover" /\ s.session
    <3>1. old \in Services
      BY <1>0, ReadIs
    <3> QED
      BY ZenonT(40), <2>2, <2>3, <3>1 DEF Services, Phases
  <2>6. "connecting" \in EventKinds /\ <<"connecting">> \in Seq(EventKinds)
    BY DEF EventKinds, States
  <2>7. ASSUME NEW state \in States, NEW interactive \in BOOLEAN, ~old.overflow,
               Reported(old, events[pid], cmds[pid], state, interactive)
        PROVE  Reported(s, events[pid] \o <<"connecting">>, cmds'[pid], state, interactive)
    <3>1. events[pid] \in Seq(EventKinds) /\ old.main # "exited"
      BY <1>0, ReadIs
    <3> HIDE DEF old
    <3> QED
      BY <2>5, <2>6, <2>7, <3>1, ReportsEvent
  <2>8. /\ ServiceUnchanged /\ old.main # "exited" /\ cmds' \in [Pids -> Seq(Commands)]
        /\ \A x \in Pids \ {pid} : cmds'[x] = cmds[x]
    BY <1>0, ReadIs
  <2> QED
    BY <2>4, <2>5, <2>6, <2>7, <2>8, EmitServes
<1> QED
  BY <1>1, <1>2

LEMMA ReplyServes ==
    ASSUME TypeOK, NEW pid \in Pids, MainReply(pid)
    PROVE  Serves(pid)
<1> DEFINE old == svc[pid]
<1>0. Reads(pid, {"reply"})
  BY DEF MainReply
<1>1. CASE ~(old.session /\ old.worker # "done")
  BY <1>0, <1>1, RefusalServes DEF MainReply
<1>2. CASE old.session /\ old.worker # "done"
  <2>1. PICK s : s = [old EXCEPT !.reply = TRUE]
    OBVIOUS
  <2>2. /\ s \in Services /\ s.profile = old.profile /\ s.main = old.main
        /\ s.overflow = old.overflow /\ s.worker = old.worker /\ s.session = old.session
        /\ s.shutdown = old.shutdown /\ s.detached = old.detached
    BY <1>0, <2>1, ReadIs DEF Services
  <2>3. svc' = [svc EXCEPT ![pid] = s] /\ events' = events
    BY <1>2, <2>1 DEF MainReply
  <2>4. ASSUME NEW state \in States, NEW interactive \in BOOLEAN, ~old.overflow,
               Reported(old, events[pid], cmds[pid], state, interactive)
        PROVE  Reported(s, events[pid], cmds'[pid], state, interactive)
    <3>1. old.main # "exited" /\ Head(cmds[pid]) = "reply"
          /\ (Has(cmds[pid], "detach") => Has(cmds'[pid], "detach"))
      BY <1>0, ReadIs
    <3>2. old.worker # "none" /\ (old.worker \notin {"none", "done"} => old.session)
      BY <2>4, <3>1 DEF Reported
    <3>3. Told(old, events[pid], state, cmds[pid], interactive) =>
             old.worker # "stopping" /\ (old.worker = "done" => old.shutdown /\ interactive)
      BY DEF Told
    <3> HIDE DEF old
    <3> QED
      BY <2>2, <2>4, <3>1, <3>2, <3>3, ReportsNothing
  <2>5. /\ ServiceUnchanged /\ old.main # "exited" /\ cmds' \in [Pids -> Seq(Commands)]
        /\ \A x \in Pids \ {pid} : cmds'[x] = cmds[x]
    BY <1>0, ReadIs
  <2> QED
    BY <2>2, <2>3, <2>4, <2>5, SilentServes
<1> QED
  BY <1>1, <1>2

LEMMA StopServes ==
    ASSUME TypeOK, NEW pid \in Pids, MainStop(pid)
    PROVE  Serves(pid)
<1> DEFINE old == svc[pid]
<1>0. Reads(pid, {"disconnect", "cancel"})
  BY DEF MainStop
<1>1. CASE ~old.session
  BY <1>0, <1>1, RefusalServes DEF MainStop
<1>2. CASE old.session
  <2>1. PICK s : s = [old EXCEPT !.shutdown = TRUE, !.main = "join"]
    OBVIOUS
  <2>2. /\ s \in Services /\ s.profile = old.profile /\ s.main = "join"
        /\ s.overflow = old.overflow /\ s.worker = old.worker /\ s.session = old.session
        /\ s.shutdown /\ s.detached = old.detached
    BY <1>0, <2>1, ReadIs DEF Services
  <2>3. MainEmit(pid, <<"disconnecting">>, s)
    BY <1>2, <2>1 DEF MainStop
  <2>4. "disconnecting" \in EventKinds /\ <<"disconnecting">> \in Seq(EventKinds)
    BY DEF EventKinds, States
  <2>5. ASSUME NEW state \in States, NEW interactive \in BOOLEAN, ~old.overflow,
               Reported(old, events[pid], cmds[pid], state, interactive)
        PROVE  Reported(s, events[pid] \o <<"disconnecting">>, cmds'[pid], state, interactive)
    <3>1. /\ old.main # "exited" /\ Head(cmds[pid]) # "connect"
          /\ events[pid] \in Seq(EventKinds)
      BY <1>0, ReadIs
    <3>2. old.worker # "none" /\ (old.worker \notin {"none", "done"} => old.session)
      BY <2>5, <3>1 DEF Reported
    <3>3. Told(old, events[pid], state, cmds[pid], interactive) =>
             old.worker # "stopping" /\ (old.worker = "done" => interactive)
      BY DEF Told
    <3> HIDE DEF old
    <3> QED
      BY <2>2, <2>4, <2>5, <3>1, <3>2, <3>3, ReportsEvent
  <2>6. /\ ServiceUnchanged /\ old.main # "exited" /\ cmds' \in [Pids -> Seq(Commands)]
        /\ \A x \in Pids \ {pid} : cmds'[x] = cmds[x]
    BY <1>0, ReadIs
  <2> QED
    BY <2>2, <2>3, <2>4, <2>5, <2>6, EmitServes
<1> QED
  BY <1>1, <1>2

LEMMA DetachServes ==
    ASSUME TypeOK, NEW pid \in Pids, MainDetach(pid)
    PROVE  Serves(pid)
<1> DEFINE old == svc[pid]
<1>0. Reads(pid, {"detach"})
  BY DEF MainDetach
<1>1. PICK s : s = [old EXCEPT !.detached = TRUE]
  OBVIOUS
<1>2. /\ s \in Services /\ s.profile = old.profile /\ s.main = old.main
      /\ s.overflow = old.overflow /\ s.worker = old.worker /\ s.session = old.session
      /\ s.shutdown = old.shutdown /\ s.detached
  BY <1>0, <1>1, ReadIs DEF Services
<1>3. PICK e \in {"connected", "disconnected"} : Emit(pid, <<e>>, s)
  BY <1>1 DEF MainDetach
<1>4. e \in EventKinds /\ <<e>> \in Seq(EventKinds)
  BY DEF EventKinds, States
<1>5. ASSUME NEW state \in States, NEW interactive \in BOOLEAN, ~old.overflow,
             Reported(old, events[pid], cmds[pid], state, interactive)
      PROVE  Reported(s, events[pid] \o <<e>>, cmds'[pid], state, interactive)
  <2>1. /\ old.main # "exited" /\ Head(cmds[pid]) # "connect"
        /\ events[pid] \in Seq(EventKinds)
    BY <1>0, ReadIs
  <2>2. old.worker # "none" /\ (old.worker \notin {"none", "done"} => old.session)
    BY <1>5, <2>1 DEF Reported
  <2>3. Told(old, events[pid], state, cmds[pid], interactive) =>
           old.worker # "stopping" /\ (old.worker = "done" => old.shutdown /\ interactive)
    BY DEF Told
  <2> HIDE DEF old
  <2> QED
    BY <1>2, <1>4, <1>5, <2>1, <2>2, <2>3, ReportsEvent
<1>6. /\ ServiceUnchanged /\ old.main # "exited" /\ cmds' \in [Pids -> Seq(Commands)]
      /\ \A x \in Pids \ {pid} : cmds'[x] = cmds[x]
  BY <1>0, ReadIs
<1> QED
  BY <1>2, <1>3, <1>4, <1>5, <1>6, EmitServes

LEMMA EndServes ==
    ASSUME TypeOK, NEW pid \in Pids,
           MainJoined(pid) \/ MainEof(pid) \/ MainExit(pid) \/ HelperCleans(pid)
              \/ ServiceDies(pid)
    PROVE  Serves(pid)
<1> DEFINE old == svc[pid]
<1>0. /\ svc \in [Pids -> Services] /\ old \in Services
      /\ cmds \in [Pids -> Seq(Commands)] /\ ServiceUnchanged
  BY DEF TypeOK, MainJoined, MainEof, MainExit, HelperCleans, ServiceDies
<1>1. CASE MainJoined(pid)
  <2>1. PICK s : s = [old EXCEPT !.main = "loop", !.session = FALSE]
    OBVIOUS
  <2>2. /\ svc' = [svc EXCEPT ![pid] = s] /\ events' = events /\ cmds' = cmds
        /\ old.main = "join" /\ old.worker = "done"
    BY <1>0, <1>1, <2>1 DEF MainJoined
  <2>3. /\ s \in Services /\ s.profile = old.profile /\ s.overflow = old.overflow
        /\ s.worker = "done" /\ s.shutdown = old.shutdown
    BY <1>0, <2>1, <2>2 DEF Services
  <2>4. ASSUME NEW state \in States, NEW interactive \in BOOLEAN, ~old.overflow,
               Reported(old, events[pid], cmds[pid], state, interactive)
        PROVE  Reported(s, events[pid], cmds[pid], state, interactive)
    <3>1. Told(old, events[pid], state, cmds[pid], interactive)
             => Told(s, events[pid], state, cmds[pid], interactive)
      <4>1. s.detached = old.detached
        BY <1>0, <2>1 DEF Services
      <4> QED
        BY <2>2, <2>3, <4>1 DEF Told
    <3> QED
      BY <2>2, <2>3, <2>4, <3>1 DEF Reported
  <2> QED
    BY <1>0, <2>2, <2>3, <2>4, SilentServes
<1>2. CASE MainEof(pid)
  <2>1. PICK s \in Services :
           /\ svc' = [svc EXCEPT ![pid] = s]
           /\ s.main # "exited" => s.profile = old.profile /\ s.overflow = old.overflow
    <3>1. CASE old.session
      <4> DEFINE s == [old EXCEPT !.detached = TRUE, !.main = "eof"]
      <4>1. s \in Services /\ s.profile = old.profile /\ s.overflow = old.overflow
        BY <1>0 DEF Services
      <4>2. svc' = [svc EXCEPT ![pid] = s]
        BY <1>2, <3>1 DEF MainEof
      <4> HIDE DEF s
      <4> QED
        BY <4>1, <4>2
    <3>2. CASE ~old.session
      BY <1>0, <1>2, <3>2, DeadIs DEF MainEof
    <3> QED
      BY <3>1, <3>2
  <2>2. ~Attached(pid) /\ events' = events /\ cmds' = cmds /\ old.main = "loop"
    BY <1>2 DEF MainEof
  <2> QED
    BY <1>0, <2>1, <2>2, SilentServes
<1>3. CASE MainExit(pid)
  <2>1. /\ svc' = [svc EXCEPT ![pid] = Dead(old)] /\ events' = events /\ cmds' = cmds
    BY <1>3 DEF MainExit
  <2> QED
    BY <1>0, <2>1, DeadIs, SilentServes
<1>4. CASE HelperCleans(pid)
  <2>1. PICK s : s = [old EXCEPT !.tun = "none"]
    OBVIOUS
  <2>2. s \in Services /\ s.main = "exited"
    BY <1>0, <1>4, <2>1 DEF HelperCleans, Alive, Services, Pids
  <2>3. svc' = [svc EXCEPT ![pid] = s] /\ events' = events /\ cmds' = cmds
    BY <1>0, <1>4, <2>1 DEF HelperCleans
  <2> QED
    BY <1>0, <2>2, <2>3, SilentServes
<1>5. CASE ServiceDies(pid)
  <2>1. /\ svc' = [svc EXCEPT ![pid] = Dead(old)] /\ events' = events
        /\ cmds' = [cmds EXCEPT ![pid] = <<>>]
    BY <1>5 DEF ServiceDies
  <2>2. cmds' \in [Pids -> Seq(Commands)]
    BY <1>0, <2>1
  <2> QED
    BY <1>0, <2>1, <2>2, DeadIs, SilentServes
<1> QED
  BY <1>1, <1>2, <1>3, <1>4, <1>5

LEMMA ServiceStep ==
    ASSUME SessionInv, NEW pid \in Pids,
           Main(pid) \/ Worker(pid) \/ HelperCleans(pid) \/ ServiceDies(pid)
    PROVE  SessionInv'
<1>1. TypeOK
  BY DEF SessionInv
<1>2. Serves(pid)
  BY <1>1, ConnectServes, ReplyServes, StopServes, DetachServes, EndServes,
     HillstoneServes, SonicwallServes DEF Main, Worker
<1>3. faults' \in 0..MaxFaults
  <2>1. faults' = faults \/ Fault
    BY DEF Main, Worker, MainConnect, MainReply, MainStop, MainJoined, MainDetach, MainEof,
       MainExit, Reads, HillstoneLogin, HillstoneStart, HillstoneData, Discover, Logon,
       WaitForReply, Establish, StartTun, TunConnected, TunData, StopTun, Backoff, Works,
       HelperCleans, ServiceDies
  <2> QED
    BY <1>1, <2>1, BoundsAssumption DEF TypeOK, Fault
<1> QED
  BY <1>2, <1>3, ServesKeeps

-----------------------------------------------------------------------------
(* The TUI with the services left alone.                                      *)

LEMMA SaveIs ==
    ASSUME TypeOK, OwnersInv, tui, NEW p \in Profiles
    PROVE  /\ RuntimeStates(prof)[p] \in 0..MaxPid
           /\ RuntimeStates(prof)[p] # 0 => Alive(RuntimeStates(prof)[p])
           /\ Alive(RuntimeStates(prof)[p]) => svc[RuntimeStates(prof)[p]].profile = p
           /\ \A pid \in Pids : Alive(pid) /\ svc[pid].profile = p
                                  => RuntimeStates(prof)[p] = pid
<1> DEFINE pid == IF prof[p].proc # 0 THEN prof[p].proc ELSE prof[p].background
           r == RuntimeStates(prof)[p]
<1>1. r = IF Alive(pid) THEN pid ELSE 0
  BY DEF RuntimeStates
<1>2. pid \in 0..MaxPid /\ 0 \in 0..MaxPid
  BY BoundsAssumption DEF TypeOK, Runtimes
<1>3. Alive(pid) => svc[pid].profile = p
  BY DEF OwnersInv, RuntimeInv
<1>4. ASSUME NEW x \in Pids, Alive(x), svc[x].profile = p
      PROVE  r = x
  <2>1. Known(p, x) /\ x # 0
    BY <1>4 DEF OwnersInv, ClaimInv, Alive
  <2>2. pid = x
    BY <2>1 DEF Known
  <2> HIDE DEF pid, r
  <2> QED
    BY <1>1, <1>4, <2>2
<1>5. ~Alive(0)
  BY DEF Alive
<1> HIDE DEF pid
<1> QED
  BY <1>1, <1>2, <1>3, <1>4, <1>5

LEMMA SavedIs ==
    ASSUME TypeOK, OwnersInv, tui
    PROVE  /\ RuntimeStates(prof) \in [Profiles -> 0..MaxPid]
           /\ \A x \in Pids : Alive(x) => RuntimeStates(prof)[svc[x].profile] = x
           /\ \A p \in Profiles : Alive(RuntimeStates(prof)[p])
                                    => svc[RuntimeStates(prof)[p]].profile = p
<1>1. \A p \in Profiles : RuntimeStates(prof)[p] \in 0..MaxPid
  BY SaveIs
<1>2. RuntimeStates(prof) = [p \in Profiles |-> RuntimeStates(prof)[p]]
  BY DEF RuntimeStates
<1>3. ASSUME NEW x \in Pids, Alive(x)
      PROVE  RuntimeStates(prof)[svc[x].profile] = x
  <2>1. svc[x].profile \in Profiles
    BY DEF TypeOK, Services
  <2> QED
    BY <1>3, <2>1, SaveIs
<1> QED
  BY <1>1, <1>2, <1>3, SaveIs

LEMMA NewProfileIs ==
    ASSUME NEW pid \in 0..MaxPid
    PROVE  /\ NewProfile(pid) \in Runtimes /\ NewProfile(pid).proc = 0
           /\ NewProfile(pid).background = pid /\ ~NewProfile(pid).routes
           /\ pid # 0 => NewProfile(pid).state = "connected"
<1>1. PICK st \in States : st = IF pid = 0 THEN "disconnected" ELSE "connected"
  BY DEF States
<1>2. NewProfile(pid) = [state |-> st, proc |-> 0, background |-> pid, failed |-> FALSE,
                         routes |-> FALSE]
  BY <1>1 DEF NewProfile
<1> QED
  BY <1>1, <1>2, BoundsAssumption DEF Runtimes

(* What the TUI may change of a profile while its services go on.             *)
Tends(p) ==
    /\ prof'[p].proc = prof[p].proc
    /\ prof[p].proc # 0 => /\ prof'[p].background \in {0, prof[p].proc}
                           /\ ~prof'[p].failed
    /\ prof[p].proc = 0 =>
          /\ prof'[p].background = prof[p].background
          /\ Alive(prof[p].background) => prof'[p].state = prof[p].state
    /\ prof'[p].routes => prof[p].routes \/ prof[p].proc # 0

LEMMA TendsKeeps ==
    ASSUME TypeOK, OwnersInv, tui, tui', svc' = svc, kind' = kind,
           saved' = saved \/ saved' = RuntimeStates(prof),
           \A p \in Profiles : Tends(p)
    PROVE  SavedInv' /\ ClaimInv' /\ RuntimeInv'
<1>1. \A x : Alive(x)' = Alive(x)
  BY DEF Alive
<1>2. SavedInv'
  <2>1. CASE saved' = saved
    BY <1>1, <2>1 DEF OwnersInv, SavedInv
  <2>2. CASE saved' = RuntimeStates(prof)
    <3>1. ASSUME NEW pid \in Pids, Alive(pid)
          PROVE  saved'[svc[pid].profile] = pid
      <4>1. svc[pid].profile \in Profiles
        BY DEF TypeOK, Services
      <4> QED
        BY <2>2, <3>1, <4>1, SaveIs
    <3>2. ASSUME NEW p \in Profiles, Alive(saved'[p])
          PROVE  svc[saved'[p]].profile = p
      BY <2>2, <3>2, SaveIs
    <3> QED
      BY <1>1, <3>1, <3>2 DEF SavedInv
  <2> QED
    BY <2>1, <2>2
<1>3. ClaimInv'
  <2>1. ASSUME NEW pid \in Pids, Alive(pid)
        PROVE  Known(svc[pid].profile, pid)'
    <3>1. Known(svc[pid].profile, pid) /\ svc[pid].profile \in Profiles
      BY <2>1 DEF OwnersInv, ClaimInv, TypeOK, Services
    <3> QED
      BY <3>1 DEF Known, Tends
  <2> QED
    BY <1>1, <2>1 DEF ClaimInv
<1>4. RuntimeInv'
  <2> SUFFICES ASSUME NEW p \in Profiles
               PROVE  /\ prof'[p].proc # 0 =>
                           /\ Alive(prof'[p].proc) => svc[prof'[p].proc].profile = p
                           /\ prof'[p].background \in {0, prof'[p].proc}
                           /\ ~prof'[p].failed
                      /\ prof'[p].proc = 0 /\ Alive(prof'[p].background) =>
                           /\ prof'[p].state = "connected"
                           /\ svc[prof'[p].background].profile = p
                      /\ prof'[p].routes /\ p \in Interactive => prof'[p].proc # 0
    BY <1>1 DEF RuntimeInv, Interactive
  <2> QED
    BY DEF OwnersInv, RuntimeInv, Tends
<1> QED
  BY <1>2, <1>3, <1>4

LEMMA BypassKept ==
    ASSUME OwnersInv, tui, kind' = kind, bypass' = bypass, stale' = stale,
           \A p \in Profiles : prof'[p].proc = prof[p].proc
    PROVE  BypassInv'
BY DEF OwnersInv, BypassInv, BypassBacked, Interactive

(* The list that reaches the OS, or does not, holds only owned sessions.      *)
LEMMA BypassRefreshed ==
    ASSUME OwnersInv, tui, kind' = kind, RefreshBypass(prof'),
           \A p \in Interactive : prof'[p].routes => prof'[p].proc # 0
    PROVE  BypassInv'
<1>1. CASE bypass' = BypassEntries(prof') /\ stale' = FALSE
  BY <1>1 DEF BypassInv, BypassBacked, BypassEntries, Interactive
<1>2. CASE stale' = TRUE /\ bypass' = bypass
  BY <1>2 DEF OwnersInv, BypassInv, BypassBacked, Interactive
<1> QED
  BY <1>1, <1>2 DEF RefreshBypass

(* A dead service has nothing to report; a command that is appended, and an   *)
(* event that is taken and shown, change nothing that is to be reported.      *)
Grows(c, d) == /\ c # <<>> => d # <<>> /\ Head(d) = Head(c)
               /\ Has(c, "detach") => Has(d, "detach")

LEMMA GrowsReported ==
    ASSUME NEW s, NEW q, NEW c, NEW d, NEW before, NEW after, NEW interactive,
           Reported(s, q, c, before, interactive), Grows(c, d),
           after = "connected" => before = "connected" \/ Has(d, "detach")
    PROVE  Reported(s, q, d, after, interactive)
BY DEF Reported, Told, Grows, ShowsConnected

LEMMA TakeReported ==
    ASSUME NEW s, NEW q \in Seq(EventKinds), q # <<>>, NEW c, NEW before, NEW after,
           NEW interactive, Reported(s, q, c, before, interactive),
           Head(q) \notin {"failed", "disconnected"},
           after = "connected" =>
              Head(q) = "connected" \/ (Head(q) = "routes" /\ before = "connected")
    PROVE  Reported(s, Tail(q), c, after, interactive)
BY TakeEnds, TakeShows DEF Reported, Told

KeepsReport(p, owner, pid) ==
    \A interactive \in BOOLEAN :
       LET x == prof[p].proc
       IN  /\ x # 0 /\ (x = pid => p = owner)
           /\ Reported(svc[x], events[x], cmds[x], prof[p].state, interactive)
           => Reported(svc[x], events'[x], cmds'[x], prof'[p].state, interactive)

LEMMA QueueKept ==
    ASSUME TypeOK, QueueInv, svc' = svc, kind' = kind,
           \A p \in Profiles : prof'[p].proc = prof[p].proc,
           NEW owner \in Profiles, NEW pid, pid = prof[owner].proc,
           \A p \in Profiles : KeepsReport(p, owner, pid),
           OwnersInv
    PROVE  QueueInv'
<1> SUFFICES ASSUME NEW p \in Profiles, prof[p].proc # 0
             PROVE  Reported(svc[prof[p].proc], events'[prof[p].proc], cmds'[prof[p].proc],
                             prof'[p].state, p \in Interactive)
  BY DEF QueueInv, Interactive
<1> DEFINE x == prof[p].proc
<1>1. Reported(svc[x], events[x], cmds[x], prof[p].state, p \in Interactive)
  BY DEF QueueInv
<1>2. CASE x = pid => p = owner
  <2>1. (p \in Interactive) \in BOOLEAN
    OBVIOUS
  <2> QED
    BY <1>1, <1>2, <2>1 DEF KeepsReport
<1>3. CASE x = pid /\ p # owner
  <2>1. ~Alive(x)
    BY <1>3 DEF OwnersInv, RuntimeInv
  <2> QED
    BY <2>1 DEF Alive, Reported
<1> QED
  BY <1>2, <1>3

(* A step of the TUI that leaves its services alone.                          *)
LEMMA TendsStep ==
    ASSUME SessionInv, tui, tui', svc' = svc, kind' = kind,
           saved' = saved \/ saved' = RuntimeStates(prof),
           prof' \in [Profiles -> Runtimes], modal' \in Profiles \cup {"none"},
           stale' \in BOOLEAN, faults' \in 0..MaxFaults,
           cmds' \in [Pids -> Seq(Commands)], events' \in [Pids -> Seq(EventKinds)],
           \A x \in Pids : Len(events'[x]) <= QueueCapacity,
           \A p \in Profiles : Tends(p),
           BypassInv', QueueInv'
    PROVE  SessionInv'
<1>1. TypeOK /\ OwnersInv
  BY DEF SessionInv
<1>2. SavedInv' /\ ClaimInv' /\ RuntimeInv'
  BY <1>1, TendsKeeps
<1>3. saved' \in [Profiles -> 0..MaxPid]
  <2>1. CASE saved' = saved
    BY <1>1, <2>1 DEF TypeOK
  <2>2. CASE saved' = RuntimeStates(prof)
    BY <1>1, <2>2, SavedIs
  <2> QED
    BY <2>1, <2>2
<1>4. bypass' \subseteq Profiles
  BY DEF BypassInv, Interactive
<1>5. TypeOK'
  BY <1>1, <1>3, <1>4 DEF TypeOK
<1> QED
  BY <1>2, <1>5 DEF SessionInv, OwnersInv

(* One profile is changed and nothing else of the TUI.                        *)
LEMMA OneTends ==
    ASSUME TypeOK, OwnersInv, NEW p \in Profiles, NEW r \in Runtimes,
           prof' = [prof EXCEPT ![p] = r], r.proc = prof[p].proc,
           prof[p].proc # 0 => r.background \in {0, prof[p].proc} /\ ~r.failed,
           prof[p].proc = 0 =>
              /\ r.background = prof[p].background
              /\ Alive(prof[p].background) => r.state = prof[p].state,
           r.routes => prof[p].routes \/ prof[p].proc # 0
    PROVE  /\ prof' \in [Profiles -> Runtimes] /\ prof'[p] = r
           /\ \A q \in Profiles : Tends(q) /\ prof'[q].proc = prof[q].proc
           /\ \A q \in Profiles \ {p} : prof'[q] = prof[q]
<1>1. prof \in [Profiles -> Runtimes]
  BY DEF TypeOK
<1>2. prof' \in [Profiles -> Runtimes] /\ prof'[p] = r
      /\ \A q \in Profiles \ {p} : prof'[q] = prof[q]
  BY <1>1
<1>3. Tends(p)
  BY <1>2 DEF Tends
<1>4. ASSUME NEW q \in Profiles \ {p}
      PROVE  Tends(q)
  BY <1>2 DEF Tends, OwnersInv, RuntimeInv
<1> QED
  BY <1>2, <1>3, <1>4 DEF Tends

(* A command goes to the service of a profile, or none does.                  *)
LEMMA SendKeeps ==
    ASSUME SessionInv, NEW p \in Profiles, NEW pid, pid = prof[p].proc, NEW cmd \in Commands,
           (pid \in Pids /\ Send(pid, cmd)) \/ cmds' = cmds, svc' = svc, kind' = kind,
           events' = events,
           \A q \in Profiles : prof'[q].proc = prof[q].proc,
           \A q \in Profiles \ {p} : prof'[q].state = prof[q].state,
           prof'[p].state = "connected" => prof[p].state = "connected"
    PROVE  /\ QueueInv' /\ cmds' \in [Pids -> Seq(Commands)]
           /\ events' \in [Pids -> Seq(EventKinds)]
           /\ \A x \in Pids : Len(events'[x]) <= QueueCapacity
<1>1. /\ TypeOK /\ OwnersInv /\ QueueInv
      /\ cmds \in [Pids -> Seq(Commands)] /\ events \in [Pids -> Seq(EventKinds)]
      /\ \A x \in Pids : Len(events[x]) <= QueueCapacity
  BY DEF SessionInv, TypeOK
<1>2. /\ cmds' \in [Pids -> Seq(Commands)]
      /\ \A x \in Pids : Grows(cmds[x], cmds'[x]) /\ (x # pid => cmds'[x] = cmds[x])
  <2>1. CASE pid \in Pids /\ Send(pid, cmd)
    <3>0. cmds[pid] \in Seq(Commands)
      BY <1>1, <2>1
    <3>1. PICK c \in Seq(Commands) : c = Append(cmds[pid], cmd)
      BY <3>0, AppendProperties
    <3>2. Grows(cmds[pid], c)
      BY <3>0, <3>1, AppendIs DEF Grows
    <3>3. cmds' = [cmds EXCEPT ![pid] = c]
      BY <2>1, <3>1 DEF Send
    <3>4. \A x \in Pids \ {pid} : Grows(cmds[x], cmds[x])
      BY DEF Grows
    <3> QED
      BY <1>1, <2>1, <3>2, <3>3, <3>4
  <2>2. CASE cmds' = cmds
    BY <1>1, <2>2 DEF Grows
  <2> QED
    BY <2>1, <2>2
<1>3. ASSUME NEW q \in Profiles, NEW interactive \in BOOLEAN,
             prof[q].proc # 0, prof[q].proc = pid => q = p,
             Reported(svc[prof[q].proc], events[prof[q].proc], cmds[prof[q].proc],
                      prof[q].state, interactive)
      PROVE  Reported(svc[prof[q].proc], events'[prof[q].proc], cmds'[prof[q].proc],
                      prof'[q].state, interactive)
  <2>1. prof[q].proc \in Pids
    BY <1>1, <1>3 DEF TypeOK, Runtimes, Pids
  <2>2. Grows(cmds[prof[q].proc], cmds'[prof[q].proc])
    BY <1>2, <2>1
  <2>3. prof'[q].state = "connected" => prof[q].state = "connected"
    OBVIOUS
  <2> QED
    BY <1>3, <2>2, <2>3, GrowsReported
<1>4. QueueInv'
  <2>1. \A q \in Profiles : KeepsReport(q, p, pid)
    BY <1>3 DEF KeepsReport
  <2> QED
    BY <1>1, <2>1, QueueKept
<1> QED
  BY <1>1, <1>2, <1>4

(* The TUI reads an event and shows what it says.                             *)
LEMMA TakeKeeps ==
    ASSUME SessionInv, NEW p \in Profiles, NEW pid \in Pids, pid = prof[p].proc,
           events[pid] # <<>>, Take(pid), svc' = svc, kind' = kind, cmds' = cmds,
           Head(events[pid]) \notin {"failed", "disconnected"},
           \A q \in Profiles : prof'[q].proc = prof[q].proc,
           \A q \in Profiles \ {p} : prof'[q].state = prof[q].state,
           prof'[p].state = "connected" =>
              \/ Head(events[pid]) = "connected"
              \/ Head(events[pid]) = "routes" /\ prof[p].state = "connected"
    PROVE  /\ QueueInv' /\ cmds' \in [Pids -> Seq(Commands)]
           /\ events' \in [Pids -> Seq(EventKinds)]
           /\ \A x \in Pids : Len(events'[x]) <= QueueCapacity
<1>1. /\ TypeOK /\ OwnersInv /\ QueueInv
      /\ cmds \in [Pids -> Seq(Commands)] /\ events \in [Pids -> Seq(EventKinds)]
      /\ \A x \in Pids : Len(events[x]) <= QueueCapacity
  BY DEF SessionInv, TypeOK
<1>2. PICK t \in Seq(EventKinds) : t = Tail(events[pid])
  BY <1>1, TakeIs
<1>3. events' = [events EXCEPT ![pid] = t]
  BY <1>2 DEF Take
<1>4. Len(t) <= QueueCapacity
  <2>1. Len(t) = Len(events[pid]) - 1 /\ Len(events[pid]) \in Nat
    BY <1>1, <1>2, TakeIs
  <2> QED
    BY <1>1, <2>1, BoundsAssumption
<1>5. /\ events' \in [Pids -> Seq(EventKinds)] /\ events'[pid] = t
      /\ \A x \in Pids : Len(events'[x]) <= QueueCapacity
      /\ \A x \in Pids \ {pid} : events'[x] = events[x]
  BY <1>1, <1>3, <1>4
<1>6. ASSUME NEW q \in Profiles, NEW interactive \in BOOLEAN,
             prof[q].proc # 0, prof[q].proc = pid => q = p,
             Reported(svc[prof[q].proc], events[prof[q].proc], cmds[prof[q].proc],
                      prof[q].state, interactive)
      PROVE  Reported(svc[prof[q].proc], events'[prof[q].proc], cmds'[prof[q].proc],
                      prof'[q].state, interactive)
  <2>1. prof[q].proc \in Pids
    BY <1>1, <1>6 DEF TypeOK, Runtimes, Pids
  <2>2. CASE prof[q].proc = pid
    <3>1. q = p
      BY <1>6, <2>2
    <3>2. Reported(svc[pid], events[pid], cmds[pid], prof[p].state, interactive)
      BY <1>6, <2>2, <3>1
    <3>3. events[pid] \in Seq(EventKinds)
      BY <1>1
    <3>4. Reported(svc[pid], t, cmds[pid], prof'[p].state, interactive)
      BY <1>2, <3>2, <3>3, TakeReported
    <3> QED
      BY <1>5, <2>2, <3>1, <3>4
  <2>3. CASE prof[q].proc # pid
    <3>1. q # p
      BY <2>3
    <3> QED
      BY <1>5, <1>6, <2>1, <2>3, <3>1
  <2> QED
    BY <2>2, <2>3
<1>7. QueueInv'
  <2>1. \A q \in Profiles : KeepsReport(q, p, pid)
    BY <1>6 DEF KeepsReport
  <2> QED
    BY <1>1, <2>1, QueueKept
<1> QED
  BY <1>1, <1>5, <1>7

(* A pid that is alive or owned is a process.                                 *)
LEMMA PidIs ==
    ASSUME TypeOK, NEW p \in Profiles, prof[p].proc # 0
    PROVE  prof[p].proc \in Pids
BY DEF TypeOK, Runtimes, Pids

LEMMA FaultIs ==
    ASSUME TypeOK, Fault \/ faults' = faults
    PROVE  faults' \in 0..MaxFaults
BY BoundsAssumption DEF TypeOK, Fault

LEMMA RuntimeIs ==
    ASSUME TypeOK, NEW p \in Profiles
    PROVE  /\ prof[p] \in Runtimes /\ prof[p].proc \in 0..MaxPid
           /\ prof[p].background \in 0..MaxPid /\ prof[p].state \in States
           /\ \A state \in States : \A pid \in 0..MaxPid : \A b \in 0..MaxPid :
                 \A f \in BOOLEAN, r \in BOOLEAN :
                    [state |-> state, proc |-> pid, background |-> b, failed |-> f,
                     routes |-> r] \in Runtimes
BY DEF TypeOK, Runtimes

ConnectingRuntime(p, pid) ==
    [prof[p] EXCEPT !.state = "connecting", !.proc = pid, !.background = 0, !.failed = FALSE]

LEMMA ConnectingIs ==
    ASSUME TypeOK, NEW p \in Profiles, NEW pid \in 0..MaxPid, NEW r,
           r = ConnectingRuntime(p, pid)
    PROVE  /\ r \in Runtimes /\ r.proc = pid /\ r.background = 0
           /\ r.state = "connecting" /\ ~r.failed /\ r.routes = prof[p].routes
<1>1. PICK b \in 0..MaxPid : b = 0
  BY BoundsAssumption
<1>2. PICK no \in BOOLEAN : no = FALSE
  OBVIOUS
<1>3. PICK st \in States : st = "connecting"
  BY DEF States
<1>4. PICK old \in Runtimes : old = prof[p]
  BY RuntimeIs
<1>5. r = [old EXCEPT !.state = st, !.proc = pid, !.background = b, !.failed = no]
  BY <1>1, <1>2, <1>3, <1>4 DEF ConnectingRuntime
<1>6. /\ r \in Runtimes /\ r.proc = pid /\ r.background = b
      /\ r.state = st /\ r.failed = no /\ r.routes = old.routes
  BY ZenonT(40), <1>5 DEF Runtimes
<1> QED
  BY <1>1, <1>2, <1>3, <1>4, <1>6

LEMMA ConnectReusesKeeps ==
    ASSUME SessionInv, NEW p \in Profiles, ConnectReuses(p)
    PROVE  SessionInv'
<1> DEFINE pid == prof[p].proc
<1>1. TypeOK /\ OwnersInv
  BY DEF SessionInv
<1>2. /\ tui /\ tui' /\ svc' = svc /\ kind' = kind /\ saved' = RuntimeStates(prof)
      /\ modal' = modal /\ bypass' = bypass /\ stale' = stale /\ events' = events
      /\ faults' = faults /\ Alive(pid) /\ Send(pid, "connect")
  BY DEF ConnectReuses, Connectable
<1>3. pid # 0 /\ pid \in Pids /\ 0 \in 0..MaxPid /\ pid \in 0..MaxPid
  BY <1>1, <1>2, PidIs, RuntimeIs, BoundsAssumption DEF Alive
<1>4. PICK r \in Runtimes : /\ prof' = [prof EXCEPT ![p] = r] /\ r.proc = pid
                            /\ r.background = 0 /\ r.state = "connecting"
                            /\ ~r.failed /\ r.routes = prof[p].routes
  <2>1. PICK r : r = ConnectingRuntime(p, pid)
    OBVIOUS
  <2>2. prof' = [prof EXCEPT ![p] = r]
    BY <2>1 DEF ConnectReuses, Connecting, ConnectingRuntime
  <2>3. /\ r \in Runtimes /\ r.proc = pid /\ r.background = 0
        /\ r.state = "connecting" /\ ~r.failed /\ r.routes = prof[p].routes
    BY <1>1, <1>3, <2>1, ConnectingIs
  <2> QED
    BY <2>2, <2>3
<1>5. /\ prof' \in [Profiles -> Runtimes] /\ prof'[p] = r
      /\ \A q \in Profiles : Tends(q) /\ prof'[q].proc = prof[q].proc
      /\ \A q \in Profiles \ {p} : prof'[q] = prof[q]
  BY <1>1, <1>3, <1>4, OneTends
<1>6. "connect" \in Commands
  BY DEF Commands
<1>7. /\ QueueInv' /\ cmds' \in [Pids -> Seq(Commands)]
      /\ events' \in [Pids -> Seq(EventKinds)]
      /\ \A x \in Pids : Len(events'[x]) <= QueueCapacity
  BY <1>2, <1>3, <1>4, <1>5, <1>6, SendKeeps
<1>8. BypassInv'
  BY <1>1, <1>2, <1>5, BypassKept
<1>9. modal' \in Profiles \cup {"none"} /\ stale' \in BOOLEAN /\ faults' \in 0..MaxFaults
  BY <1>1, <1>2 DEF TypeOK
<1> QED
  BY <1>2, <1>5, <1>7, <1>8, <1>9, TendsStep

LEMMA ConnectFailsKeeps ==
    ASSUME SessionInv, NEW p \in Profiles, ConnectFails(p)
    PROVE  SessionInv'
<1> DEFINE pid == prof[p].proc
<1>1. TypeOK /\ OwnersInv
  BY DEF SessionInv
<1>2. /\ tui /\ tui' /\ svc' = svc /\ kind' = kind /\ saved' = saved /\ cmds' = cmds
      /\ modal' = modal /\ bypass' = bypass /\ stale' = stale /\ events' = events
      /\ Fault \/ faults' = faults
      /\ prof[p].state \in {"disconnected", "error"}
  BY DEF ConnectFails, Connectable
<1>3. PICK r \in Runtimes : /\ prof' = [prof EXCEPT ![p] = r] /\ r.proc = pid
                            /\ r.background = prof[p].background /\ r.state = "error"
                            /\ r.failed = prof[p].failed /\ r.routes = prof[p].routes
  <2> DEFINE r == [prof[p] EXCEPT !.state = "error"]
  <2>1. /\ r \in Runtimes /\ r.proc = pid /\ r.background = prof[p].background
        /\ r.state = "error" /\ r.failed = prof[p].failed /\ r.routes = prof[p].routes
    BY <1>1, RuntimeIs DEF Runtimes, States
  <2>2. prof' = [prof EXCEPT ![p] = r]
    BY DEF ConnectFails
  <2> HIDE DEF r
  <2> QED
    BY <2>1, <2>2
<1>4. /\ prof[p].proc # 0 => prof[p].background \in {0, prof[p].proc} /\ ~prof[p].failed
      /\ prof[p].proc = 0 => ~Alive(prof[p].background)
  BY <1>1, <1>2 DEF OwnersInv, RuntimeInv
<1>5. /\ prof' \in [Profiles -> Runtimes] /\ prof'[p] = r
      /\ \A q \in Profiles : Tends(q) /\ prof'[q].proc = prof[q].proc
      /\ \A q \in Profiles \ {p} : prof'[q] = prof[q]
  BY <1>1, <1>3, <1>4, OneTends
<1>6. "connect" \in Commands
  BY DEF Commands
<1>7. /\ QueueInv' /\ cmds' \in [Pids -> Seq(Commands)]
      /\ events' \in [Pids -> Seq(EventKinds)]
      /\ \A x \in Pids : Len(events'[x]) <= QueueCapacity
  BY <1>2, <1>3, <1>5, <1>6, SendKeeps
<1>8. BypassInv'
  BY <1>1, <1>2, <1>5, BypassKept
<1>9. modal' \in Profiles \cup {"none"} /\ stale' \in BOOLEAN /\ faults' \in 0..MaxFaults
  BY <1>1, <1>2, FaultIs DEF TypeOK
<1> QED
  BY <1>2, <1>5, <1>7, <1>8, <1>9, TendsStep

LEMMA DisconnectKeeps ==
    ASSUME SessionInv, NEW p \in Profiles, Disconnect(p)
    PROVE  SessionInv'
<1> DEFINE pid == prof[p].proc
<1>1. TypeOK /\ OwnersInv
  BY DEF SessionInv
<1>2. /\ tui /\ tui' /\ svc' = svc /\ kind' = kind /\ saved' = saved
      /\ modal' = modal /\ bypass' = bypass /\ stale' = stale /\ events' = events
      /\ faults' = faults
      /\ pid = 0 => prof[p].background = 0
  BY DEF Disconnect
<1>3. (pid \in Pids /\ Send(pid, "disconnect")) \/ cmds' = cmds
  <2>1. CASE Alive(pid)
    BY <1>1, <2>1, PidIs DEF Disconnect, Alive
  <2>2. CASE ~Alive(pid)
    BY <2>2 DEF Disconnect
  <2> QED
    BY <2>1, <2>2
<1>4. PICK r \in Runtimes : /\ prof' = [prof EXCEPT ![p] = r] /\ r.proc = pid
                            /\ r.background = prof[p].background /\ r.state # "connected"
                            /\ r.failed = prof[p].failed /\ r.routes = prof[p].routes
  <2>1. PICK state \in States \ {"connected"} : prof' = [prof EXCEPT ![p].state = state]
    BY DEF Disconnect, States
  <2> DEFINE r == [prof[p] EXCEPT !.state = state]
  <2>2. /\ r \in Runtimes /\ r.proc = pid /\ r.background = prof[p].background
        /\ r.state = state /\ r.failed = prof[p].failed /\ r.routes = prof[p].routes
    BY <1>1, RuntimeIs DEF Runtimes
  <2>3. prof' = [prof EXCEPT ![p] = r]
    BY <2>1
  <2> HIDE DEF r
  <2> QED
    BY <2>2, <2>3
<1>5. /\ prof[p].proc # 0 => prof[p].background \in {0, prof[p].proc} /\ ~prof[p].failed
      /\ prof[p].proc = 0 => ~Alive(prof[p].background)
  BY <1>1, <1>2 DEF OwnersInv, RuntimeInv, Alive
<1>6. /\ prof' \in [Profiles -> Runtimes] /\ prof'[p] = r
      /\ \A q \in Profiles : Tends(q) /\ prof'[q].proc = prof[q].proc
      /\ \A q \in Profiles \ {p} : prof'[q] = prof[q]
  BY <1>1, <1>4, <1>5, OneTends
<1>7. "disconnect" \in Commands
  BY DEF Commands
<1>8. /\ QueueInv' /\ cmds' \in [Pids -> Seq(Commands)]
      /\ events' \in [Pids -> Seq(EventKinds)]
      /\ \A x \in Pids : Len(events'[x]) <= QueueCapacity
  BY <1>2, <1>3, <1>4, <1>6, <1>7, SendKeeps
<1>9. BypassInv'
  BY <1>1, <1>2, <1>6, BypassKept
<1>10. modal' \in Profiles \cup {"none"} /\ stale' \in BOOLEAN /\ faults' \in 0..MaxFaults
  BY <1>1, <1>2 DEF TypeOK
<1> QED
  BY <1>2, <1>6, <1>8, <1>9, <1>10, TendsStep

(* An answer to the dialog goes to the service that asked.                    *)
LEMMA AuthKeeps ==
    ASSUME SessionInv, SubmitAuth \/ CancelAuth
    PROVE  SessionInv'
<1>1. TypeOK /\ OwnersInv
  BY DEF SessionInv
<1>2. /\ tui /\ tui' /\ svc' = svc /\ kind' = kind /\ saved' = saved /\ prof' = prof
      /\ modal # "none" /\ modal' = "none" /\ bypass' = bypass /\ stale' = stale
      /\ events' = events /\ faults' = faults
  BY DEF SubmitAuth, CancelAuth
<1>3. PICK p \in Profiles : p = modal
  BY <1>1, <1>2 DEF TypeOK
<1> DEFINE pid == prof[p].proc
<1>4. PICK cmd \in Commands : (pid \in Pids /\ Send(pid, cmd)) \/ cmds' = cmds
  <2>1. "reply" \in Commands /\ "cancel" \in Commands
    BY DEF Commands
  <2>2. pid # 0 => pid \in Pids
    BY <1>1, PidIs
  <2>3. CASE SubmitAuth
    BY <1>3, <2>1, <2>2, <2>3 DEF SubmitAuth, Alive
  <2>4. CASE CancelAuth
    BY <1>3, <2>1, <2>2, <2>4 DEF CancelAuth, Alive
  <2> QED
    BY <2>3, <2>4
<1>5. prof' \in [Profiles -> Runtimes] /\ \A q \in Profiles : Tends(q)
  BY <1>1, <1>2 DEF Tends, TypeOK, OwnersInv, RuntimeInv
<1>6. /\ QueueInv' /\ cmds' \in [Pids -> Seq(Commands)]
      /\ events' \in [Pids -> Seq(EventKinds)]
      /\ \A x \in Pids : Len(events'[x]) <= QueueCapacity
  BY <1>2, <1>4, SendKeeps
<1>7. BypassInv'
  BY <1>1, <1>2, BypassKept
<1>8. modal' \in Profiles \cup {"none"} /\ stale' \in BOOLEAN /\ faults' \in 0..MaxFaults
  BY <1>1, <1>2 DEF TypeOK
<1> QED
  BY <1>2, <1>5, <1>6, <1>7, <1>8, TendsStep

(* B with a dead service among the others: some are told to detach, and the   *)
(* TUI stays.                                                                 *)
LEMMA LeaveFailsKeeps ==
    ASSUME SessionInv, LeaveFails
    PROVE  SessionInv'
<1>1. TypeOK /\ OwnersInv /\ QueueInv
  BY DEF SessionInv
<1>2. /\ tui /\ tui' /\ svc' = svc /\ kind' = kind /\ saved' = saved /\ modal' = modal
      /\ bypass' = bypass /\ stale' = stale /\ events' = events /\ faults' = faults
  BY DEF LeaveFails
<1>3. PICK ps \in SUBSET {p \in Profiles : Detachable(p) /\ Alive(prof[p].proc)} : Detach(ps)
  BY DEF LeaveFails
<1>4. ASSUME NEW q \in Profiles
      PROVE  /\ prof'[q] \in Runtimes /\ Tends(q) /\ prof'[q].proc = prof[q].proc
             /\ q \notin ps => prof'[q].state = prof[q].state
  <2>1. CASE q \in ps
    <3>1. PICK pid \in 0..MaxPid : pid = prof[q].proc
      BY <1>1, RuntimeIs
    <3>2. PICK r : r = [prof[q] EXCEPT !.background = pid, !.state = "connected"]
      OBVIOUS
    <3>3. /\ r \in Runtimes /\ r.proc = pid /\ r.background = pid
          /\ r.failed = prof[q].failed /\ r.routes = prof[q].routes
      <4>1. PICK old \in Runtimes : old = prof[q]
        BY <1>1, RuntimeIs
      <4>2. PICK st \in States : st = "connected"
        BY DEF States
      <4>3. r = [old EXCEPT !.background = pid, !.state = st] /\ old.proc = pid
        BY <3>1, <3>2, <4>1, <4>2
      <4>4. /\ r \in Runtimes /\ r.proc = old.proc /\ r.background = pid
            /\ r.failed = old.failed /\ r.routes = old.routes
        BY ZenonT(40), <4>3 DEF Runtimes
      <4> QED
        BY <4>1, <4>3, <4>4
    <3>4. prof'[q] = r
      BY <1>3, <2>1, <3>1, <3>2 DEF Detach
    <3>5. pid # 0 /\ ~prof[q].failed
      BY <1>1, <1>3, <2>1, <3>1 DEF Detachable, OwnersInv, RuntimeInv
    <3> QED
      BY <2>1, <3>1, <3>3, <3>4, <3>5 DEF Tends
  <2>2. CASE q \notin ps
    <3>1. prof'[q] = prof[q]
      BY <1>3, <2>2 DEF Detach
    <3> QED
      BY <1>1, <3>1, RuntimeIs DEF Tends, OwnersInv, RuntimeInv
  <2> QED
    BY <2>1, <2>2
<1>5. prof' \in [Profiles -> Runtimes]
  <2>1. prof' = [p \in Profiles |-> prof'[p]]
    BY <1>3 DEF Detach
  <2> QED
    BY <1>4, <2>1
<1>6. ASSUME NEW x \in Pids
      PROVE  /\ cmds'[x] \in Seq(Commands) /\ Grows(cmds[x], cmds'[x])
             /\ (\E p \in ps : prof[p].proc = x) => Has(cmds'[x], "detach")
             /\ ~ (\E p \in ps : prof[p].proc = x) => cmds'[x] = cmds[x]
  <2>1. cmds[x] \in Seq(Commands) /\ "detach" \in Commands
    BY <1>1 DEF TypeOK, Commands
  <2>2. CASE \E p \in ps : prof[p].proc = x
    <3>1. cmds'[x] = Append(cmds[x], "detach")
      BY <1>3, <2>2 DEF Detach
    <3> QED
      BY <2>1, <2>2, <3>1, AppendIs DEF Grows
  <2>3. CASE ~ (\E p \in ps : prof[p].proc = x)
    <3>1. cmds'[x] = cmds[x]
      BY <1>3, <2>3 DEF Detach
    <3> QED
      BY <2>1, <2>3, <3>1 DEF Grows
  <2> QED
    BY <2>2, <2>3
<1>7. cmds' \in [Pids -> Seq(Commands)]
  <2>1. cmds' = [x \in Pids |-> cmds'[x]]
    BY <1>3 DEF Detach
  <2> QED
    BY <1>6, <2>1
<1>8. QueueInv'
  <2> SUFFICES ASSUME NEW q \in Profiles, prof[q].proc # 0
               PROVE  Reported(svc[prof[q].proc], events[prof[q].proc], cmds'[prof[q].proc],
                               prof'[q].state, q \in Interactive)
    BY <1>2, <1>4 DEF QueueInv, Interactive
  <2>1. PICK x \in Pids : x = prof[q].proc
    BY <1>1, PidIs
  <2>2. Reported(svc[x], events[x], cmds[x], prof[q].state, q \in Interactive)
    BY <1>1, <2>1 DEF QueueInv
  <2>3. CASE q \in ps
    BY <1>6, <2>1, <2>2, <2>3, GrowsReported
  <2>4. CASE q \notin ps
    BY <1>4, <1>6, <2>1, <2>2, <2>4, GrowsReported
  <2> QED
    BY <2>3, <2>4
<1>9. BypassInv'
  BY <1>1, <1>2, <1>4, BypassKept
<1>10. /\ modal' \in Profiles \cup {"none"} /\ stale' \in BOOLEAN /\ faults' \in 0..MaxFaults
       /\ events' \in [Pids -> Seq(EventKinds)]
       /\ \A x \in Pids : Len(events'[x]) <= QueueCapacity
  BY <1>1, <1>2 DEF TypeOK
<1> QED
  BY <1>2, <1>4, <1>5, <1>7, <1>8, <1>9, <1>10, TendsStep

(* What it means to have an event to read.                                    *)
LEMMA NextIs ==
    ASSUME SessionInv, NEW p \in Profiles, NEW kinds, Next1(p, kinds)
    PROVE  /\ TypeOK /\ OwnersInv /\ tui
           /\ prof[p].proc # 0 /\ prof[p].proc \in Pids
           /\ events[prof[p].proc] # <<>> /\ Head(events[prof[p].proc]) \in kinds
           /\ ~prof[p].failed /\ prof[p].background \in {0, prof[p].proc}
BY PidIs DEF SessionInv, Next1, OwnersInv, RuntimeInv

LEMMA PollStateKeeps ==
    ASSUME SessionInv, NEW p \in Profiles, PollState(p)
    PROVE  SessionInv'
<1> DEFINE pid == prof[p].proc
           state == Head(events[pid])
<1>1. /\ TypeOK /\ OwnersInv /\ tui /\ pid # 0 /\ pid \in Pids
      /\ events[pid] # <<>> /\ state \in States \ {"disconnected"}
      /\ ~prof[p].failed /\ prof[p].background \in {0, pid}
  BY NextIs DEF PollState
<1>2. /\ tui' /\ svc' = svc /\ kind' = kind /\ saved' = saved /\ cmds' = cmds
      /\ modal' = modal /\ bypass' = bypass /\ stale' = stale
      /\ faults' = faults /\ Take(pid)
  BY <1>1 DEF PollState
<1>3. PICK r \in Runtimes : /\ prof' = [prof EXCEPT ![p] = r] /\ r.proc = pid
                            /\ r.background = prof[p].background /\ r.state = state
                            /\ ~r.failed /\ r.routes = prof[p].routes
  <2>1. PICK st \in States : st = state
    BY <1>1
  <2> DEFINE r == [prof[p] EXCEPT !.state = st]
  <2>2. /\ r \in Runtimes /\ r.proc = pid /\ r.background = prof[p].background
        /\ r.state = st /\ ~r.failed /\ r.routes = prof[p].routes
    BY <1>1, RuntimeIs DEF Runtimes
  <2>3. prof' = [prof EXCEPT ![p] = r]
    BY <1>1, <2>1 DEF PollState, Ignored
  <2> HIDE DEF r
  <2> QED
    BY <2>1, <2>2, <2>3
<1>4. /\ prof' \in [Profiles -> Runtimes] /\ prof'[p] = r
      /\ \A q \in Profiles : Tends(q) /\ prof'[q].proc = prof[q].proc
      /\ \A q \in Profiles \ {p} : prof'[q] = prof[q]
  BY <1>1, <1>3, OneTends
<1>5. state \notin {"failed", "disconnected"}
  BY <1>1 DEF States
<1>6. /\ QueueInv' /\ cmds' \in [Pids -> Seq(Commands)]
      /\ events' \in [Pids -> Seq(EventKinds)]
      /\ \A x \in Pids : Len(events'[x]) <= QueueCapacity
  BY <1>1, <1>2, <1>3, <1>4, <1>5, TakeKeeps
<1>7. BypassInv'
  BY <1>1, <1>2, <1>4, BypassKept
<1>8. modal' \in Profiles \cup {"none"} /\ stale' \in BOOLEAN /\ faults' \in 0..MaxFaults
  BY <1>1, <1>2 DEF TypeOK
<1> QED
  BY <1>1, <1>2, <1>4, <1>6, <1>7, <1>8, TendsStep

LEMMA PollChallengeKeeps ==
    ASSUME SessionInv, NEW p \in Profiles, PollChallenge(p)
    PROVE  SessionInv'
<1> DEFINE pid == prof[p].proc
           head == Head(events[pid])
<1>1. /\ TypeOK /\ OwnersInv /\ tui /\ pid # 0 /\ pid \in Pids
      /\ events[pid] # <<>> /\ head = "challenge"
      /\ ~prof[p].failed /\ prof[p].background \in {0, pid}
  BY NextIs DEF PollChallenge
<1>2. /\ tui' /\ svc' = svc /\ kind' = kind /\ saved' = saved /\ cmds' = cmds
      /\ modal' = p /\ bypass' = bypass /\ stale' = stale
      /\ faults' = faults /\ Take(pid)
  BY <1>1 DEF PollChallenge
<1>3. PICK r \in Runtimes : /\ prof' = [prof EXCEPT ![p] = r] /\ r.proc = pid
                            /\ r.background = prof[p].background /\ r.state = "connecting"
                            /\ ~r.failed /\ r.routes = prof[p].routes
  <2> DEFINE r == [prof[p] EXCEPT !.state = "connecting"]
  <2>1. /\ r \in Runtimes /\ r.proc = pid /\ r.background = prof[p].background
        /\ r.state = "connecting" /\ ~r.failed /\ r.routes = prof[p].routes
    BY <1>1, RuntimeIs DEF Runtimes, States
  <2>2. prof' = [prof EXCEPT ![p] = r]
    BY DEF PollChallenge
  <2> HIDE DEF r
  <2> QED
    BY <2>1, <2>2
<1>4. /\ prof' \in [Profiles -> Runtimes] /\ prof'[p] = r
      /\ \A q \in Profiles : Tends(q) /\ prof'[q].proc = prof[q].proc
      /\ \A q \in Profiles \ {p} : prof'[q] = prof[q]
  BY <1>1, <1>3, OneTends
<1>5. /\ QueueInv' /\ cmds' \in [Pids -> Seq(Commands)]
      /\ events' \in [Pids -> Seq(EventKinds)]
      /\ \A x \in Pids : Len(events'[x]) <= QueueCapacity
  BY <1>1, <1>2, <1>3, <1>4, TakeKeeps
<1>6. BypassInv'
  BY <1>1, <1>2, <1>4, BypassKept
<1>7. modal' \in Profiles \cup {"none"} /\ stale' \in BOOLEAN /\ faults' \in 0..MaxFaults
  BY <1>1, <1>2 DEF TypeOK
<1> QED
  BY <1>1, <1>2, <1>4, <1>5, <1>6, <1>7, TendsStep

LEMMA PollRoutesKeeps ==
    ASSUME SessionInv, NEW p \in Profiles, PollRoutes(p) \/ PollBridgeRoutes(p)
    PROVE  SessionInv'
<1> DEFINE pid == prof[p].proc
           head == Head(events[pid])
<1>1. /\ TypeOK /\ OwnersInv /\ tui /\ pid # 0 /\ pid \in Pids
      /\ events[pid] # <<>> /\ head = "routes"
      /\ ~prof[p].failed /\ prof[p].background \in {0, pid}
  BY NextIs DEF PollRoutes, PollBridgeRoutes
<1>2. /\ tui' /\ svc' = svc /\ kind' = kind /\ saved' = saved /\ cmds' = cmds
      /\ modal' = modal /\ Take(pid)
  BY <1>1 DEF PollRoutes, PollBridgeRoutes
<1>3. PICK r \in Runtimes : /\ prof' = [prof EXCEPT ![p] = r] /\ r.proc = pid
                            /\ r.background = prof[p].background
                            /\ r.state \in {prof[p].state, "error"}
                            /\ ~r.failed /\ r.routes
  <2>1. PICK st \in {prof[p].state, "error"} :
               prof' = [prof EXCEPT ![p].routes = TRUE, ![p].state = st]
    <3>1. CASE prof' = [prof EXCEPT ![p].routes = TRUE]
      <4>1. prof[p].state \in {prof[p].state, "error"}
        OBVIOUS
      <4>2. prof[p] \in Runtimes /\ prof \in [Profiles -> Runtimes]
        BY <1>1 DEF TypeOK
      <4>3. [prof[p] EXCEPT !.routes = TRUE]
              = [prof[p] EXCEPT !.routes = TRUE, !.state = prof[p].state]
        BY <4>2 DEF Runtimes
      <4>4. [prof EXCEPT ![p].routes = TRUE]
              = [prof EXCEPT ![p].routes = TRUE, ![p].state = prof[p].state]
        BY <4>2, <4>3
      <4> QED
        BY <3>1, <4>1, <4>4
    <3>2. CASE prof' = [prof EXCEPT ![p].routes = TRUE, ![p].state = "error"]
      BY <3>2
    <3> QED
      BY <3>1, <3>2 DEF PollRoutes, PollBridgeRoutes
  <2>2. PICK rr : rr = [prof[p] EXCEPT !.routes = TRUE, !.state = st]
    OBVIOUS
  <2>3. /\ rr \in Runtimes /\ rr.proc = pid /\ rr.background = prof[p].background
        /\ rr.state = st /\ ~rr.failed /\ rr.routes
    <3>1. st \in States /\ prof[p] \in Runtimes
      BY <1>1, RuntimeIs DEF States
    <3> QED
      BY <1>1, <2>2, <3>1 DEF Runtimes
  <2>4. prof' = [prof EXCEPT ![p] = rr]
    <3>1. prof \in [Profiles -> Runtimes]
      BY <1>1 DEF TypeOK
    <3> QED
      BY <2>1, <2>2, <3>1
  <2> QED
    BY <2>1, <2>3, <2>4
<1>4. /\ prof' \in [Profiles -> Runtimes] /\ prof'[p] = r
      /\ \A q \in Profiles : Tends(q) /\ prof'[q].proc = prof[q].proc
      /\ \A q \in Profiles \ {p} : prof'[q] = prof[q]
  BY <1>1, <1>3, OneTends
<1>5. /\ QueueInv' /\ cmds' \in [Pids -> Seq(Commands)]
      /\ events' \in [Pids -> Seq(EventKinds)]
      /\ \A x \in Pids : Len(events'[x]) <= QueueCapacity
  BY <1>1, <1>2, <1>3, <1>4, TakeKeeps
<1>6. BypassInv' /\ stale' \in BOOLEAN /\ faults' \in 0..MaxFaults
  <2>1. CASE PollRoutes(p)
    <3>1. RefreshBypass(prof')
      BY <2>1 DEF PollRoutes
    <3>2. \A q \in Interactive : prof'[q].routes => prof'[q].proc # 0
      BY <1>1, <1>3, <1>4 DEF OwnersInv, RuntimeInv, Interactive
    <3>3. BypassInv'
      BY <1>1, <1>2, <3>1, <3>2, BypassRefreshed
    <3>4. stale' \in BOOLEAN /\ (Fault \/ faults' = faults)
      BY <3>1 DEF RefreshBypass
    <3> QED
      BY <1>1, <3>3, <3>4, FaultIs
  <2>2. CASE PollBridgeRoutes(p)
    <3>1. bypass' = bypass /\ stale' = stale /\ (Fault \/ faults' = faults)
      BY <2>2 DEF PollBridgeRoutes
    <3> QED
      BY <1>1, <1>2, <1>4, <3>1, BypassKept, FaultIs DEF TypeOK
  <2> QED
    BY <2>1, <2>2
<1>7. modal' \in Profiles \cup {"none"}
  BY <1>1, <1>2 DEF TypeOK
<1> QED
  BY <1>1, <1>2, <1>4, <1>5, <1>6, <1>7, TendsStep

-----------------------------------------------------------------------------
(* Sessions begin and end.                                                    *)

RuntimeOf(p) ==
    /\ prof[p].proc # 0 =>
         /\ Alive(prof[p].proc) => svc[prof[p].proc].profile = p
         /\ prof[p].background \in {0, prof[p].proc}
         /\ ~prof[p].failed
    /\ prof[p].proc = 0 /\ Alive(prof[p].background) =>
         /\ prof[p].state = "connected"
         /\ svc[prof[p].background].profile = p
    /\ prof[p].routes /\ p \in Interactive => prof[p].proc # 0

(* The service of a profile is killed and forgotten.                          *)
LEMMA KilledKeeps ==
    ASSUME SessionInv, NEW p \in Profiles, NEW pid \in Pids, pid = prof[p].proc,
           NEW r \in Runtimes, r.proc = 0, r.background = prof[p].background,
           r.routes => p \notin Interactive,
           prof' = [prof EXCEPT ![p] = r],
           tui, tui', kind' = kind, saved' = saved, Killed(pid),
           cmds' = [cmds EXCEPT ![pid] = <<>>], events' = [events EXCEPT ![pid] = <<>>],
           modal' \in Profiles \cup {"none"}, stale' \in BOOLEAN, faults' \in 0..MaxFaults,
           BypassInv'
    PROVE  SessionInv'
<1>1. TypeOK /\ OwnersInv /\ QueueInv
  BY DEF SessionInv
<1>2. /\ svc \in [Pids -> Services] /\ prof \in [Profiles -> Runtimes]
      /\ cmds \in [Pids -> Seq(Commands)] /\ events \in [Pids -> Seq(EventKinds)]
  BY <1>1 DEF TypeOK
<1>3. PICK s \in Services : s.main = "exited" /\ svc' = [svc EXCEPT ![pid] = s]
  BY <1>2, DeadIs DEF Killed
<1>4. /\ prof' \in [Profiles -> Runtimes] /\ prof'[p] = r
      /\ \A q \in Profiles \ {p} : prof'[q] = prof[q]
  BY <1>2
<1>5. /\ svc' \in [Pids -> Services] /\ svc'[pid] = s
      /\ \A x \in Pids \ {pid} : svc'[x] = svc[x]
  BY <1>2, <1>3
<1>6. /\ cmds' \in [Pids -> Seq(Commands)] /\ events' \in [Pids -> Seq(EventKinds)]
      /\ \A x \in Pids \ {pid} : cmds'[x] = cmds[x] /\ events'[x] = events[x]
      /\ events'[pid] = <<>>
  BY <1>2
<1>7. \A x \in 0..MaxPid : Alive(x)' => Alive(x) /\ x \in Pids \ {pid} /\ svc'[x] = svc[x]
  <2> SUFFICES ASSUME NEW x \in 0..MaxPid, Alive(x)'
               PROVE  Alive(x) /\ x \in Pids \ {pid} /\ svc'[x] = svc[x]
    OBVIOUS
  <2>1. x \in Pids /\ x # pid
    BY <1>3, <1>5, BoundsAssumption DEF Alive, Pids
  <2> QED
    BY <1>5, <2>1 DEF Alive
<1>8. Pids \subseteq 0..MaxPid
  BY BoundsAssumption DEF Pids
<1>9. TypeOK'
  <2>1. \A x \in Pids : Len(events'[x]) <= QueueCapacity
    <3>1. Len(<<>>) = 0
      OBVIOUS
    <3> QED
      BY <1>1, <1>6, <3>1, BoundsAssumption DEF TypeOK
  <2>2. bypass' \subseteq Profiles
    BY DEF BypassInv, Interactive
  <2> QED
    BY <1>1, <1>4, <1>5, <1>6, <2>1, <2>2 DEF TypeOK
<1>10. SavedInv'
  <2>1. ASSUME NEW x \in Pids, Alive(x)'
        PROVE  saved[svc'[x].profile] = x
    BY <1>1, <1>7, <1>8, <2>1 DEF OwnersInv, SavedInv
  <2>2. ASSUME NEW q \in Profiles, Alive(saved[q])'
        PROVE  svc'[saved[q]].profile = q
    <3>1. saved[q] \in 0..MaxPid
      BY <1>1 DEF TypeOK
    <3> QED
      BY <1>1, <1>7, <2>2, <3>1 DEF OwnersInv, SavedInv
  <2> QED
    BY <2>1, <2>2 DEF SavedInv
<1>11. ClaimInv'
  <2> SUFFICES ASSUME NEW x \in Pids, Alive(x)'
               PROVE  Known(svc[x].profile, x)' /\ svc'[x].profile = svc[x].profile
    BY DEF ClaimInv, Known
  <2>1. Alive(x) /\ x # pid /\ svc'[x] = svc[x]
    BY <1>7, <1>8
  <2>2. PICK q \in Profiles : q = svc[x].profile
    BY <1>2 DEF Services
  <2>3. Known(q, x)
    BY <1>1, <2>1, <2>2 DEF OwnersInv, ClaimInv
  <2>4. pid # 0
    BY DEF Pids
  <2>5. CASE q = p
    BY <2>1, <2>3, <2>4, <2>5 DEF Known
  <2>6. CASE q # p
    BY <1>4, <2>1, <2>2, <2>3, <2>6 DEF Known
  <2> QED
    BY <2>5, <2>6
<1>12. RuntimeInv'
  <2>1. \A q \in Profiles : /\ prof[q].proc \in 0..MaxPid /\ prof[q].background \in 0..MaxPid
                             /\ prof'[q].proc \in 0..MaxPid /\ prof'[q].background \in 0..MaxPid
    BY <1>1, <1>4 DEF TypeOK, Runtimes
  <2>2. \A x \in 0..MaxPid : Alive(x)' => Alive(x) /\ x # pid /\ svc'[x] = svc[x]
    BY <1>7
  <2>3. \A q \in Profiles : RuntimeOf(q)'
    <3> SUFFICES ASSUME NEW q \in Profiles
                 PROVE  RuntimeOf(q)'
      OBVIOUS
    <3>1. CASE q = p
      <4>1. prof[p].background \in {0, pid}
        BY <1>1 DEF OwnersInv, RuntimeInv, Pids
      <4>2. ~Alive(0)' /\ ~Alive(pid)'
        BY <1>3, <1>5 DEF Alive
      <4> QED
        BY <1>4, <3>1, <4>1, <4>2 DEF RuntimeOf, Interactive
    <3>2. CASE q # p
      <4>1. prof'[q] = prof[q] /\ RuntimeOf(q)
        BY <1>1, <1>4, <3>2 DEF OwnersInv, RuntimeInv, RuntimeOf
      <4> QED
        BY <2>1, <2>2, <4>1 DEF RuntimeOf, Interactive
    <3> QED
      BY <3>1, <3>2
  <2> QED
    BY <2>3 DEF RuntimeInv, RuntimeOf
<1>13. QueueInv'
  <2> SUFFICES ASSUME NEW q \in Profiles, prof'[q].proc # 0
               PROVE  Reported(svc'[prof'[q].proc], events'[prof'[q].proc],
                               cmds'[prof'[q].proc], prof'[q].state, q \in Interactive)
    BY DEF QueueInv, Interactive
  <2>1. q # p /\ prof'[q] = prof[q]
    BY <1>4
  <2>2. PICK x \in Pids : x = prof[q].proc
    BY <1>1, <2>1, PidIs
  <2>3. CASE x = pid
    BY <1>3, <1>5, <2>1, <2>2, <2>3 DEF Reported
  <2>4. CASE x # pid
    BY <1>1, <1>5, <1>6, <2>1, <2>2, <2>4 DEF QueueInv
  <2> QED
    BY <2>3, <2>4
<1> QED
  BY <1>9, <1>10, <1>11, <1>12, <1>13 DEF SessionInv, OwnersInv

LEMMA EndSessionKeeps ==
    ASSUME SessionInv, NEW p \in Profiles, NEW state \in States, tui, prof[p].proc # 0,
           EndSession(p, state), tui' = tui, kind' = kind, saved' = saved,
           modal' \in Profiles \cup {"none"}
    PROVE  SessionInv'
<1>1. TypeOK /\ OwnersInv
  BY DEF SessionInv
<1>2. PICK pid \in Pids : pid = prof[p].proc
  BY <1>1, PidIs
<1>3. PICK r \in Runtimes : /\ prof' = [prof EXCEPT ![p] = r] /\ r.proc = 0
                            /\ r.background = prof[p].background /\ ~r.routes
  <2>1. PICK no : no = FALSE
    OBVIOUS
  <2>2. PICK pid0 \in 0..MaxPid : pid0 = 0
    BY BoundsAssumption
  <2>3. PICK rr : rr = [prof[p] EXCEPT !.state = state, !.routes = no, !.proc = pid0]
    OBVIOUS
  <2>4. prof[p] \in Runtimes /\ prof \in [Profiles -> Runtimes]
    BY <1>1 DEF TypeOK
  <2>5. /\ rr \in Runtimes /\ rr.proc = 0 /\ rr.background = prof[p].background
        /\ ~rr.routes
    BY <2>1, <2>2, <2>3, <2>4 DEF Runtimes
  <2>6. prof' = [prof EXCEPT ![p].state = state, ![p].routes = no, ![p].proc = pid0]
    BY <2>1, <2>2 DEF EndSession, Cleared
  <2>7. prof' = [prof EXCEPT ![p] = rr]
    BY <2>3, <2>4, <2>6
  <2> QED
    BY <2>5, <2>7
<1>4. /\ RefreshBypass(prof') /\ Killed(pid)
      /\ cmds' = [cmds EXCEPT ![pid] = <<>>] /\ events' = [events EXCEPT ![pid] = <<>>]
  BY <1>2 DEF EndSession
<1>5. \A q \in Interactive : prof'[q].routes => prof'[q].proc # 0
  BY <1>1, <1>3 DEF OwnersInv, RuntimeInv, Interactive, TypeOK
<1>6. BypassInv'
  BY <1>1, <1>4, <1>5, BypassRefreshed
<1>7. stale' \in BOOLEAN /\ faults' \in 0..MaxFaults
  <2>1. stale' \in BOOLEAN /\ (Fault \/ faults' = faults)
    BY <1>4 DEF RefreshBypass
  <2> QED
    BY <1>1, <2>1, FaultIs
<1> QED
  BY <1>2, <1>3, <1>4, <1>6, <1>7, KilledKeeps

LEMMA SessionEndsKeeps ==
    ASSUME SessionInv, NEW p \in Profiles,
           PollFails(p) \/ PollDisconnected(p) \/ PollFailed(p) \/ RestartCarrierFails(p)
    PROVE  SessionInv'
<1>1. TypeOK /\ OwnersInv
  BY DEF SessionInv
<1>2. CASE ~RestartCarrierFails(p)
  <2>1. PICK state \in States : EndSession(p, state)
    BY <1>2 DEF PollFails, PollDisconnected, PollFailed, States
  <2>2. tui /\ prof[p].proc # 0 /\ tui' = tui /\ kind' = kind /\ saved' = saved
    BY <1>2 DEF PollFails, PollDisconnected, PollFailed, Next1
  <2>3. modal' \in Profiles \cup {"none"}
    BY <1>1, <1>2 DEF PollFails, PollDisconnected, PollFailed, CloseModal, TypeOK
  <2> QED
    BY <2>1, <2>2, <2>3, EndSessionKeeps
<1>3. CASE RestartCarrierFails(p)
  <2>1. /\ tui /\ tui' /\ kind' = kind /\ saved' = saved /\ modal' = modal
        /\ bypass' = bypass /\ stale' = stale /\ prof[p].proc # 0 /\ p \in Bridged
        /\ Fault /\ Killed(prof[p].proc)
        /\ cmds' = [cmds EXCEPT ![prof[p].proc] = <<>>]
        /\ events' = [events EXCEPT ![prof[p].proc] = <<>>]
    BY <1>3 DEF RestartCarrierFails, Next1
  <2>2. PICK pid \in Pids : pid = prof[p].proc
    BY <1>1, <2>1, PidIs
  <2>3. p \notin Interactive
    BY <2>1 DEF Bridged, Interactive
  <2>4. PICK r \in Runtimes : /\ prof' = [prof EXCEPT ![p] = r] /\ r.proc = 0
                              /\ r.background = prof[p].background
    <3>1. PICK yes \in BOOLEAN : yes = TRUE
      OBVIOUS
    <3>2. PICK pid0 \in 0..MaxPid : pid0 = 0
      BY BoundsAssumption
    <3>3. PICK st \in States : st = "error"
      BY DEF States
    <3>4. PICK rr : rr = [prof[p] EXCEPT !.routes = yes, !.state = st, !.failed = yes,
                                         !.proc = pid0]
      OBVIOUS
    <3>5. prof[p] \in Runtimes /\ prof \in [Profiles -> Runtimes]
      BY <1>1 DEF TypeOK
    <3>6. rr \in Runtimes /\ rr.proc = 0 /\ rr.background = prof[p].background
      BY <3>2, <3>4, <3>5 DEF Runtimes
    <3>7. prof' = [prof EXCEPT ![p].routes = yes, ![p].state = st, ![p].failed = yes,
                               ![p].proc = pid0]
      BY <1>3, <3>1, <3>2, <3>3 DEF RestartCarrierFails
    <3>8. prof' = [prof EXCEPT ![p] = rr]
      BY <3>4, <3>5, <3>7
    <3> QED
      BY <3>6, <3>8
  <2>5. BypassInv'
    <3>1. \A q \in Profiles : q # p => prof'[q] = prof[q]
      BY <1>1, <2>4 DEF TypeOK
    <3> QED
      BY <1>1, <2>1, <2>3, <3>1 DEF OwnersInv, BypassInv, BypassBacked, Interactive
  <2>6. modal' \in Profiles \cup {"none"} /\ stale' \in BOOLEAN /\ faults' \in 0..MaxFaults
    BY <1>1, <2>1, FaultIs DEF TypeOK
  <2> QED
    BY <2>1, <2>2, <2>3, <2>4, <2>5, <2>6, KilledKeeps
<1> QED
  BY <1>2, <1>3

(* The TUI is left, is killed, or quits: it forgets its services, and the     *)
(* state file says what it knew.                                              *)
LEMMA GoneKeeps ==
    ASSUME SessionInv, tui, tui' = FALSE, modal' = "none", kind' = kind,
           saved' = saved \/ saved' = RuntimeStates(prof),
           events' = [pid \in Pids |-> <<>>],
           svc' = [pid \in Pids |-> [svc[pid] EXCEPT !.overflow = FALSE]],
           prof' = [p \in Profiles |-> NewProfile(0)],
           cmds' \in [Pids -> Seq(Commands)], bypass' \subseteq Interactive,
           stale' \in BOOLEAN, faults' \in 0..MaxFaults
    PROVE  SessionInv'
<1>1. TypeOK /\ OwnersInv
  BY DEF SessionInv
<1>2. /\ svc' \in [Pids -> Services]
      /\ \A x \in Pids : svc'[x].main = svc[x].main /\ svc'[x].profile = svc[x].profile
  <2>1. ASSUME NEW x \in Pids
        PROVE  /\ svc'[x] \in Services
               /\ svc'[x].main = svc[x].main /\ svc'[x].profile = svc[x].profile
    <3>1. PICK s \in Services : s = svc[x]
      BY <1>1 DEF TypeOK
    <3>2. PICK no \in BOOLEAN : no = FALSE
      OBVIOUS
    <3>3. svc'[x] = [s EXCEPT !.overflow = no]
      BY <3>1, <3>2
    <3>4. svc'[x] \in Services /\ svc'[x].main = s.main /\ svc'[x].profile = s.profile
      BY <3>3 DEF Services
    <3> QED
      BY <3>1, <3>4
  <2>2. svc' = [x \in Pids |-> svc'[x]]
    OBVIOUS
  <2> QED
    BY <2>1, <2>2
<1>3. \A x \in 0..MaxPid : Alive(x)' <=> Alive(x)
  <2> SUFFICES ASSUME NEW x \in 0..MaxPid
               PROVE  Alive(x)' <=> Alive(x)
    OBVIOUS
  <2>1. x # 0 => x \in Pids
    BY BoundsAssumption DEF Pids
  <2> QED
    BY <1>2, <2>1 DEF Alive
<1>4. saved' \in [Profiles -> 0..MaxPid]
  <2>1. CASE saved' = saved
    BY <1>1, <2>1 DEF TypeOK
  <2>2. CASE saved' = RuntimeStates(prof)
    BY <1>1, <2>2, SavedIs
  <2> QED
    BY <2>1, <2>2
<1>5. /\ \A x \in Pids : Alive(x) => saved'[svc[x].profile] = x
      /\ \A p \in Profiles : Alive(saved'[p]) => svc[saved'[p]].profile = p
  <2>1. CASE saved' = saved
    BY <1>1, <2>1 DEF OwnersInv, SavedInv
  <2>2. CASE saved' = RuntimeStates(prof)
    BY <1>1, <2>2, SavedIs
  <2> QED
    BY <2>1, <2>2
<1>6. Pids \subseteq 0..MaxPid
  BY BoundsAssumption DEF Pids
<1>7. SavedInv'
  <2>1. ASSUME NEW x \in Pids, Alive(x)'
        PROVE  saved'[svc'[x].profile] = x
    BY <1>2, <1>3, <1>5, <1>6, <2>1
  <2>2. ASSUME NEW p \in Profiles, Alive(saved[p])'
        PROVE  svc'[saved'[p]].profile = p
    <3>1. PICK x \in 0..MaxPid : x = saved'[p]
      BY <1>4
    <3>2. Alive(x)' /\ Alive(x)
      BY <1>3, <2>2, <3>1 DEF Alive
    <3>3. x \in Pids
      BY <3>2, BoundsAssumption DEF Alive, Pids
    <3> QED
      BY <1>2, <1>5, <3>1, <3>2, <3>3
  <2> QED
    BY <2>1, <2>2 DEF SavedInv
<1>8. \A p \in Profiles : /\ prof'[p].proc = 0 /\ prof'[p].background = 0
                          /\ ~prof'[p].routes
  BY DEF NewProfile
<1>9. ClaimInv'
  BY <1>8 DEF ClaimInv
<1>10. RuntimeInv'
  BY <1>8 DEF RuntimeInv, Alive
<1>11. BypassInv'
  BY DEF BypassInv, BypassBacked, Interactive
<1>12. QueueInv'
  BY <1>8 DEF QueueInv
<1>13. TypeOK'
  <2>1. prof' \in [Profiles -> Runtimes]
    BY NewProfileIs, BoundsAssumption
  <2>2. events' \in [Pids -> Seq(EventKinds)] /\ \A x \in Pids : Len(events'[x]) <= QueueCapacity
    <3>1. <<>> \in Seq(EventKinds) /\ Len(<<>>) = 0
      OBVIOUS
    <3> QED
      BY <3>1, BoundsAssumption
  <2>3. bypass' \subseteq Profiles
    BY DEF Interactive
  <2> QED
    BY <1>1, <1>2, <1>4, <2>1, <2>2, <2>3 DEF TypeOK
<1> QED
  BY <1>7, <1>9, <1>10, <1>11, <1>12, <1>13 DEF SessionInv, OwnersInv

LEMMA GoesKeeps ==
    ASSUME SessionInv, Quit \/ Kill \/ Leave
    PROVE  SessionInv'
<1>1. TypeOK /\ OwnersInv
  BY DEF SessionInv
<1>2. bypass \subseteq Interactive
  BY <1>1 DEF OwnersInv, BypassInv
<1>3. /\ tui /\ tui' = FALSE /\ modal' = "none" /\ kind' = kind
      /\ saved' = saved \/ saved' = RuntimeStates(prof)
      /\ events' = [pid \in Pids |-> <<>>]
      /\ svc' = [pid \in Pids |-> [svc[pid] EXCEPT !.overflow = FALSE]]
      /\ prof' = [p \in Profiles |-> NewProfile(0)]
  BY DEF Quit, Kill, Leave, TuiGone
<1>4. bypass' \subseteq Interactive /\ stale' \in BOOLEAN
  BY <1>1, <1>2 DEF Quit, Kill, Leave, TuiGone, TypeOK
<1>5. faults' \in 0..MaxFaults
  BY <1>1, FaultIs DEF Quit, Kill, Leave
<1>6. cmds' \in [Pids -> Seq(Commands)]
  <2>1. CASE Quit \/ Kill
    BY <1>1, <2>1 DEF Quit, Kill, TuiGone, TypeOK
  <2>2. CASE Leave
    <3>1. ASSUME NEW x \in Pids
          PROVE  cmds'[x] \in Seq(Commands)
      <4>1. cmds[x] \in Seq(Commands) /\ "detach" \in Commands
        BY <1>1 DEF TypeOK, Commands
      <4>2. Append(cmds[x], "detach") \in Seq(Commands)
        BY <4>1, AppendProperties
      <4>3. cmds'[x] \in {cmds[x], Append(cmds[x], "detach")}
        BY <2>2 DEF Leave
      <4> QED
        BY <4>1, <4>2, <4>3
    <3>2. cmds' = [x \in Pids |-> cmds'[x]]
      BY <2>2 DEF Leave
    <3> QED
      BY <3>1, <3>2
  <2> QED
    BY <2>1, <2>2
<1> QED
  BY <1>3, <1>4, <1>5, <1>6, GoneKeeps

(* A new TUI finds its background sessions in the state file.                 *)
LEMMA StartKeeps ==
    ASSUME SessionInv, Start
    PROVE  SessionInv'
<1>1. TypeOK /\ OwnersInv
  BY DEF SessionInv
<1>2. /\ tui' /\ kind' = kind /\ modal' = modal /\ saved' = saved /\ bypass' = bypass
      /\ svc' = svc /\ cmds' = cmds /\ events' = events /\ faults' = faults
      /\ stale' = (bypass # {})
  BY DEF Start
<1>3. ASSUME NEW p \in Profiles
      PROVE  /\ prof'[p] \in Runtimes /\ prof'[p].proc = 0 /\ ~prof'[p].routes
             /\ Alive(saved[p]) => /\ prof'[p].background = saved[p]
                                   /\ prof'[p].state = "connected"
             /\ ~Alive(saved[p]) => prof'[p].background = 0
  <2>1. PICK pid \in 0..MaxPid : pid = IF Alive(saved[p]) THEN saved[p] ELSE 0
    BY <1>1, BoundsAssumption DEF TypeOK
  <2>2. prof'[p] = NewProfile(pid)
    BY <2>1 DEF Start
  <2>3. Alive(saved[p]) => saved[p] # 0
    BY DEF Alive
  <2> QED
    BY <2>1, <2>2, <2>3, NewProfileIs
<1>4. \A x : Alive(x)' <=> Alive(x)
  BY <1>2 DEF Alive
<1>5. TypeOK'
  <2>1. prof' = [p \in Profiles |-> prof'[p]]
    BY DEF Start
  <2>2. prof' \in [Profiles -> Runtimes]
    BY <1>3, <2>1
  <2> QED
    BY <1>1, <1>2, <2>2 DEF TypeOK
<1>6. SavedInv'
  BY <1>1, <1>2, <1>4 DEF OwnersInv, SavedInv
<1>7. ClaimInv'
  <2>1. ASSUME NEW x \in Pids, Alive(x)
        PROVE  /\ prof'[svc[x].profile].proc = 0
               /\ prof'[svc[x].profile].background = x
    <3>1. svc[x].profile \in Profiles /\ saved[svc[x].profile] = x
      BY <1>1, <2>1 DEF TypeOK, Services, OwnersInv, SavedInv
    <3> QED
      BY <1>3, <2>1, <3>1
  <2> QED
    BY <1>2, <1>4, <2>1 DEF ClaimInv, Known
<1>8. RuntimeInv'
  <2> SUFFICES ASSUME NEW p \in Profiles
               PROVE  RuntimeOf(p)'
    BY DEF RuntimeInv, RuntimeOf
  <2>1. CASE Alive(saved[p])
    BY <1>1, <1>2, <1>3, <2>1 DEF RuntimeOf, OwnersInv, SavedInv
  <2>2. CASE ~Alive(saved[p])
    BY <1>3, <2>2 DEF RuntimeOf, Alive
  <2> QED
    BY <2>1, <2>2
<1>9. BypassInv'
  BY <1>1, <1>2 DEF OwnersInv, BypassInv, BypassBacked, Interactive
<1>10. QueueInv'
  BY <1>3 DEF QueueInv
<1> QED
  BY <1>5, <1>6, <1>7, <1>8, <1>9, <1>10 DEF SessionInv, OwnersInv

(* A first connection starts a service of its own: nobody else's, and none    *)
(* that lives, for a profile with a live one shows connected.                 *)
LEMMA ConnectSpawnsKeeps ==
    ASSUME SessionInv, NEW p \in Profiles, ConnectSpawns(p)
    PROVE  SessionInv'
<1>1. /\ TypeOK /\ OwnersInv /\ QueueInv
      /\ svc \in [Pids -> Services] /\ prof \in [Profiles -> Runtimes]
      /\ cmds \in [Pids -> Seq(Commands)] /\ events \in [Pids -> Seq(EventKinds)]
  BY DEF SessionInv, TypeOK
<1>2. /\ tui /\ tui' /\ kind' = kind /\ modal' = modal /\ bypass' = bypass
      /\ stale' = stale /\ faults' = faults /\ prof[p].proc = 0
      /\ prof[p].state \in {"disconnected", "error"}
  BY DEF ConnectSpawns, Connectable
<1>3. PICK pid \in Unspawned :
         /\ svc' = [svc EXCEPT ![pid] = NewService(p)]
         /\ cmds' = [cmds EXCEPT ![pid] = <<"connect">>]
         /\ events' = [events EXCEPT ![pid] = <<>>]
         /\ prof' = Connecting(p, pid)
         /\ saved' = [RuntimeStates(prof) EXCEPT ![p] = pid]
  BY DEF ConnectSpawns
<1>4. /\ pid \in Pids /\ pid # 0 /\ pid \in 0..MaxPid /\ ~Alive(pid)
      /\ \A q \in Profiles : prof[q].proc # pid /\ prof[q].background # pid
  BY <1>2, <1>3, BlankServices, BoundsAssumption DEF Unspawned, Attached, Alive, Pids
<1>5. ~Alive(prof[p].background)
  BY <1>1, <1>2 DEF OwnersInv, RuntimeInv
<1>6. PICK r \in Runtimes : /\ prof' = [prof EXCEPT ![p] = r] /\ r.proc = pid
                            /\ r.background = 0 /\ r.state = "connecting"
                            /\ ~r.failed /\ r.routes = prof[p].routes
  <2>1. PICK r : r = ConnectingRuntime(p, pid)
    OBVIOUS
  <2>2. prof' = [prof EXCEPT ![p] = r]
    BY <1>3, <2>1 DEF Connecting, ConnectingRuntime
  <2>3. /\ r \in Runtimes /\ r.proc = pid /\ r.background = 0
        /\ r.state = "connecting" /\ ~r.failed /\ r.routes = prof[p].routes
    BY <1>1, <1>4, <2>1, ConnectingIs
  <2> QED
    BY <2>2, <2>3
<1>7. /\ prof' \in [Profiles -> Runtimes] /\ prof'[p] = r
      /\ \A q \in Profiles \ {p} : prof'[q] = prof[q]
  BY <1>1, <1>6
<1>8. PICK s \in Services : /\ s = NewService(p) /\ s.profile = p /\ s.main = "loop"
                            /\ s.worker = "none" /\ ~s.session
  BY BlankServices
<1>9. /\ svc' \in [Pids -> Services] /\ svc'[pid] = s
      /\ \A x \in Pids \ {pid} : svc'[x] = svc[x]
  BY <1>1, <1>3, <1>4, <1>8
<1>10. /\ cmds' \in [Pids -> Seq(Commands)] /\ events' \in [Pids -> Seq(EventKinds)]
       /\ cmds'[pid] = <<"connect">> /\ events'[pid] = <<>>
       /\ \A x \in Pids \ {pid} : cmds'[x] = cmds[x] /\ events'[x] = events[x]
  <2>1. <<"connect">> \in Seq(Commands) /\ <<>> \in Seq(EventKinds)
    BY DEF Commands
  <2> QED
    BY <1>1, <1>3, <1>4, <2>1
<1>11. /\ saved' \in [Profiles -> 0..MaxPid] /\ saved'[p] = pid
       /\ \A q \in Profiles \ {p} : saved'[q] = RuntimeStates(prof)[q]
  <2>1. RuntimeStates(prof) \in [Profiles -> 0..MaxPid]
    BY <1>1, <1>2, SavedIs
  <2> QED
    BY <1>3, <1>4, <2>1
<1>12. /\ Alive(pid)' /\ svc'[pid].profile = p
       /\ \A x \in 0..MaxPid : x # pid => /\ Alive(x)' <=> Alive(x)
                                          /\ Alive(x) => svc'[x] = svc[x]
  <2>1. Alive(pid)' /\ svc'[pid].profile = p
    BY <1>4, <1>8, <1>9 DEF Alive
  <2>2. ASSUME NEW x \in 0..MaxPid, x # pid
        PROVE  (Alive(x)' <=> Alive(x)) /\ (Alive(x) => svc'[x] = svc[x])
    <3>1. x # 0 => x \in Pids
      BY BoundsAssumption DEF Pids
    <3> QED
      BY <1>9, <2>2, <3>1 DEF Alive
  <2> QED
    BY <2>1, <2>2
<1>13. Pids \subseteq 0..MaxPid
  BY BoundsAssumption DEF Pids
<1>14. ASSUME NEW x \in Pids, Alive(x)
       PROVE  /\ x # pid /\ svc[x].profile \in Profiles \ {p}
              /\ Known(svc[x].profile, x) /\ RuntimeStates(prof)[svc[x].profile] = x
  <2>1. svc[x].profile \in Profiles /\ Known(svc[x].profile, x) /\ x # 0
    BY <1>1, <1>2, <1>14 DEF Services, OwnersInv, ClaimInv, Pids
  <2>2. svc[x].profile # p
    BY <1>2, <1>5, <1>14, <2>1 DEF Known
  <2> QED
    BY <1>1, <1>2, <1>4, <1>14, <2>1, <2>2, SavedIs
<1>15. TypeOK'
  <2>1. \A x \in Pids : Len(events'[x]) <= QueueCapacity
    <3>1. Len(events'[pid]) = 0
      BY <1>10
    <3>2. \A x \in Pids : Len(events[x]) <= QueueCapacity
      BY <1>1 DEF TypeOK
    <3>3. QueueCapacity \in Nat
      BY BoundsAssumption
    <3>4. Len(events'[pid]) <= QueueCapacity
      BY <3>1, <3>3
    <3>5. ASSUME NEW x \in Pids, x # pid
          PROVE  Len(events'[x]) <= QueueCapacity
      <4>1. events'[x] = events[x]
        BY <1>10, <3>5
      <4> QED
        BY <3>2, <4>1
    <3> QED
      BY <3>4, <3>5
  <2> QED
    BY <1>1, <1>2, <1>7, <1>9, <1>10, <1>11, <2>1 DEF TypeOK
<1>16. SavedInv'
  <2>1. ASSUME NEW x \in Pids, Alive(x)'
        PROVE  saved'[svc'[x].profile] = x
    <3>1. CASE x = pid
      BY <1>11, <1>12, <3>1
    <3>2. CASE x # pid
      <4>1. Alive(x) /\ svc'[x] = svc[x]
        BY <1>12, <1>13, <2>1, <3>2
      <4> QED
        BY <1>11, <1>14, <4>1
    <3> QED
      BY <3>1, <3>2
  <2>2. ASSUME NEW q \in Profiles, Alive(saved[q])'
        PROVE  svc'[saved'[q]].profile = q
    <3>1. CASE q = p
      BY <1>11, <1>12, <3>1
    <3>2. CASE q # p
      <4>1. PICK x \in 0..MaxPid : x = saved'[q] /\ x = RuntimeStates(prof)[q]
        BY <1>11, <3>2
      <4>2. Alive(x)'
        BY <2>2, <4>1 DEF Alive
      <4>3. x # pid
        BY <1>1, <1>2, <1>4, <4>1, SaveIs
      <4>4. Alive(x) /\ svc'[x] = svc[x]
        BY <1>12, <4>2, <4>3
      <4> QED
        BY <1>1, <1>2, <4>1, <4>4, SavedIs
    <3> QED
      BY <3>1, <3>2
  <2> QED
    BY <2>1, <2>2 DEF SavedInv
<1>17. ClaimInv'
  <2>1. ASSUME NEW x \in Pids, Alive(x)'
        PROVE  Known(svc[x].profile, x)'
    <3>1. CASE x = pid
      BY <1>6, <1>7, <1>12, <3>1 DEF Known
    <3>2. CASE x # pid
      <4>1. Alive(x) /\ svc'[x] = svc[x]
        BY <1>12, <1>13, <2>1, <3>2
      <4>2. /\ svc[x].profile \in Profiles \ {p} /\ Known(svc[x].profile, x)
        BY <1>14, <4>1
      <4>3. prof'[svc[x].profile] = prof[svc[x].profile]
        BY <1>7, <4>2
      <4> QED
        BY <4>1, <4>2, <4>3 DEF Known
    <3> QED
      BY <3>1, <3>2
  <2> QED
    BY <1>2, <2>1 DEF ClaimInv
<1>18. RuntimeInv'
  <2> SUFFICES ASSUME NEW q \in Profiles
               PROVE  RuntimeOf(q)'
    BY DEF RuntimeInv, RuntimeOf
  <2>1. CASE q = p
    BY <1>4, <1>6, <1>7, <1>12, <2>1 DEF RuntimeOf
  <2>2. CASE q # p
    <3>1. prof'[q] = prof[q] /\ RuntimeOf(q)
      BY <1>1, <1>7, <2>2 DEF OwnersInv, RuntimeInv, RuntimeOf
    <3>2. /\ prof[q].proc \in 0..MaxPid /\ prof[q].background \in 0..MaxPid
          /\ prof[q].proc # pid /\ prof[q].background # pid
      BY <1>1, <1>4, RuntimeIs
    <3>3. /\ Alive(prof[q].proc)' => Alive(prof[q].proc) /\ svc'[prof[q].proc] = svc[prof[q].proc]
          /\ Alive(prof[q].background)' =>
                Alive(prof[q].background) /\ svc'[prof[q].background] = svc[prof[q].background]
      <4>1. PICK x \in 0..MaxPid : x = prof[q].proc
        BY <3>2
      <4>2. PICK y \in 0..MaxPid : y = prof[q].background
        BY <3>2
      <4>3. prof'[q].proc = x /\ prof'[q].background = y
        BY <3>1, <4>1, <4>2
      <4> QED
        BY <1>12, <3>1, <3>2, <4>1, <4>2, <4>3 DEF Alive
    <3> QED
      BY <1>2, <3>1, <3>3 DEF RuntimeOf, Interactive
  <2> QED
    BY <2>1, <2>2
<1>19. BypassInv'
  <2>1. ASSUME NEW q \in Profiles, prof[q].proc # 0
        PROVE  prof'[q].proc # 0
    BY <1>2, <1>7, <2>1
  <2> QED
    BY <1>1, <1>2, <2>1 DEF OwnersInv, BypassInv, BypassBacked, Interactive
<1>20. QueueInv'
  <2> SUFFICES ASSUME NEW q \in Profiles, prof'[q].proc # 0
               PROVE  Reported(svc'[prof'[q].proc], events'[prof'[q].proc],
                               cmds'[prof'[q].proc], prof'[q].state, q \in Interactive)
    BY <1>2 DEF QueueInv, Interactive
  <2>1. CASE q = p
    <3>1. PICK c \in Seq(Commands) : c = cmds'[pid]
      BY <1>4, <1>10
    <3>2. c # <<>> /\ Head(c) = "connect"
      BY <1>10, <3>1
    <3>3. PICK e : e = events'[pid] /\ Len(e) = 0
      BY <1>10
    <3>4. ~ShowsConnected("connecting", e)
      BY <3>3 DEF ShowsConnected
    <3>5. Reported(s, e, c, "connecting", q \in Interactive)
      BY <1>8, <3>2, <3>4 DEF Reported, Told
    <3> QED
      BY <1>6, <1>7, <1>9, <2>1, <3>1, <3>3, <3>5
  <2>2. CASE q # p
    <3>1. prof'[q] = prof[q] /\ prof[q].proc # pid
      BY <1>4, <1>7, <2>2
    <3>2. PICK x \in Pids : x = prof[q].proc /\ x # pid
      BY <1>1, <3>1, PidIs
    <3> QED
      BY <1>1, <1>9, <1>10, <3>1, <3>2 DEF QueueInv
  <2> QED
    BY <2>1, <2>2
<1> QED
  BY <1>15, <1>16, <1>17, <1>18, <1>19, <1>20 DEF SessionInv, OwnersInv

-----------------------------------------------------------------------------
(* The specification.                                                         *)

LEMMA InitSession == Init => SessionInv
<1> SUFFICES ASSUME Init
             PROVE  SessionInv
  OBVIOUS
<1>1. /\ kind \in [Profiles -> Kinds] /\ faults = 0 /\ tui = TRUE
      /\ prof = [p \in Profiles |-> NewProfile(0)] /\ modal = "none"
      /\ saved = [p \in Profiles |-> 0] /\ bypass = {} /\ stale = FALSE
      /\ svc = [pid \in Pids |-> NoService]
      /\ cmds = [pid \in Pids |-> <<>>] /\ events = [pid \in Pids |-> <<>>]
  BY DEF Init
<1>2. 0 \in 0..MaxPid /\ 0 \in 0..MaxFaults /\ QueueCapacity \in Nat
  BY BoundsAssumption
<1>3. \A p \in Profiles : /\ prof[p] \in Runtimes /\ prof[p].proc = 0
                          /\ prof[p].background = 0 /\ ~prof[p].routes
  BY <1>1, <1>2, NewProfileIs
<1>4. prof \in [Profiles -> Runtimes]
  BY <1>1, <1>3
<1>5. \A x : ~ (x \in Pids \cup {0} /\ Alive(x))
  BY <1>1, BlankServices DEF Alive
<1>6. TypeOK
  <2>1. \A x \in Pids : Len(events[x]) <= QueueCapacity
    <3>1. \A x \in Pids : Len(events[x]) = 0
      BY <1>1
    <3> QED
      BY <1>2, <3>1
  <2>2. cmds \in [Pids -> Seq(Commands)] /\ events \in [Pids -> Seq(EventKinds)]
    BY <1>1
  <2>3. svc \in [Pids -> Services] /\ saved \in [Profiles -> 0..MaxPid]
    BY <1>1, <1>2, BlankServices
  <2> QED
    BY <1>1, <1>2, <1>4, <2>1, <2>2, <2>3 DEF TypeOK
<1>7. SavedInv /\ ClaimInv /\ RuntimeInv /\ BypassInv
  BY <1>1, <1>3, <1>5 DEF SavedInv, ClaimInv, RuntimeInv, BypassInv, BypassBacked
<1>8. QueueInv
  BY <1>3 DEF QueueInv
<1> QED
  BY <1>6, <1>7, <1>8 DEF SessionInv, OwnersInv

LEMMA StepSession ==
    ASSUME SessionInv, [Next]_vars
    PROVE  SessionInv'
<1>1. CASE \E p \in Profiles : ConnectSpawns(p) \/ ConnectReuses(p) \/ ConnectFails(p)
                               \/ Disconnect(p)
  BY <1>1, ConnectSpawnsKeeps, ConnectReusesKeeps, ConnectFailsKeeps, DisconnectKeeps
<1>2. CASE SubmitAuth \/ CancelAuth
  BY <1>2, AuthKeeps
<1>3. CASE Quit \/ Kill \/ Leave
  BY <1>3, GoesKeeps
<1>4. CASE LeaveFails
  BY <1>4, LeaveFailsKeeps
<1>5. CASE Start
  BY <1>5, StartKeeps
<1>6. CASE \E p \in Profiles : Poll(p)
  BY <1>6, SessionEndsKeeps, PollStateKeeps, PollChallengeKeeps, PollRoutesKeeps DEF Poll
<1>7. CASE \E pid \in Pids : Main(pid) \/ Worker(pid) \/ HelperCleans(pid) \/ ServiceDies(pid)
  BY <1>7, ServiceStep
<1>8. CASE UNCHANGED vars
  BY <1>8 DEF vars, SessionInv, TypeOK, OwnersInv, SavedInv, ClaimInv, RuntimeInv, BypassInv,
       BypassBacked, QueueInv, Alive, Known, Interactive
<1> QED
  BY <1>1, <1>2, <1>3, <1>4, <1>5, <1>6, <1>7, <1>8 DEF Next, User

LEMMA SoundSessions == SessionInv => SessionsSound
<1> SUFFICES ASSUME SessionInv
             PROVE  SessionsSound
  OBVIOUS
<1>1. TypeOK /\ OwnersInv /\ QueueInv
  BY DEF SessionInv
<1>2. OneServicePerProfile
  BY <1>1 DEF OneServicePerProfile, OwnersInv, SavedInv
<1>3. BypassBacked
  BY <1>1 DEF OwnersInv, BypassInv
<1>4. ShownStateTrue
  <2> SUFFICES ASSUME NEW p \in Profiles, NEW pid, pid = prof[p].proc,
                      tui, pid # 0, Alive(pid), ~svc[pid].detached,
                      events[pid] = <<>>, ~svc[pid].overflow, cmds[pid] = <<>>
               PROVE  /\ prof[p].state = "connected" => svc[pid].worker = "data"
                      /\ prof[p].state = "connecting" /\ ~svc[pid].shutdown
                           => svc[pid].worker \notin {"none", "done"}
                      /\ prof[p].state = "disconnecting" /\ p \in Hillstone => ~AllQuiet(pid)
    BY DEF ShownStateTrue
  <2>1. Reported(svc[pid], events[pid], cmds[pid], prof[p].state, p \in Interactive)
    BY <1>1 DEF QueueInv
  <2>2. PICK q : q = events[pid] /\ Len(q) = 0
    OBVIOUS
  <2>3. PICK c : c = cmds[pid] /\ Len(c) = 0
    OBVIOUS
  <2>4. ~Ends(q) /\ ~Has(c, "detach") /\ ShowsConnected("connected", q)
    BY <2>2, <2>3 DEF Ends, Has, ShowsConnected
  <2>5. svc[pid].worker # "none"
    BY <2>1 DEF Reported, Alive
  <2>6. Told(svc[pid], q, prof[p].state, c, p \in Interactive)
    BY <2>1, <2>2, <2>3, <2>4 DEF Reported, Alive
  <2>7. prof[p].state = "connected" => svc[pid].worker = "data"
    BY <2>4, <2>6 DEF Told
  <2>8. svc[pid].worker = "done" => svc[pid].shutdown /\ p \in Interactive
    BY <2>6 DEF Told
  <2> QED
    BY <2>5, <2>7, <2>8 DEF AllQuiet, Hillstone
<1> QED
  BY <1>1, <1>2, <1>3, <1>4 DEF SessionsSound

(* In every reachable state the files and the memory through which a service  *)
(* is found again agree with what runs, and what the TUI shows, or will show  *)
(* once its queue is read, is what its services do.                           *)
THEOREM SessionInvariant == Spec => []SessionInv
  BY InitSession, StepSession, PTL DEF Spec

(* private_access_session.rs and private_access.rs: a profile never has two   *)
(* service processes, whatever TUI is left, quits, is killed or starts; what  *)
(* the TUI shows, once its events are read, is what the service does, even    *)
(* when events were dropped from the full queue; and the domains of a session *)
(* bypass the OS proxy only while the TUI owns its service.                   *)
THEOREM SessionsAreSound == Spec => []SessionsSound
  BY SessionInvariant, SoundSessions, PTL

-----------------------------------------------------------------------------
(* The logon conversation, for any rules, tokens, sessions and replies.      *)
(*                                                                           *)
(* The gateway holds no session but the one in use and those whose deletion  *)
(* failed, and the client's token is the newest one unless an answer was     *)
(* lost: every way to a new logon deletes the old session, and a new logon   *)
(* forgets the old token.                                                    *)

HeldInv == live \subseteq IF authPhase \in {"discover", "logon", "ended"} THEN lost
                          ELSE lost \cup {session}
TokenInv == token # 0 /\ ~missed => token = issued
LogonInv == HeldInv /\ TokenInv /\ LogonSound

(* An answer brings a newer token, or the client is known to have missed it. *)
LEMMA AnswersKeep == ASSUME TokenInv, Answered \/ Unanswered PROVE TokenInv'
BY DEF TokenInv, Answered, Unanswered, Capture

(* A step within a session: the tokens are those before or an answer's, and  *)
(* the phase after it is another one of the session.                         *)
Within == {"agent", "challenge", "interrogate", "state", "activate", "establish", "tunnel",
           "reconnect", "migrate", "reestablish", "renew", "failed"}
LEMMA SessionGoesOn ==
    ASSUME LogonInv, authPhase \in Within, authPhase' \in Within, UNCHANGED <<live, session, lost, used>>,
           UNCHANGED <<issued, missed, token>> \/ Answered \/ Unanswered,
           \A a \in accepted' : a \in accepted \/ a.at = a.reply,
           \A i \in answered' : i \in answered \/ i.answer = i.asked \/ i.answer = {}
    PROVE  LogonInv'
<1>1. TokenInv'
  BY AnswersKeep DEF LogonInv, TokenInv
<1>2. HeldInv'
  BY DEF LogonInv, HeldInv, Within
<1>3. LogonSound'
  BY DEF LogonInv, LogonSound, RepliesMatch, NoSessionLeft, AnsweredInFull, LatestTokenUsed, Within
<1> QED BY <1>1, <1>2, <1>3 DEF LogonInv

(* The dialog.                                                               *)
LEMMA DialogKept ==
    ASSUME LogonInv, AgentInfo \/ Authenticate \/ Cancelled PROVE LogonInv'
<1>1. CASE AgentInfo
  BY <1>1, SessionGoesOn DEF AgentInfo, Goto, Steps, Within, Quiet, LogonInv, LogonSound, RepliesMatch, AnsweredInFull
<1>2. CASE Authenticate
  <2>1. \A a \in accepted' : a \in accepted \/ a.at = a.reply
    BY <1>2 DEF Authenticate, Matches
  <2> QED
    BY <1>2, <2>1, SessionGoesOn DEF Authenticate, Goto, Steps, Within
<1>3. CASE Cancelled
  BY <1>3, SessionGoesOn DEF Cancelled, Goto, Within, Quiet
<1> QED BY <1>1, <1>2, <1>3

(* The checks behind the dialog, and the tunnel as long as no token is        *)
(* presented.                                                                *)
LEMMA ChecksKept ==
    ASSUME LogonInv, Interrogate \/ ProbeState \/ Activate \/ Keepalive \/ TunnelLost \/ ReconnectBackoff
    PROVE  LogonInv'
<1>1. CASE Interrogate
  <2>1. \A i \in answered' : i \in answered \/ i.answer = i.asked \/ i.answer = {}
    BY <1>1 DEF Interrogate, Evaluate
  <2> QED
    BY <1>1, <2>1, SessionGoesOn DEF Interrogate, Goto, Within
<1>2. CASE ProbeState
  BY <1>2, SessionGoesOn DEF ProbeState, Goto, Within, Quiet
<1>3. CASE Activate
  BY <1>3, SessionGoesOn DEF Activate, Goto, Within, Quiet
<1>4. CASE Keepalive
  BY <1>4, SessionGoesOn DEF Keepalive, Within, Quiet
<1>5. CASE TunnelLost
  BY <1>5, SessionGoesOn DEF TunnelLost, Goto, Within, Quiet
<1>6. CASE ReconnectBackoff
  BY <1>6, SessionGoesOn DEF ReconnectBackoff, Goto, Within, Quiet
<1> QED BY <1>1, <1>2, <1>3, <1>4, <1>5, <1>6

(* A token is presented: rejected, it is an old one because an answer was    *)
(* lost, or its session is gone.                                             *)
LEMMA PresentedKept == ASSUME LogonInv, EstablishTunnel \/ Reestablish PROVE LogonInv'
<1>1. /\ authPhase \in {"establish", "reestablish"}
      /\ authPhase' \in {"failed", "tunnel", "renew", "reconnect"}
      /\ UNCHANGED <<live, issued, missed, session, token, accepted, answered, lost>>
  BY DEF EstablishTunnel, Reestablish, Goto, Quiet
<1>2. \A u \in used' : u \in used \/ u.verdict = "accepted" \/ u.excused
  <2>1. ~Valid /\ token # 0 => missed \/ session \notin live
    BY DEF Valid, LogonInv, TokenInv
  <2> DEFINE e == missed \/ session \notin live
             u(verdict) == [token |-> token, verdict |-> verdict, excused |-> e]
  <2>2. \/ used' = used
        \/ used' = used \cup {u("accepted")}
        \/ used' = used \cup {u("rejected")} /\ ~Valid /\ token # 0
    BY DEF EstablishTunnel, Reestablish, Presented
  <2>3. ~Valid /\ token # 0 => e
    BY <2>1
  <2> HIDE DEF e
  <2> QED BY <2>2, <2>3
<1>3. HeldInv' /\ TokenInv'
  BY <1>1 DEF LogonInv, HeldInv, TokenInv
<1>4. LogonSound'
  BY <1>1, <1>2 DEF LogonInv, LogonSound, RepliesMatch, NoSessionLeft, AnsweredInFull, LatestTokenUsed
<1> QED BY <1>3, <1>4 DEF LogonInv

(* Sessions begin and end.                                                   *)
LEMMA SessionsKept ==
    ASSUME LogonInv, DiscoverRealms \/ StartLogon \/ SessionExpires \/ Renew \/ End
    PROVE  LogonInv'
<1>1. UNCHANGED <<used, accepted, answered>>
  BY DEF DiscoverRealms, StartLogon, SessionExpires, Renew, End, Quiet
<1>2. TokenInv'
  BY DEF LogonInv, TokenInv, DiscoverRealms, StartLogon, SessionExpires, Renew, End
<1>3. HeldInv'
  <2>1. CASE DiscoverRealms
    BY <2>1 DEF LogonInv, HeldInv, DiscoverRealms, Goto
  <2>2. CASE StartLogon
    BY <2>2 DEF LogonInv, HeldInv, StartLogon, Goto
  <2>3. CASE SessionExpires
    BY <2>3 DEF LogonInv, HeldInv, SessionExpires
  <2>4. CASE Renew
    BY <2>4 DEF LogonInv, HeldInv, Renew, Close, Goto
  <2>5. CASE End
    BY <2>5 DEF LogonInv, HeldInv, End, Close, Goto
  <2> QED BY <2>1, <2>2, <2>3, <2>4, <2>5
<1>4. LogonSound'
  BY <1>1, <1>3 DEF LogonInv, LogonSound, HeldInv, RepliesMatch, NoSessionLeft, AnsweredInFull, LatestTokenUsed
<1> QED BY <1>2, <1>3, <1>4 DEF LogonInv

(* The user, who answers and asks for the end, and steps that change nothing. *)
LEMMA UserKept ==
    ASSUME LogonInv, UNCHANGED <<live, issued, missed, authPhase, session, token, used, accepted, answered, lost>>
    PROVE  LogonInv'
BY DEF LogonInv, HeldInv, TokenInv, LogonSound, RepliesMatch, NoSessionLeft, AnsweredInFull, LatestTokenUsed

(* The gateway holds only the session in use and those whose deletion        *)
(* failed, and the newest token is at the client unless it was missed.       *)
THEOREM LogonInvariant == LogonSpec => []LogonInv
<1>1. LogonInit => LogonInv
  BY DEF LogonInit, LogonInv, HeldInv, TokenInv, LogonSound, RepliesMatch, NoSessionLeft,
         AnsweredInFull, LatestTokenUsed
<1>2. LogonInv /\ [SwNext]_swVars => LogonInv'
  <2> SUFFICES ASSUME LogonInv, [SwNext]_swVars PROVE LogonInv'
    OBVIOUS
  <2>1. CASE AgentInfo \/ Authenticate \/ Cancelled
    BY <2>1, DialogKept
  <2>2. CASE Interrogate \/ ProbeState \/ Activate \/ Keepalive \/ TunnelLost \/ ReconnectBackoff
    BY <2>2, ChecksKept
  <2>3. CASE EstablishTunnel \/ Reestablish
    BY <2>3, PresentedKept
  <2>4. CASE DiscoverRealms \/ StartLogon \/ SessionExpires \/ Renew \/ End
    BY <2>4, SessionsKept
  <2>5. CASE AskToEnd \/ (\E s \in 1..MaxSessions, c \in 1..2 : Reply(s, c)) \/ UNCHANGED swVars
    BY <2>5, UserKept DEF AskToEnd, Reply, swVars
  <2> QED BY <2>1, <2>2, <2>3, <2>4, <2>5 DEF SwNext
<1> QED BY <1>1, <1>2, PTL DEF LogonSpec

(* Replies go to their challenge, a session is deleted on every way out of   *)
(* it, an interrogation is answered in full or not at all, and a token the   *)
(* gateway rejects was the newest that reached the client: for any number of *)
(* renewals (run_sonicwall_authentication and the reconnect loop).           *)
THEOREM LogonsAreSound == LogonSpec => []LogonSound
BY LogonInvariant, PTL DEF LogonInv

-----------------------------------------------------------------------------
(* A Hillstone session, for any number of frames and errors.                 *)
(*                                                                           *)
(* The events are bounded by how far the session is, the addresses belong to *)
(* one frame as soon as they are read, and a data plane that ended has a      *)
(* result, which only a lost logout takes away.                              *)

Events == {"connecting", "routes", "connected", "disconnected", "error"}
VpnTypes ==
    /\ mode \in Modes /\ frames \in Nat
    /\ setup \in [SetIpFields \cup {"route"} -> Nat]
    /\ announced \in Seq(Events)

(* How far the events may have come.                                         *)
Reached ==
    CASE vpnPhase \in {"connect", "auth", "client_info", "network"} -> 1
      [] vpnPhase = "new_key" -> 2
      [] vpnPhase = "data" -> (IF mode = "tun" THEN 2 ELSE 3)
      [] vpnPhase \in {"loop", "logout"} -> 3
      [] vpnPhase \in {"done", "failing"} -> 4
      [] OTHER -> 5
EventInv == EventOrder /\ \A i \in 1..Len(announced) : Rank(announced[i]) <= Reached

AddressInv == /\ \A f, g \in SetIpFields : setup[f] # 0 /\ setup[g] # 0 => setup[f] = setup[g]
              /\ vpnPhase = "loop" => Usable

Early == {"connect", "auth", "client_info", "network", "new_key", "data", "loop"}
ResultInv == /\ vpnPhase \in Early => result = "none"
             /\ vpnPhase = "logout" => result \in {"ok", "error"}
             /\ vpnPhase \in Early \cup {"logout", "done", "failing", "failed"}
             /\ NoOrphanSession
VpnInv == VpnTypes /\ EventInv /\ AddressInv /\ ResultInv

LEMMA NeededFields == ASSUME mode \in Modes PROVE Needed \subseteq SetIpFields
BY DEF Modes, Needed, SetIpFields

LEMMA Ranked == ASSUME NEW e \in Events PROVE Rank(e) \in 1..5
BY DEF Events, Rank

LEMMA ReachedTyped == ASSUME ResultInv, mode \in Modes PROVE Reached \in 1..5
BY DEF ResultInv, Early, Reached

(* Every event so far is of a rank that leaves room for e.                   *)
Follows(e) == Rank(e) > Reached \/ (e = "connecting" /\ Reached = 1)

(* An event that outranks all before it comes last; so does "connecting" as   *)
(* long as nothing else was announced.                                       *)
LEMMA Announced ==
    ASSUME VpnInv, NEW e \in Events, Follows(e), announced' = Append(announced, e)
    PROVE  /\ announced' \in Seq(Events) /\ EventOrder'
           /\ \A i \in 1..Len(announced') : Rank(announced'[i]) <= Rank(e)
<1>1. /\ announced \in Seq(Events) /\ Len(announced) \in Nat /\ Len(announced') = Len(announced) + 1
      /\ announced'[Len(announced) + 1] = e
      /\ \A i \in 1..Len(announced) : announced'[i] = announced[i] /\ announced[i] \in Events
  BY DEF VpnInv, VpnTypes
<1>2. \A i \in 1..Len(announced) : \/ Rank(announced[i]) < Rank(e)
                                   \/ announced[i] = "connecting" /\ e = "connecting"
  <2>1. Reached \in 1..5 /\ Rank(e) \in 1..5 /\ \A i \in 1..Len(announced) : Rank(announced[i]) <= Reached
    BY Ranked, ReachedTyped DEF VpnInv, EventInv, VpnTypes
  <2>2. \A i \in 1..Len(announced) : Rank(announced[i]) \in 1..5 /\ announced[i] \in Events
    BY <1>1, Ranked
  <2>3. CASE Rank(e) > Reached
    BY <2>1, <2>2, <2>3
  <2>4. CASE e = "connecting" /\ Reached = 1
    <3>1. \A i \in 1..Len(announced) : Rank(announced[i]) = 1
      BY <2>1, <2>2, <2>4
    <3> QED BY <2>2, <2>4, <3>1 DEF Rank, Events
  <2> QED BY <2>3, <2>4 DEF Follows
<1>3. EventOrder'
  <2> SUFFICES ASSUME NEW i \in 1..Len(announced'), NEW j \in 1..Len(announced'), i < j
               PROVE  \/ Rank(announced'[i]) < Rank(announced'[j])
                      \/ announced'[i] = "connecting" /\ announced'[j] = "connecting"
    BY DEF EventOrder, Rank
  <2>1. CASE j = Len(announced) + 1
    BY <1>1, <1>2, <2>1
  <2>2. CASE j # Len(announced) + 1
    BY <1>1, <2>2 DEF VpnInv, EventInv, EventOrder
  <2> QED BY <2>1, <2>2
<1>4. \A i \in 1..Len(announced') : Rank(announced'[i]) <= Rank(e)
  BY <1>1, <1>2, Ranked
<1> QED BY <1>1, <1>3, <1>4

(* A step that announces nothing, or what its phase has come to.             *)
LEMMA EventsKept ==
    ASSUME VpnInv, mode' = mode,
           \/ announced' = announced /\ Reached <= Reached'
           \/ \E e \in Events : announced' = Append(announced, e) /\ Follows(e) /\ Rank(e) <= Reached'
    PROVE  EventInv' /\ announced' \in Seq(Events)
<1>1. Reached \in 1..5 /\ \A i \in 1..Len(announced) : Rank(announced[i]) \in 1..5
  BY ReachedTyped, Ranked DEF VpnInv, VpnTypes
<1>2. Reached' \in 1..5
  BY DEF VpnInv, VpnTypes, Reached
<1>3. CASE announced' = announced /\ Reached <= Reached'
  BY <1>1, <1>2, <1>3 DEF VpnInv, VpnTypes, EventInv, EventOrder, Rank
<1>4. CASE \E e \in Events : announced' = Append(announced, e) /\ Follows(e) /\ Rank(e) <= Reached'
  <2>1. PICK e \in Events : announced' = Append(announced, e) /\ Follows(e) /\ Rank(e) <= Reached'
    BY <1>4
  <2>2. /\ announced' \in Seq(Events) /\ EventOrder'
        /\ \A i \in 1..Len(announced') : Rank(announced'[i]) <= Rank(e)
    BY <2>1, Announced
  <2>3. Len(announced') \in Nat /\ \A i \in 1..Len(announced') : announced'[i] \in Events
    BY <2>2
  <2>4. \A i \in 1..Len(announced') : Rank(announced'[i]) \in 1..5 /\ Rank(announced'[i]) <= Reached'
    BY <1>2, <2>1, <2>2, <2>3, Ranked
  <2>5. EventInv'
    BY <2>2, <2>4 DEF EventInv, Rank
  <2> QED BY <2>2, <2>5
<1> QED BY <1>3, <1>4

(* Who announces what, and when.                                             *)
LEMMA EachEvent == ASSUME VpnInv, HsNext PROVE EventInv' /\ announced' \in Seq(Events)
<1>1. mode' = mode /\ mode \in Modes /\ ResultInv
  BY DEF VpnInv, VpnTypes, HsNext, Connect, Auth, ClientInfo, NetworkFrame, KeyDone, ServerDisconnect,
         NewKey, StartData, IcmpProbe, TcpProbe, HttpGet, ProbeEnds, Shutdown, EndLoop, LoopFails,
         Logout, RunFailed, ChannelClosed, Fails, Options
<1>2. CASE Connect \/ Auth \/ ClientInfo
  BY <1>1, <1>2, EventsKept DEF Connect, Auth, ClientInfo, Fails, Events, Reached, Rank, Follows
<1>3. CASE NetworkFrame \/ KeyDone \/ ServerDisconnect
  BY <1>1, <1>3, EventsKept DEF NetworkFrame, KeyDone, ServerDisconnect, Fails, Events, Reached, Rank,
     Follows
<1>4. CASE NewKey
  BY <1>1, <1>4, EventsKept DEF NewKey, Announces, Fails, Events, Reached, Rank, Follows
<1>5. CASE StartData
  BY <1>1, <1>5, EventsKept DEF StartData, Events, Reached, Rank, Follows
<1>6. CASE IcmpProbe \/ TcpProbe \/ HttpGet \/ EndLoop \/ LoopFails \/ Shutdown \/ ChannelClosed
  BY <1>1, <1>6, EventsKept DEF IcmpProbe, TcpProbe, HttpGet, ProbeEnds, EndLoop, LoopFails, Shutdown,
     ChannelClosed, Reached
<1>7. CASE Logout
  BY <1>1, <1>7, EventsKept DEF Logout, Events, Reached, Rank, Follows
<1>8. CASE RunFailed
  BY <1>1, <1>8, EventsKept DEF RunFailed, Events, Reached, Rank, Follows
<1> QED BY <1>2, <1>3, <1>4, <1>5, <1>6, <1>7, <1>8 DEF HsNext

(* A frame replaces every address, all of them by its own number or by none.  *)
LEMMA AddressKept == ASSUME VpnInv, HsNext
                     PROVE  AddressInv' /\ frames' \in Nat /\ setup' \in [SetIpFields \cup {"route"} -> Nat]
<1>1. /\ AddressInv /\ frames \in Nat /\ setup \in [SetIpFields \cup {"route"} -> Nat]
      /\ "route" \notin SetIpFields
  BY DEF VpnInv, VpnTypes, SetIpFields
<1>2. CASE NetworkFrame
  <2>1. vpnPhase' # "loop" /\ frames' = frames + 1
    BY <1>2 DEF NetworkFrame
  <2>2. CASE \E fields \in SUBSET SetIpFields : setup' = SetIp(fields)
    BY <1>1, <2>1, <2>2 DEF AddressInv, SetIp
  <2>3. CASE setup' = [setup EXCEPT !["route"] = frames + 1]
    BY <1>1, <2>1, <2>3 DEF AddressInv
  <2>4. CASE setup' = setup
    BY <1>1, <2>1, <2>4 DEF AddressInv
  <2> QED BY <1>2, <2>2, <2>3, <2>4 DEF NetworkFrame
<1>3. CASE ~NetworkFrame
  <2>1. UNCHANGED <<mode, setup, frames>>
    BY <1>3 DEF HsNext, Connect, Auth, ClientInfo, KeyDone, ServerDisconnect, NewKey, StartData,
       IcmpProbe, TcpProbe, HttpGet, ProbeEnds, Shutdown, EndLoop, LoopFails, Logout, RunFailed, ChannelClosed,
       Fails, Options, Network
  <2>2. vpnPhase' = "loop" => (vpnPhase = "loop" \/ Usable) /\ keys' = keys
    BY <1>3 DEF HsNext, Connect, Auth, ClientInfo, KeyDone, ServerDisconnect, NewKey, StartData,
       IcmpProbe, TcpProbe, HttpGet, ProbeEnds, Shutdown, EndLoop, LoopFails, Logout, RunFailed, ChannelClosed,
       Fails
  <2>3. keys' = keys => Usable' = Usable
    BY <2>1 DEF Usable, Needed
  <2> QED BY <1>1, <2>1, <2>2, <2>3 DEF AddressInv
<1> QED BY <1>2, <1>3

(* The data plane ends with a result, and the logout it is followed by ends   *)
(* the session at the gateway.                                               *)
LEMMA ResultKept == ASSUME VpnInv, HsNext PROVE ResultInv'
<1>1. ResultInv
  BY DEF VpnInv
<1>2. CASE Connect \/ Auth \/ ClientInfo \/ NetworkFrame \/ KeyDone \/ ServerDisconnect \/ NewKey
  BY <1>1, <1>2 DEF ResultInv, Early, NoOrphanSession, Connect, Auth, ClientInfo, NetworkFrame, KeyDone,
     ServerDisconnect, NewKey, Fails
<1>3. CASE StartData \/ IcmpProbe \/ TcpProbe \/ HttpGet \/ EndLoop \/ LoopFails
  BY <1>1, <1>3 DEF ResultInv, Early, NoOrphanSession, StartData, IcmpProbe, TcpProbe, HttpGet, ProbeEnds,
     EndLoop, LoopFails
<1>4. CASE Logout
  BY <1>1, <1>4 DEF ResultInv, Early, NoOrphanSession, Logout, LogsOut
<1>5. CASE Shutdown \/ RunFailed \/ ChannelClosed
  BY <1>1, <1>5 DEF ResultInv, Early, NoOrphanSession, Shutdown, RunFailed, ChannelClosed
<1> QED BY <1>2, <1>3, <1>4, <1>5 DEF HsNext

(* How far a session is bounds what it has announced, its addresses come     *)
(* from one frame, and a data plane that ended has a result.                 *)
THEOREM VpnInvariant == VpnSpec => []VpnInv
<1>1. VpnInit => VpnInv
  <2> SUFFICES ASSUME VpnInit PROVE VpnInv
    OBVIOUS
  <2>1. VpnTypes
    BY DEF VpnInit, VpnTypes, Events
  <2>2. EventInv
    BY DEF VpnInit, EventInv, EventOrder, Rank, Reached
  <2>3. AddressInv
    BY DEF VpnInit, AddressInv
  <2>4. ResultInv
    BY DEF VpnInit, ResultInv, Early, NoOrphanSession
  <2> QED BY <2>1, <2>2, <2>3, <2>4 DEF VpnInv
<1>2. VpnInv /\ [HsNext]_hsVars => VpnInv'
  <2>1. ASSUME VpnInv, HsNext PROVE VpnInv'
    <3>1. mode' = mode
      BY <2>1 DEF HsNext, Connect, Auth, ClientInfo, NetworkFrame, KeyDone, ServerDisconnect,
         NewKey, StartData, IcmpProbe, TcpProbe, HttpGet, ProbeEnds, Shutdown, EndLoop, LoopFails,
         Logout, RunFailed, ChannelClosed, Fails, Options
    <3> QED BY <2>1, <3>1, EachEvent, AddressKept, ResultKept DEF VpnInv, VpnTypes
  <2>2. ASSUME VpnInv, UNCHANGED hsVars PROVE VpnInv'
    BY <2>2 DEF VpnInv, VpnTypes, EventInv, EventOrder, Reached, AddressInv, Usable, Needed, ResultInv,
       NoOrphanSession, hsVars
  <2> QED BY <2>1, <2>2
<1> QED BY <1>1, <1>2, PTL DEF VpnSpec

(* The states announced never go back and only "connecting" is repeated, a   *)
(* data plane forwards with the addresses of one SET_IP frame, and a session *)
(* that reached its data plane is logged out unless the logout could not be  *)
(* written: for any sequence of frames and errors (run_hillstone_probe).     *)
THEOREM VpnSessionsAreSound == VpnSpec => []VpnSessionSound
<1>1. VpnInv => VpnSessionSound
  <2> SUFFICES ASSUME VpnInv PROVE LoopHasAddress
    BY DEF VpnInv, EventInv, ResultInv, VpnSessionSound
  <2> QED BY NeededFields DEF VpnInv, VpnTypes, AddressInv, Usable, LoopHasAddress
<1> QED BY <1>1, VpnInvariant, PTL

------------------------------------------------------------------------------
-----------------------------------------------------------------------------
(* The HTTP bridge over ESP, for any number of requests, any responses shorter *)
(* than the sequence space, and a network that keeps every segment for ever.   *)
(*                                                                           *)
(* A port is not given away again while segments to it may arrive, so what   *)
(* matches the port is of the current request; and within one response the   *)
(* sequence number of a byte is its position.                                *)

(* Induction over the numbers, for a set.                                    *)
LEMMA AllNumbers ==
    ASSUME NEW S, 0 \in S, \A n \in Nat : n \in S => n + 1 \in S
    PROVE  Nat \subseteq S
<1> DEFINE T == {n \in Nat : n \notin S}
           Less == {ss \in Nat \X Nat : ss[1] < ss[2]}
<1>1. IsWellFoundedOn(Less, Nat)
  <2>1. OpToRel(<, Nat) = Less
    BY Zenon DEF OpToRel
  <2> QED BY <2>1, NatLessThanWellFounded, Zenon
<1>2. ASSUME T # {} PROVE FALSE
  <2>1. PICK x \in T : \A y \in T : ~ (<<y, x>> \in Less)
    <3>1. T \subseteq Nat
      OBVIOUS
    <3> HIDE DEF T, Less
    <3> QED BY <1>1, <1>2, <3>1, WFMin
  <2>2. x \in Nat /\ x # 0
    OBVIOUS
  <2>3. x - 1 \in Nat /\ <<x - 1, x>> \in Less
    BY <2>2
  <2>4. x - 1 \in S
    BY <2>1, <2>3
  <2>5. (x - 1) + 1 \in S
    BY <2>3, <2>4
  <2> QED BY <2>2, <2>5
<1> QED BY <1>2

(* Numbers modulo m.                                                         *)
LEMMA ModParts ==
    ASSUME NEW x \in Int, NEW m \in Nat \ {0}
    PROVE  \E q \in Int : \E k \in 0..(m - 1) : x % m = k /\ x = m * q + k
<1>1. /\ x % m \in 0..(m - 1)
      /\ x = m * (x \div m) + (x % m)
  OBVIOUS
<1>2. x \div m \in Int
  OBVIOUS
<1> QED BY <1>1, <1>2

LEMMA ModOfParts ==
    ASSUME NEW m \in Nat \ {0}, NEW q \in Int, NEW k \in 0..(m - 1) PROVE (m * q + k) % m = k
OBVIOUS

LEMMA ModAdds ==
    ASSUME NEW x \in Int, NEW n \in Int, NEW m \in Nat \ {0} PROVE ((x % m) + n) % m = (x + n) % m
<1>1. PICK q \in Int : \E k \in 0..(m - 1) : x % m = k /\ x = m * q + k
  BY ModParts
<1>2. PICK k \in 0..(m - 1) : x % m = k /\ x = m * q + k
  BY <1>1
<1>3. PICK y \in Int : y = k + n
  OBVIOUS
<1>4. PICK p \in Int : \E s \in 0..(m - 1) : y % m = s /\ y = m * p + s
  BY ModParts
<1>5. PICK s \in 0..(m - 1) : y % m = s /\ y = m * p + s
  BY <1>4
<1>6. PICK d \in Int : d = q + p
  OBVIOUS
<1>7. x + n = m * d + s
  BY <1>2, <1>3, <1>5, <1>6
<1>8. (m * d + s) % m = s
  BY ModOfParts, Zenon
<1> QED BY <1>2, <1>3, <1>5, <1>7, <1>8

LEMMA ModTells ==
    ASSUME NEW i \in Int, NEW j \in Int, NEW m \in Nat \ {0}, i % m = j % m, i - j < m, j - i < m
    PROVE  i = j
<1>1. PICK q \in Int : \E k \in 0..(m - 1) : i % m = k /\ i = m * q + k
  BY ModParts
<1>2. PICK p \in Int : \E k \in 0..(m - 1) : j % m = k /\ j = m * p + k
  BY ModParts
<1>3. i - j = m * (q - p) /\ j - i = m * (p - q)
  BY <1>1, <1>2
<1>4. \A d \in Int : d >= 1 => m * d >= m
  OBVIOUS
<1>5. ~(q - p >= 1) /\ ~(p - q >= 1)
  BY <1>3, <1>4
<1>6. q = p
  BY <1>5
<1> QED BY <1>3, <1>6

(* The stream of a response and where its bytes are in the sequence space.   *)
Bytes == Requests \X (1..Length)

(* What a connection c holds of the response to r: its first n bytes, and    *)
(* pieces of it that start later or not.                                     *)
Pieces(r, c) ==
    \A e \in c.early : \E i, j \in 0..Length :
        i < j /\ e.seq = SeqAt(r, i) /\ e.payload = Piece(r, i, j)
HoldsOf(r, c, n) == c.data = Piece(r, 0, n) /\ c.serverNext = SeqAt(r, n)
Holds(r, c) == Pieces(r, c) /\ \E n \in 0..Length : HoldsOf(r, c, n)

LEMMA StreamSeq ==
    ASSUME NEW r \in Requests PROVE Stream(r) \in Seq(Bytes) /\ Len(Stream(r)) = Length
<1>1. Length \in Nat
  BY EspAssumption
<1>2. Stream(r) \in [1..Length -> Bytes]
  BY DEF Stream, Bytes
<1>3. Stream(r) \in Seq(Bytes)
  BY <1>1, <1>2, IsASeq
<1> QED BY <1>1, <1>2, <1>3, LenProperties

LEMMA PieceSeq ==
    ASSUME NEW r \in Requests, NEW i \in 0..Length, NEW j \in i..Length
    PROVE  Piece(r, i, j) \in Seq(Bytes) /\ Len(Piece(r, i, j)) = j - i
<1>1. Length \in Nat
  BY EspAssumption
<1>2. \A k \in (i + 1)..j : Stream(r)[k] \in Bytes
  BY <1>1 DEF Stream, Bytes
<1>3. i + 1 \in Int /\ j \in Int
  BY <1>1
<1>4. /\ SubSeq(Stream(r), i + 1, j) \in Seq(Bytes)
      /\ Len(SubSeq(Stream(r), i + 1, j)) = IF i + 1 <= j THEN j - (i + 1) + 1 ELSE 0
  BY <1>2, <1>3, SubSeqProperties
<1> QED BY <1>1, <1>4 DEF Piece

LEMMA PiecesJoin ==
    ASSUME NEW r \in Requests, NEW i \in 0..Length, NEW j \in i..Length
    PROVE  Piece(r, 0, i) \o Piece(r, i, j) = Piece(r, 0, j)
<1>1. Length \in Nat /\ Stream(r) \in Seq(Bytes) /\ Len(Stream(r)) = Length
  BY EspAssumption, StreamSeq
<1>2. 1 \in 1..(Len(Stream(r)) + 1) /\ i \in (1 - 1)..Len(Stream(r)) /\ j \in i..Len(Stream(r))
  BY <1>1
<1>3. SubSeq(Stream(r), 1, i) \o SubSeq(Stream(r), i + 1, j) = SubSeq(Stream(r), 1, j)
  BY <1>1, <1>2, ConcatAdjacentSubSeq
<1>4. 0 + 1 = 1
  OBVIOUS
<1> QED BY <1>3, <1>4 DEF Piece

LEMMA SeqAtMoves ==
    ASSUME NEW r \in Requests, flow[r].isn \in Nat, NEW i \in 0..Length, NEW n \in 0..Length
    PROVE  (SeqAt(r, i) + n) % Mod = SeqAt(r, i + n)
<1>1. Mod \in Nat \ {0} /\ Length \in Nat
  BY EspAssumption
<1>2. PICK x \in Int : x = flow[r].isn + 1 + i
  BY <1>1
<1>3. ((x % Mod) + n) % Mod = (x + n) % Mod
  <2>1. n \in Int
    BY <1>1
  <2> QED BY <1>1, <2>1, ModAdds
<1>4. x + n = flow[r].isn + 1 + (i + n)
  BY <1>1, <1>2
<1> QED BY <1>2, <1>3, <1>4 DEF SeqAt

LEMMA SeqAtTells ==
    ASSUME NEW r \in Requests, flow[r].isn \in Nat, NEW i \in 0..Length, NEW n \in 0..Length,
           SeqAt(r, i) = SeqAt(r, n)
    PROVE  i = n
<1>1. Mod \in Nat \ {0} /\ Length \in Nat /\ Length < Mod
  BY EspAssumption
<1>2. PICK x \in Int : x = flow[r].isn + 1 + i
  BY <1>1
<1>3. PICK y \in Int : y = flow[r].isn + 1 + n
  BY <1>1
<1>4. x % Mod = y % Mod /\ x - y < Mod /\ y - x < Mod
  BY <1>1, <1>2, <1>3 DEF SeqAt
<1>5. x = y
  BY <1>1, <1>4, ModTells
<1> QED BY <1>1, <1>2, <1>3, <1>5

(* A piece that starts where the data ends is appended.                      *)
LEMMA PieceAppended ==
    ASSUME NEW r \in Requests, flow[r].isn \in Nat, NEW c, NEW n \in 0..Length, HoldsOf(r, c, n),
           NEW i \in 0..Length, NEW j \in 0..Length, i < j, SeqAt(r, i) = c.serverNext
    PROVE  /\ c.data \o Piece(r, i, j) = Piece(r, 0, j)
           /\ (c.serverNext + Len(Piece(r, i, j))) % Mod = SeqAt(r, j)
<1>1. i = n
  BY SeqAtTells DEF HoldsOf
<1>2. j \in i..Length /\ j - i \in 0..Length /\ i + (j - i) = j
  BY EspAssumption
<1>3. Len(Piece(r, i, j)) = j - i
  BY <1>2, PieceSeq
<1>4. Piece(r, 0, i) \o Piece(r, i, j) = Piece(r, 0, j)
  BY <1>2, PiecesJoin
<1>5. (SeqAt(r, i) + (j - i)) % Mod = SeqAt(r, i + (j - i))
  BY <1>2, SeqAtMoves
<1> QED BY <1>1, <1>2, <1>3, <1>4, <1>5 DEF HoldsOf

(* A connection is a record with the fields that change while it receives.   *)
Conn == [st : {"idle", "syn", "recv"}, req : Nat, port : Nat, isn : Nat, serverNext : Nat,
         data : Seq(Bytes), early : SUBSET [seq : Nat, payload : Seq(Bytes)]]
Same(c, d) == c.st = d.st /\ c.req = d.req /\ c.port = d.port /\ c.isn = d.isn
Receives(r, c, d) == d \in Conn /\ Same(c, d) /\ Holds(r, d)

LEMMA SeqAtNat ==
    ASSUME NEW r \in Requests, flow[r].isn \in Nat, NEW i \in 0..Length PROVE SeqAt(r, i) \in Nat
<1>1. Mod \in Nat \ {0} /\ Length \in Nat
  BY EspAssumption
<1>2. PICK x \in Int : x = flow[r].isn + 1 + i
  BY <1>1
<1>3. x % Mod \in 0..(Mod - 1)
  BY <1>1, <1>2
<1> QED BY <1>1, <1>2, <1>3 DEF SeqAt

LEMMA ContinuedHolds ==
    ASSUME NEW r \in Requests, flow[r].isn \in Nat, NEW c \in Conn, Holds(r, c)
    PROVE  Receives(r, c, Continued(c))
<1>1. CASE Fits(c) = {}
  BY <1>1 DEF Continued, Receives, Same
<1>2. CASE Fits(c) # {}
  <2>1. PICK e \in c.early : /\ e.seq = c.serverNext
                             /\ Continued(c) = [c EXCEPT !.data = @ \o e.payload,
                                                         !.serverNext = (@ + Len(e.payload)) % Mod,
                                                         !.early = @ \ {e}]
    <3>1. (CHOOSE x \in Fits(c) : TRUE) \in Fits(c)
      BY <1>2
    <3> QED BY <1>2, <3>1 DEF Continued, Fits
  <2>2. PICK i \in 0..Length, j \in 0..Length : i < j /\ e.seq = SeqAt(r, i) /\ e.payload = Piece(r, i, j)
    BY DEF Holds, Pieces
  <2>3. PICK n \in 0..Length : HoldsOf(r, c, n)
    BY DEF Holds
  <2>4. c.data \o e.payload = Piece(r, 0, j) /\ (c.serverNext + Len(e.payload)) % Mod = SeqAt(r, j)
    <3>1. SeqAt(r, i) = c.serverNext /\ i < j
      BY <2>1, <2>2
    <3>2. /\ c.data \o Piece(r, i, j) = Piece(r, 0, j)
          /\ (c.serverNext + Len(Piece(r, i, j))) % Mod = SeqAt(r, j)
      BY <2>3, <3>1, PieceAppended
    <3> QED BY <2>2, <3>2
  <2>5. Piece(r, 0, j) \in Seq(Bytes) /\ SeqAt(r, j) \in Nat
    <3>1. 0 \in 0..Length /\ j \in 0..Length
      BY EspAssumption
    <3> QED BY <3>1, PieceSeq, SeqAtNat
  <2>6. Continued(c) = [c EXCEPT !.data = Piece(r, 0, j), !.serverNext = SeqAt(r, j), !.early = c.early \ {e}]
    BY <2>1, <2>4 DEF Conn
  <2>7. /\ Continued(c) \in Conn /\ Continued(c).data = Piece(r, 0, j) /\ Continued(c).serverNext = SeqAt(r, j)
        /\ Continued(c).early = c.early \ {e} /\ Same(c, Continued(c))
    BY <2>5, <2>6 DEF Conn, Same
  <2>8. HoldsOf(r, Continued(c), j) /\ Pieces(r, Continued(c))
    BY <2>7 DEF HoldsOf, Pieces, Holds
  <2> QED BY <2>2, <2>7, <2>8 DEF Receives, Holds
<1> QED BY <1>1, <1>2

(* The steps of Drained exist, and each holds what the one before held and   *)
(* perhaps a piece more.                                                     *)
DrainSteps(c, m, f) == f = [k \in 0..m |-> IF k = 0 THEN c ELSE Continued(f[k - 1])]

LEMMA StepsExist == ASSUME NEW c, NEW m \in Nat PROVE \E f : DrainSteps(c, m, f)
<1> DEFINE S == {n \in Nat : \E f : DrainSteps(c, n, f)}
<1>1. 0 \in S
  <2>1. DrainSteps(c, 0, [k \in 0..0 |-> c])
    BY DEF DrainSteps
  <2> QED BY <2>1
<1>2. ASSUME NEW n \in Nat, n \in S PROVE n + 1 \in S
  <2>1. PICK f : DrainSteps(c, n, f)
    BY <1>2
  <2> DEFINE g == [k \in 0..(n + 1) |-> IF k = n + 1 THEN Continued(f[n]) ELSE f[k]]
  <2>2. \A k \in 0..(n + 1) : g[k] = IF k = 0 THEN c ELSE Continued(g[k - 1])
    <3> SUFFICES ASSUME NEW k \in 0..(n + 1) PROVE g[k] = IF k = 0 THEN c ELSE Continued(g[k - 1])
      OBVIOUS
    <3>1. CASE k = n + 1
      <4>1. g[k] = Continued(f[n]) /\ k # 0 /\ k - 1 = n /\ n \in 0..(n + 1) /\ n # n + 1
        BY <3>1
      <4>2. g[n] = f[n]
        BY <4>1
      <4> QED BY <4>1, <4>2
    <3>2. CASE k # n + 1
      <4>1. k \in 0..n /\ g[k] = f[k]
        BY <3>2
      <4>2. f[k] = IF k = 0 THEN c ELSE Continued(f[k - 1])
        BY <2>1, <4>1 DEF DrainSteps
      <4>3. k # 0 => k - 1 \in 0..(n + 1) /\ k - 1 # n + 1
        BY <4>1
      <4>4. k # 0 => g[k - 1] = f[k - 1]
        BY <4>3
      <4> QED BY <4>1, <4>2, <4>4
    <3> QED BY <3>1, <3>2
  <2>3. DOMAIN g = 0..(n + 1) /\ g = [k \in 0..(n + 1) |-> g[k]]
    OBVIOUS
  <2> HIDE DEF g
  <2>4. DrainSteps(c, n + 1, g)
    BY <2>2, <2>3 DEF DrainSteps
  <2> QED BY <2>4
<1> HIDE DEF S
<1>3. Nat \subseteq S
  BY <1>1, <1>2, AllNumbers
<1> QED BY <1>3 DEF S

LEMMA DrainedHolds ==
    ASSUME NEW r \in Requests, flow[r].isn \in Nat, NEW c \in Conn, Holds(r, c)
    PROVE  Receives(r, c, Drained(c))
<1>1. Length \in Nat
  BY EspAssumption
<1> DEFINE f == CHOOSE g : DrainSteps(c, Length, g)
<1>2. DrainSteps(c, Length, f)
  BY <1>1, StepsExist
<1>3. Drained(c) = f[Length]
  <2>1. Drained(c) = (CHOOSE g : g = [k \in 0..Length |-> IF k = 0 THEN c ELSE Continued(g[k - 1])])[Length]
    BY Zenon DEF Drained
  <2> QED BY <2>1, Zenon DEF DrainSteps
<1> HIDE DEF f
<1> DEFINE S == {n \in Nat : n <= Length => Receives(r, c, f[n])}
<1>4. 0 \in S
  <2>1. f[0] = c
    BY <1>1, <1>2 DEF DrainSteps
  <2> QED BY <2>1 DEF Receives, Same
<1>5. ASSUME NEW n \in Nat, n \in S PROVE n + 1 \in S
  <2> SUFFICES ASSUME n + 1 <= Length PROVE Receives(r, c, f[n + 1])
    OBVIOUS
  <2>1. Receives(r, c, f[n])
    BY <1>1, <1>5
  <2>2. f[n + 1] = Continued(f[n])
    <3>1. n + 1 \in 0..Length /\ n + 1 # 0 /\ (n + 1) - 1 = n
      BY <1>1
    <3>2. f[n + 1] = Continued(f[(n + 1) - 1])
      BY <1>2, <3>1 DEF DrainSteps
    <3> QED BY <3>1, <3>2
  <2>3. Receives(r, f[n], f[n + 1])
    BY <2>1, <2>2, ContinuedHolds DEF Receives
  <2> QED BY <2>1, <2>3 DEF Receives, Same
<1> HIDE DEF S
<1>6. Length \in S
  BY <1>1, <1>4, <1>5, AllNumbers
<1> QED BY <1>1, <1>3, <1>6 DEF S

(* The invariant.                                                            *)
Flow == [stage : {"none", "syn", "request"}, port : Nat, isn : Nat, client : Nat]
EspTypes ==
    /\ flow \in [Requests -> Flow] /\ conn \in Conn /\ nextPort \in 1..Ports
    /\ outcome \in [Requests -> [st : {"none", "failed", "answered"}, data : Seq(Bytes)]]

(* Requests are served in order, and only accepted ones have a flow.         *)
OrderInv ==
    /\ Served \in 0..MaxRequests
    /\ \A r \in Requests : outcome[r].st # "none" <=> r <= Served
    /\ conn.st # "idle" => Served < MaxRequests /\ conn.req = Served + 1
    /\ \A r \in Requests : flow[r].stage # "none" => r <= Served \/ (conn.st # "idle" /\ r = conn.req)

(* How many ports ago a port was given away.                                 *)
Away(port, next) == IF port < next THEN next - port ELSE next - port + Ports
Behind(port) == Away(port, nextPort)
Accepted == IF conn.st = "idle" THEN Served ELSE Served + 1
PortInv ==
    /\ \A r \in Requests : flow[r].stage # "none" =>
          flow[r].port \in 1..Ports /\ Behind(flow[r].port) <= Accepted
    /\ conn.st # "idle" =>
          /\ conn.port \in 1..Ports /\ Behind(conn.port) <= Accepted
          /\ \A r \in Requests : flow[r].stage # "none" => (flow[r].port = conn.port <=> r = conn.req)

DataInv ==
    /\ conn.st = "recv" => flow[conn.req].stage # "none" /\ Holds(conn.req, conn)
    /\ conn.st = "syn" => conn.data = <<>> /\ conn.early = {}

EspInv == EspTypes /\ OrderInv /\ PortInv /\ DataInv /\ ResponseIsPrefix

(* What a segment says of the flow it belongs to.                            *)
Says(r, p) ==
    /\ flow[r].stage # "none" /\ p.from = flow[r].port
    /\ p.seq \in Nat /\ p.payload \in Seq(Bytes)
    /\ "syn" \in p.flags => p.seq = flow[r].isn
    /\ p.payload # <<>> =>
          \E i, j \in 0..Length : i < j /\ p.seq = SeqAt(r, i) /\ p.payload = Piece(r, i, j)

LEMMA SegmentSays == ASSUME NEW r \in Requests, flow[r] \in Flow, NEW p \in Segments(r) PROVE Says(r, p)
<1>1. flow[r].isn \in Nat /\ Length \in Nat /\ <<>> \in Seq(Bytes)
  BY EspAssumption, EmptySeq DEF Flow
<1>2. flow[r].stage # "none"
  BY DEF Segments
<1>3. CASE p = Segment(r, {"syn"}, flow[r].isn, <<>>) \/ p = Segment(r, {"rst"}, 0, <<>>)
  <2>1. /\ p.from = flow[r].port /\ p.payload = <<>>
        /\ (p.flags = {"syn"} /\ p.seq = flow[r].isn) \/ (p.flags = {"rst"} /\ p.seq = 0)
    BY <1>3 DEF Segment
  <2> QED BY <1>1, <1>2, <2>1 DEF Says
<1>4. CASE p \in Answer(r)
  <2>1. PICK i \in 0..Length, j \in 0..Length, flags \in {{}, {"fin"}} :
             i <= j /\ p = Segment(r, flags, SeqAt(r, i), Piece(r, i, j))
    <3>1. CASE \E t \in {u \in (0..Length) \X (0..Length) : u[1] < u[2]} :
                  p = Segment(r, {}, SeqAt(r, t[1]), Piece(r, t[1], t[2]))
      <4>1. PICK t \in (0..Length) \X (0..Length) :
                  t[1] < t[2] /\ p = Segment(r, {}, SeqAt(r, t[1]), Piece(r, t[1], t[2]))
        BY <3>1
      <4>2. t[1] \in 0..Length /\ t[2] \in 0..Length /\ t[1] <= t[2]
        BY <1>1, <4>1
      <4> QED BY <4>1, <4>2
    <3>2. CASE \E i \in 0..Length : p = Segment(r, {"fin"}, SeqAt(r, i), Piece(r, i, Length))
      <4>1. PICK i \in 0..Length : p = Segment(r, {"fin"}, SeqAt(r, i), Piece(r, i, Length))
        BY <3>2
      <4>2. Length \in 0..Length /\ i <= Length
        BY <1>1
      <4> QED BY <4>1, <4>2
    <3> QED BY <1>4, <3>1, <3>2 DEF Answer
  <2>2. Piece(r, i, j) \in Seq(Bytes) /\ Len(Piece(r, i, j)) = j - i /\ SeqAt(r, i) \in Nat
    <3>1. j \in i..Length
      BY <1>1, <2>1
    <3> QED BY <1>1, <3>1, PieceSeq, SeqAtNat
  <2>3. /\ p.from = flow[r].port /\ p.flags = flags /\ p.seq = SeqAt(r, i) /\ p.payload = Piece(r, i, j)
    BY <2>1 DEF Segment
  <2>4. p.payload # <<>> => i < j
    <3>1. Len(<<>>) = 0
      OBVIOUS
    <3>2. i = j => Len(p.payload) = 0
      BY <1>1, <2>2, <2>3
    <3>3. Len(p.payload) = 0 => p.payload = <<>>
      BY <2>2, <2>3, EmptySeq
    <3> QED BY <1>1, <2>1, <3>2, <3>3
  <2>5. i \in 0..Length /\ j \in 0..Length /\ "syn" \notin flags
    BY <1>1
  <2> QED BY <1>2, <2>2, <2>3, <2>4, <2>5 DEF Says
<1> QED BY <1>2, <1>3, <1>4 DEF Segments

LEMMA TakenHolds ==
    ASSUME EspTypes, NEW r \in Requests, Holds(r, conn), NEW p, Says(r, p)
    PROVE  Receives(r, conn, Taken(p))
<1>1. flow[r].isn \in Nat /\ conn \in Conn
  BY DEF EspTypes, Flow
<1>2. CASE p.payload = <<>> \/ Taken(p) = conn
  <2>1. Taken(p) = conn
    BY <1>2 DEF Taken
  <2> QED BY <1>1, <2>1 DEF Receives, Same
<1>3. CASE p.payload # <<>> /\ p.seq = conn.serverNext
  <2>1. PICK i \in 0..Length, j \in 0..Length : i < j /\ p.seq = SeqAt(r, i) /\ p.payload = Piece(r, i, j)
    BY <1>3 DEF Says
  <2>2. PICK n \in 0..Length : HoldsOf(r, conn, n)
    BY DEF Holds
  <2>3. conn.data \o p.payload = Piece(r, 0, j) /\ (conn.serverNext + Len(p.payload)) % Mod = SeqAt(r, j)
    <3>1. SeqAt(r, i) = conn.serverNext /\ i < j
      BY <1>3, <2>1
    <3>2. /\ conn.data \o Piece(r, i, j) = Piece(r, 0, j)
          /\ (conn.serverNext + Len(Piece(r, i, j))) % Mod = SeqAt(r, j)
      BY <1>1, <2>2, <3>1, PieceAppended
    <3> QED BY <2>1, <3>2
  <2> DEFINE c == [conn EXCEPT !.data = conn.data \o p.payload,
                               !.serverNext = (conn.serverNext + Len(p.payload)) % Mod]
  <2>4. Piece(r, 0, j) \in Seq(Bytes) /\ SeqAt(r, j) \in Nat
    <3>1. 0 \in 0..Length /\ j \in 0..Length
      BY EspAssumption
    <3> QED BY <1>1, <3>1, PieceSeq, SeqAtNat
  <2>5. /\ c \in Conn /\ Same(conn, c) /\ c.data = Piece(r, 0, j) /\ c.serverNext = SeqAt(r, j)
        /\ c.early = conn.early
    BY <1>1, <2>3, <2>4 DEF Conn, Same
  <2>6. Taken(p) = Drained(c)
    BY <1>1, <1>3, Zenon DEF Taken
  <2> HIDE DEF c
  <2>7. Holds(r, c)
    BY <2>5 DEF Holds, HoldsOf, Pieces
  <2>8. Receives(r, c, Drained(c))
    BY <1>1, <2>5, <2>7, DrainedHolds
  <2> QED BY <2>5, <2>6, <2>8 DEF Receives, Same
<1>4. CASE p.payload # <<>> /\ p.seq # conn.serverNext /\ Taken(p) # conn
  <2>1. PICK i \in 0..Length, j \in 0..Length : i < j /\ p.seq = SeqAt(r, i) /\ p.payload = Piece(r, i, j)
    BY <1>4 DEF Says
  <2> DEFINE kept == conn.early \cup {[seq |-> p.seq, payload |-> p.payload]}
  <2>2. Taken(p) = [conn EXCEPT !.early = kept]
    BY <1>4, Zenon DEF Taken
  <2>3. kept \subseteq [seq : Nat, payload : Seq(Bytes)]
    <3>1. [seq |-> p.seq, payload |-> p.payload] \in [seq : Nat, payload : Seq(Bytes)]
      BY DEF Says
    <3> QED BY <1>1, <3>1 DEF Conn
  <2>7. \A e \in kept : e \in conn.early \/ (e.seq = p.seq /\ e.payload = p.payload)
    OBVIOUS
  <2> HIDE DEF kept
  <2>4. /\ Taken(p) \in Conn /\ Same(conn, Taken(p)) /\ Taken(p).data = conn.data
        /\ Taken(p).serverNext = conn.serverNext
        /\ Taken(p).early = kept
    BY <1>1, <2>2, <2>3 DEF Conn, Same
  <2>5. Pieces(r, Taken(p))
    <3>1. Pieces(r, conn)
      BY DEF Holds
    <3>2. \A e \in Taken(p).early : e \in conn.early \/ (e.seq = p.seq /\ e.payload = p.payload)
      BY <2>4, <2>7
    <3> QED BY <2>1, <3>1, <3>2 DEF Pieces
  <2>6. \E n \in 0..Length : HoldsOf(r, Taken(p), n)
    BY <2>4 DEF Holds, HoldsOf
  <2> QED BY <2>4, <2>5, <2>6 DEF Receives, Holds
<1> QED BY <1>2, <1>3, <1>4

(* Requests are served one after the other.                                  *)
LEMMA ServedIs ==
    ASSUME NEW n \in 0..MaxRequests, \A r \in Requests : outcome[r].st # "none" <=> r <= n
    PROVE  Served = n
<1>1. MaxRequests \in Nat
  BY EspAssumption
<1>2. {r \in Requests : outcome[r].st # "none"} = 1..n
  BY <1>1 DEF Requests
<1>3. Cardinality(1..n) = n
  BY <1>1, FS_Interval
<1> QED BY <1>2, <1>3 DEF Served

LEMMA Numbers == MaxRequests \in Nat /\ Ports \in Nat \ {0} /\ MaxRequests <= Ports
BY EspAssumption

LEMMA NoConnTyped == NoConn \in Conn /\ NoConn.st = "idle"
BY EmptySeq DEF NoConn, Conn

(* A request ends: with an outcome that is a prefix of its answer.           *)
LEMMA RequestEnds ==
    ASSUME EspInv, NEW r \in Requests, r = Served + 1, NEW st \in {"failed", "answered"},
           NEW data \in Seq(Bytes), st = "answered" => data = SubSeq(Stream(r), 1, Len(data)),
           outcome' = [outcome EXCEPT ![r] = [st |-> st, data |-> data]], conn' \in Conn,
           conn'.st = "idle", Accepted = Served \/ Accepted = Served + 1, UNCHANGED <<flow, nextPort>>
    PROVE  EspInv'
<1>1. Served \in Nat /\ Served + 1 \in 0..MaxRequests
  BY Numbers DEF EspInv, OrderInv, Requests
<1>2. /\ outcome' \in [Requests -> [st : {"none", "failed", "answered"}, data : Seq(Bytes)]]
      /\ outcome'[r].st = st /\ outcome'[r].data = data
      /\ \A q \in Requests : q # r => outcome'[q] = outcome[q]
  BY DEF EspInv, EspTypes
<1>3. \A q \in Requests : outcome'[q].st # "none" <=> q <= Served + 1
  BY <1>1, <1>2 DEF EspInv, OrderInv, Requests
<1>4. Served' = Served + 1
  <2>1. ASSUME NEW n \in 0..MaxRequests, \A q \in Requests : outcome'[q].st # "none" <=> q <= n
        PROVE  Served' = n
    <3>1. MaxRequests \in Nat
      BY EspAssumption
    <3>2. {q \in Requests : outcome'[q].st # "none"} = 1..n
      BY <2>1, <3>1 DEF Requests
    <3>3. Cardinality(1..n) = n
      BY <3>1, FS_Interval
    <3> QED BY <3>2, <3>3 DEF Served
  <2> QED BY <1>1, <1>3, <2>1
<1>5. EspTypes'
  BY <1>2 DEF EspInv, EspTypes
<1>6. OrderInv'
  BY <1>1, <1>3, <1>4 DEF EspInv, OrderInv, Requests
<1>7. PortInv'
  <2>1. Accepted' = Served + 1 /\ Accepted <= Served + 1
    BY <1>1, <1>4 DEF Accepted
  <2>2. \A q \in Requests : flow[q].stage # "none" => flow[q].port \in 1..Ports /\ Behind(flow[q].port) <= Accepted
    BY DEF EspInv, PortInv
  <2>3. \A q \in Requests : flow[q].stage # "none" => Behind(flow[q].port) \in Int
    BY <2>2, Numbers DEF Behind, Away, EspInv, EspTypes
  <2> QED BY <1>1, <2>1, <2>2, <2>3 DEF PortInv, Behind, Accepted
<1>8. DataInv'
  BY DEF DataInv
<1>9. ResponseIsPrefix'
  BY <1>2 DEF EspInv, ResponseIsPrefix, Stream
<1> QED BY <1>5, <1>6, <1>7, <1>8, <1>9 DEF EspInv

LEMMA ReturnsKept ==
    ASSUME EspInv, conn.st \in {"syn", "recv"}, NEW st \in {"failed", "answered"}, NEW data,
           Returns(st, data), UNCHANGED <<flow, nextPort>>,
           IF st = "failed" THEN data = <<>> ELSE \E n \in 0..Length : data = Piece(conn.req, 0, n)
    PROVE  EspInv'
<1>1. conn.req \in Requests /\ conn.req = Served + 1 /\ Accepted = Served + 1
  BY Numbers DEF EspInv, OrderInv, Requests, Accepted
<1>2. data \in Seq(Bytes) /\ (st = "answered" => data = SubSeq(Stream(conn.req), 1, Len(data)))
  <2>1. CASE st = "failed"
    BY <2>1, EmptySeq
  <2>2. CASE st = "answered"
    <3>1. PICK n \in 0..Length : data = Piece(conn.req, 0, n)
      BY <2>2
    <3>2. 0 \in 0..Length /\ n \in 0..Length /\ n \in Nat /\ n - 0 = n
      BY EspAssumption
    <3>3. data \in Seq(Bytes) /\ Len(data) = n
      BY <1>1, <3>1, <3>2, PieceSeq
    <3>4. 0 + 1 = 1
      OBVIOUS
    <3> QED BY <3>1, <3>3, <3>4 DEF Piece
  <2> QED BY <2>1, <2>2
<1>3. outcome' = [outcome EXCEPT ![conn.req] = [st |-> st, data |-> data]] /\ conn' = NoConn
  BY DEF Returns
<1> QED BY <1>1, <1>2, <1>3, NoConnTyped, RequestEnds

LEMMA RejectKept == ASSUME EspInv, Reject PROVE EspInv'
<1>1. /\ conn.st = "idle" /\ Served + 1 \in Requests /\ Accepted = Served
  BY Numbers DEF Reject, EspInv, OrderInv, Requests, Accepted
<1> DEFINE r == Served + 1
<1>2. outcome[r].data \in Seq(Bytes)
  BY <1>1 DEF EspInv, EspTypes
<1>3. outcome' = [outcome EXCEPT ![r] = [st |-> "failed", data |-> outcome[r].data]]
  <2>1. outcome' = [outcome EXCEPT ![r] = [outcome[r] EXCEPT !.st = "failed"]]
    BY <1>1 DEF Reject, EspInv, EspTypes
  <2>2. [outcome[r] EXCEPT !.st = "failed"] = [st |-> "failed", data |-> outcome[r].data]
    BY <1>1 DEF EspInv, EspTypes
  <2> QED BY <2>1, <2>2
<1>4. UNCHANGED <<flow, conn, nextPort>> /\ conn \in Conn
  BY DEF Reject, EspInv, EspTypes
<1> HIDE DEF r
<1>5. r \in Requests /\ r = Served + 1
  BY <1>1 DEF r
<1> QED BY <1>1, <1>2, <1>3, <1>4, <1>5, RequestEnds

(* A new connection has a port that no segment under way is for.             *)
LEMMA AcceptKept == ASSUME EspInv, NEW isn \in Isns, Accept(isn) PROVE EspInv'
<1>1. /\ conn.st = "idle" /\ Served \in Nat /\ Served < MaxRequests /\ Accepted = Served
      /\ conn' = [NoConn EXCEPT !.st = "syn", !.req = Served + 1, !.port = nextPort, !.isn = isn]
      /\ nextPort' = PortAfter(nextPort) /\ UNCHANGED <<flow, outcome>> /\ nextPort \in 1..Ports
      /\ isn \in Nat
  BY Numbers, EspAssumption DEF Accept, EspInv, OrderInv, EspTypes, Accepted
<1> DEFINE old == nextPort
           now == PortAfter(nextPort)
<1>2. /\ conn' \in Conn /\ conn'.st = "syn" /\ conn'.req = Served + 1 /\ conn'.port = nextPort
      /\ conn'.data = <<>> /\ conn'.early = {}
  <2>1. Served + 1 \in Nat /\ nextPort \in Nat /\ isn \in Nat /\ <<>> \in Seq(Bytes)
    BY <1>1, Numbers, EmptySeq
  <2>2. conn' = [st |-> "syn", req |-> Served + 1, port |-> nextPort, isn |-> isn, serverNext |-> 0,
                 data |-> <<>>, early |-> {}]
    BY <1>1 DEF NoConn
  <2> QED BY <2>1, <2>2 DEF Conn
<1>3. Served' = Served /\ Accepted' = Served + 1
  <2>1. Served' = Served
    BY <1>1 DEF Served
  <2> QED BY <1>2, <2>1 DEF Accepted
<1>4. /\ now \in 1..Ports
      /\ \A port \in 1..Ports : port # old => Away(port, now) = Away(port, old) + 1
      /\ Away(old, now) = 1 /\ Away(old, old) = Ports
  BY <1>1, Numbers DEF PortAfter, Away
<1>5. ASSUME NEW r \in Requests, flow[r].stage # "none"
      PROVE  /\ flow[r].port \in 1..Ports /\ flow[r].port # old /\ Away(flow[r].port, now) <= Served + 1
             /\ r # Served + 1
  <2>1. flow[r].port \in 1..Ports /\ Away(flow[r].port, old) <= Served /\ r <= Served
    BY <1>1, <1>5 DEF EspInv, PortInv, OrderInv, Behind
  <2>2. flow[r].port # old
    BY <1>1, <1>4, <2>1, Numbers
  <2>3. Away(flow[r].port, now) = Away(flow[r].port, old) + 1 /\ Away(flow[r].port, old) \in Int
    <3>1. Away(flow[r].port, old) \in Int
      BY <1>1, <2>1, Numbers DEF Away
    <3> QED BY <1>4, <2>1, <2>2, <3>1
  <2> QED BY <1>1, <2>1, <2>2, <2>3, Numbers DEF Requests
<1>6. EspTypes'
  BY <1>1, <1>2, <1>4 DEF EspInv, EspTypes
<1>7. OrderInv'
  BY <1>1, <1>2, <1>3 DEF EspInv, OrderInv
<1>10. nextPort' = now /\ conn'.port = old /\ old \in 1..Ports
  BY <1>1, <1>2
<1> HIDE DEF now, old
<1>8. PortInv'
  <2>2. \A r \in Requests : flow'[r].stage # "none" =>
            flow'[r].port \in 1..Ports /\ Away(flow'[r].port, nextPort') <= Accepted'
    BY <1>1, <1>3, <1>5, <1>10
  <2>3. conn'.port \in 1..Ports /\ Away(conn'.port, nextPort') <= Accepted'
    BY <1>1, <1>3, <1>4, <1>10
  <2>4. \A r \in Requests : flow'[r].stage # "none" => flow'[r].port # conn'.port /\ r # conn'.req
    BY <1>1, <1>2, <1>5, <1>10
  <2> QED BY <2>2, <2>3, <2>4 DEF PortInv, Behind
<1>9. DataInv' /\ ResponseIsPrefix'
  BY <1>1, <1>2 DEF EspInv, DataInv, ResponseIsPrefix, Stream
<1> QED BY <1>6, <1>7, <1>8, <1>9 DEF EspInv

(* What the servers do moves no data.                                        *)
LEMMA SynArrivesKept == ASSUME EspInv, NEW isn \in Isns, SynArrives(isn) PROVE EspInv'
<1> DEFINE q == conn.req
           f == [stage |-> "syn", port |-> conn.port, isn |-> isn, client |-> conn.isn]
<1>1. /\ conn.st = "syn" /\ q \in Requests /\ Accepted = Served + 1 /\ f \in Flow
      /\ flow' = [flow EXCEPT ![q] = f] /\ UNCHANGED <<conn, outcome, nextPort>>
      /\ conn.port \in 1..Ports /\ Behind(conn.port) <= Accepted
  <2>1. /\ conn.st = "syn" /\ UNCHANGED <<conn, outcome, nextPort>>
        /\ flow' = [flow EXCEPT ![q] = f]
    BY DEF SynArrives
  <2>2. q = Served + 1 /\ Served \in Nat /\ Served < MaxRequests
    BY <2>1, Numbers DEF EspInv, OrderInv
  <2>3. q \in Requests /\ Accepted = Served + 1
    BY <2>1, <2>2, Numbers DEF Requests, Accepted
  <2>4. conn.port \in Nat /\ conn.isn \in Nat /\ isn \in Nat
    BY EspAssumption DEF EspInv, EspTypes, Conn
  <2>5. conn.port \in 1..Ports /\ Behind(conn.port) <= Accepted
    BY <2>1 DEF EspInv, PortInv
  <2> QED BY <2>1, <2>3, <2>4, <2>5 DEF Flow
<1>2. /\ flow' \in [Requests -> Flow] /\ flow'[q] = f /\ flow'[q].port = conn.port
      /\ \A r \in Requests : r # q => flow'[r] = flow[r]
  BY <1>1 DEF EspInv, EspTypes
<1> HIDE DEF f
<1>3. EspTypes' /\ Served' = Served /\ Accepted' = Accepted
  BY <1>1, <1>2 DEF EspInv, EspTypes, Served, Accepted
<1>4. OrderInv'
  BY <1>1, <1>2, <1>3 DEF EspInv, OrderInv
<1>5. PortInv'
  BY <1>1, <1>2, <1>3 DEF EspInv, PortInv, Behind
<1>6. DataInv' /\ ResponseIsPrefix'
  BY <1>1 DEF EspInv, DataInv, ResponseIsPrefix, Stream
<1> QED BY <1>3, <1>4, <1>5, <1>6 DEF EspInv

LEMMA RequestArrivesKept == ASSUME EspInv, RequestArrives PROVE EspInv'
<1> DEFINE q == conn.req
<1>1. /\ conn.st = "recv" /\ q \in Requests /\ flow[q] \in Flow /\ flow[q].stage = "syn"
      /\ flow' = [flow EXCEPT ![q] = [flow[q] EXCEPT !.stage = "request"]]
      /\ UNCHANGED <<conn, outcome, nextPort>>
  BY Numbers DEF RequestArrives, EspInv, EspTypes, OrderInv, Requests
<1>2. /\ flow' \in [Requests -> Flow]
      /\ \A r \in Requests : /\ flow'[r].port = flow[r].port /\ flow'[r].isn = flow[r].isn
                             /\ flow'[r].stage # "none" <=> flow[r].stage # "none"
  BY <1>1 DEF EspInv, EspTypes, Flow
<1>3. EspTypes' /\ Served' = Served /\ Accepted' = Accepted
  BY <1>1, <1>2 DEF EspInv, EspTypes, Served, Accepted
<1>4. OrderInv' /\ PortInv'
  BY <1>1, <1>2, <1>3 DEF EspInv, OrderInv, PortInv, Behind
<1>5. DataInv'
  <2>1. \A i : SeqAt(q, i)' = SeqAt(q, i)
    BY <1>1, <1>2 DEF SeqAt
  <2>2. \A i, j : Piece(q, i, j)' = Piece(q, i, j)
    BY <1>1 DEF Piece, Stream
  <2>3. Holds(q, conn)
    BY <1>1 DEF EspInv, DataInv
  <2>4. Pieces(q, conn)'
    BY <1>1, <2>1, <2>2, <2>3 DEF Holds, Pieces
  <2>5. (\E n \in 0..Length : HoldsOf(q, conn, n))'
    BY <1>1, <2>1, <2>2, <2>3 DEF Holds, HoldsOf
  <2>6. Holds(q, conn)'
    BY <2>4, <2>5 DEF Holds
  <2> QED BY <1>1, <1>2, <2>6 DEF EspInv, DataInv
<1>6. ResponseIsPrefix'
  BY <1>1 DEF EspInv, ResponseIsPrefix, Stream
<1> QED BY <1>3, <1>4, <1>5, <1>6 DEF EspInv


(* The connection moves on by what it receives.                              *)
LEMMA ConnMoves ==
    ASSUME EspInv, conn.st \in {"syn", "recv"}, conn' \in Conn, conn'.st = "recv", conn'.req = conn.req,
           conn'.port = conn.port, flow[conn.req].stage # "none", Holds(conn.req, conn'),
           UNCHANGED <<flow, outcome, nextPort>>
    PROVE  EspInv'
<1>1. Served' = Served /\ Accepted' = Accepted
  BY DEF Served, Accepted
<1>2. EspTypes' /\ OrderInv'
  BY <1>1 DEF EspInv, EspTypes, OrderInv
<1>3. PortInv'
  BY <1>1 DEF EspInv, PortInv, Behind
<1>4. DataInv'
  <2>1. \A i : SeqAt(conn.req, i)' = SeqAt(conn.req, i)
    BY DEF SeqAt
  <2>2. \A i, j : Piece(conn.req, i, j)' = Piece(conn.req, i, j)
    BY DEF Piece, Stream
  <2>3. Pieces(conn.req, conn)'
    BY <2>1, <2>2 DEF Holds, Pieces
  <2>4. (\E n \in 0..Length : HoldsOf(conn.req, conn, n))'
    BY <2>1, <2>2 DEF Holds, HoldsOf
  <2>5. Holds(conn.req, conn)'
    BY <2>3, <2>4 DEF Holds
  <2> QED BY <2>5 DEF DataInv
<1>5. ResponseIsPrefix'
  BY DEF EspInv, ResponseIsPrefix, Stream
<1> QED BY <1>2, <1>3, <1>4, <1>5 DEF EspInv

(* A segment for the current port is of the current request.                 *)
LEMMA OwnSegment ==
    ASSUME EspInv, conn.st \in {"syn", "recv"}, NEW r \in Requests, NEW p \in Segments(r), OfThisPort(p)
    PROVE  r = conn.req /\ Says(r, p)
<1>1. flow[r] \in Flow
  BY DEF EspInv, EspTypes
<1>2. Says(r, p)
  BY <1>1, SegmentSays
<1>3. flow[r].stage # "none" /\ flow[r].port = conn.port
  BY <1>2 DEF Says, OfThisPort
<1> QED BY <1>2, <1>3 DEF EspInv, PortInv

LEMMA HandshakeKept ==
    ASSUME EspInv, NEW r \in Requests, NEW p \in Segments(r), Handshake(p) PROVE EspInv'
<1>1. conn.st = "syn" /\ OfThisPort(p) /\ UNCHANGED <<flow, nextPort>>
  BY DEF Handshake
<1>2. r = conn.req /\ Says(r, p) /\ flow[r] \in Flow /\ conn \in Conn
  BY <1>1, OwnSegment DEF EspInv, EspTypes
<1>3. CASE Returns("failed", <<>>)
  BY <1>1, <1>3, ReturnsKept
<1>4. CASE Opens(p) /\ conn' = [conn EXCEPT !.st = "recv", !.serverNext = (p.seq + 1) % Mod] /\ UNCHANGED outcome
  <2>1. 0 \in 0..Length /\ flow[r].isn \in Nat
    BY <1>2, EspAssumption DEF Flow
  <2>2. (p.seq + 1) % Mod = SeqAt(r, 0) /\ SeqAt(r, 0) \in Nat
    <3>1. p.seq = flow[r].isn
      BY <1>2, <1>4 DEF Opens, Says
    <3>2. p.seq + 1 = flow[r].isn + 1 + 0
      BY <2>1, <3>1
    <3> QED BY <2>1, <3>2, SeqAtNat DEF SeqAt
  <2>3. /\ conn' \in Conn /\ conn'.st = "recv" /\ conn'.req = conn.req /\ conn'.port = conn.port
        /\ conn'.serverNext = SeqAt(r, 0) /\ conn'.data = conn.data /\ conn'.early = conn.early
    BY <1>2, <1>4, <2>2 DEF Conn
  <2>4. conn.data = <<>> /\ conn.early = {}
    BY <1>1 DEF EspInv, DataInv
  <2>5. Piece(r, 0, 0) = <<>>
    <3>1. 0 \in 0..0 /\ 0 - 0 = 0
      OBVIOUS
    <3>2. Piece(r, 0, 0) \in Seq(Bytes) /\ Len(Piece(r, 0, 0)) = 0
      BY <2>1, <3>1, PieceSeq
    <3> QED BY <3>2, EmptySeq
  <2>6. Holds(r, conn')
    BY <2>1, <2>3, <2>4, <2>5 DEF Holds, HoldsOf, Pieces
  <2>7. flow[r].stage # "none"
    BY <1>2 DEF Says
  <2> QED BY <1>1, <1>2, <1>4, <2>3, <2>6, <2>7, ConnMoves
<1> QED BY <1>3, <1>4 DEF Handshake

LEMMA ResponseKept ==
    ASSUME EspInv, NEW r \in Requests, NEW p \in Segments(r), Response(p) PROVE EspInv'
<1>1. conn.st = "recv" /\ OfThisPort(p) /\ UNCHANGED <<flow, nextPort>>
  BY DEF Response
<1>2. r = conn.req /\ Says(r, p)
  BY <1>1, OwnSegment
<1>3. Receives(r, conn, Taken(p))
  BY <1>1, <1>2, TakenHolds DEF EspInv, DataInv
<1>4. CASE Returns("failed", <<>>)
  BY <1>1, <1>4, ReturnsKept
<1>5. CASE Returns("answered", Taken(p).data)
  <2>1. \E n \in 0..Length : Taken(p).data = Piece(conn.req, 0, n)
    BY <1>2, <1>3 DEF Receives, Holds, HoldsOf
  <2> QED BY <1>1, <1>5, <2>1, ReturnsKept
<1>6. CASE conn' = Taken(p) /\ UNCHANGED outcome
  BY <1>1, <1>2, <1>3, <1>6, ConnMoves DEF Receives, Same, Says
<1> QED BY <1>4, <1>5, <1>6 DEF Response

LEMMA EndsKept == ASSUME EspInv, TimesOut \/ Garbage PROVE EspInv'
<1>1. conn.st \in {"syn", "recv"} /\ UNCHANGED <<flow, nextPort>>
  BY DEF TimesOut, Garbage
<1>2. CASE Returns("failed", <<>>)
  BY <1>1, <1>2, ReturnsKept
<1>3. CASE conn.st = "recv" /\ Returns("answered", conn.data)
  <2>1. \E n \in 0..Length : conn.data = Piece(conn.req, 0, n)
    BY <1>3 DEF EspInv, DataInv, Holds, HoldsOf
  <2> QED BY <1>1, <1>3, <2>1, ReturnsKept
<1> QED BY <1>2, <1>3 DEF TimesOut, Garbage

LEMMA BridgeBegins == ASSUME EspInit PROVE EspInv
<1>1. Served = 0
  <2>1. 0 \in 0..MaxRequests /\ \A r \in Requests : outcome[r].st # "none" <=> r <= 0
    BY Numbers DEF EspInit, Requests
  <2> QED BY <2>1, ServedIs
<1>2. conn \in Conn /\ conn.st = "idle"
  BY NoConnTyped DEF EspInit
<1>3. \A r \in Requests : flow[r] = NoFlow /\ flow[r].stage = "none" /\ outcome[r].st = "none"
  BY DEF EspInit, NoFlow
<1>4. EspTypes
  <2>1. NoFlow \in Flow
    BY DEF NoFlow, Flow
  <2>2. [st |-> "none", data |-> <<>>] \in [st : {"none", "failed", "answered"}, data : Seq(Bytes)]
    BY EmptySeq
  <2> QED BY <1>2, <2>1, <2>2 DEF EspInit, EspTypes
<1>5. OrderInv
  BY <1>1, <1>2, <1>3, Numbers DEF OrderInv, Requests
<1>6. PortInv /\ DataInv /\ ResponseIsPrefix
  BY <1>2, <1>3 DEF PortInv, DataInv, ResponseIsPrefix
<1> QED BY <1>4, <1>5, <1>6 DEF EspInv

LEMMA BridgeStutters == ASSUME EspInv, UNCHANGED espVars PROVE EspInv'
<1>1. Served' = Served /\ Accepted' = Accepted
  BY DEF espVars, Served, Accepted
<1>2. EspTypes' /\ OrderInv'
  BY <1>1 DEF espVars, EspInv, EspTypes, OrderInv
<1>3. PortInv'
  BY <1>1 DEF espVars, EspInv, PortInv, Behind
<1>4. DataInv'
  BY DEF espVars, EspInv, DataInv, Holds, HoldsOf, Pieces, SeqAt, Piece, Stream
<1>5. ResponseIsPrefix'
  BY DEF espVars, EspInv, ResponseIsPrefix, Stream
<1> QED BY <1>2, <1>3, <1>4, <1>5 DEF EspInv

(* The bridge keeps its invariant (tcp_handshake_over_esp,                   *)
(* recv_http_response_over_esp): ports under way are told apart, and what is *)
(* held of a response is its first bytes, with pieces of it that came early. *)
THEOREM BridgeInvariant == EspSpec => []EspInv
<1>1. ASSUME EspInv, EspNext PROVE EspInv'
  BY <1>1, AcceptKept, SynArrivesKept, RejectKept, RequestArrivesKept, EndsKept, HandshakeKept, ResponseKept
     DEF EspNext
<1>2. EspInv /\ [EspNext]_espVars => EspInv'
  BY <1>1, BridgeStutters
<1> QED BY <1>2, BridgeBegins, PTL DEF EspSpec

(* Whatever is lost, repeated, delayed or reordered, the browser is given a  *)
(* prefix of the answer to its own request, and the acknowledgement number   *)
(* stands for exactly the bytes delivered.                                   *)
THEOREM BridgesAreExact == EspSpec => []BridgeExact
<1>1. ASSUME EspInv PROVE BridgeExact
  <2>1. ASSUME conn.st = "recv" PROVE conn.serverNext = (flow[conn.req].isn + 1 + Len(conn.data)) % Mod
    <3>1. conn.req \in Requests
      BY <1>1, <2>1, Numbers DEF EspInv, OrderInv, Requests
    <3>2. PICK n \in 0..Length : conn.data = Piece(conn.req, 0, n) /\ conn.serverNext = SeqAt(conn.req, n)
      BY <1>1, <2>1 DEF EspInv, DataInv, Holds, HoldsOf
    <3>3. 0 \in 0..Length /\ n \in 0..Length /\ n - 0 = n
      BY EspAssumption
    <3>4. Len(conn.data) = n
      BY <3>1, <3>2, <3>3, PieceSeq
    <3> QED BY <3>2, <3>4 DEF SeqAt
  <2> QED BY <1>1, <2>1 DEF EspInv, BridgeExact, AckIsHeld
<1> QED BY <1>1, BridgeInvariant, PTL

(***************************************************************************)
(* The TUN helpers.  What is said over the two pipes and what it means for *)
(* the device, the guard that owns resolver files, and the files.          *)
(***************************************************************************)
ClientRecord == [st : {"none", "wait_ready", "idle", "up", "stopping", "dropping", "wait_stopped"},
          pid : 0..MaxHelpers, session : Nat, fresh : BOOLEAN]
HelperRecord == [st : {"unborn", "running", "dead"}, ctx : Nat, new : Nat, todo : Seq(Paths), held : Seq(Paths),
            phase : {"idle", "inspect", "create", "write", "undo"},
            then : {"none", "Error", "Stopped", "exit"}, reader : BOOLEAN]
TunFiles == {NoFile, UserFile} \cup {Owned(p) : p \in HelperPids} \cup {Empty(p) : p \in HelperPids}
TunAnswers == {"Ready", "Stopped", "Error", "Packet"}
TunCommands == {c \in [op : {"Start", "Packet", "Reset", "Stop"}, session : Nat] : c.op = "Start" => c.session # 0}
TunType ==
    /\ clients \in [Clients -> ClientRecord] /\ helper \in [HelperPids -> HelperRecord]
    /\ commands \in [HelperPids -> Seq(TunCommands)] /\ answers \in [HelperPids -> Seq(TunAnswers)]
    /\ files \in [Paths -> TunFiles]
    /\ alive \subseteq HelperPids /\ killed \subseteq HelperPids /\ sessions \in Nat

\* Pids are given out in turn; a helper that was not started has said nothing.
Born == {p \in HelperPids : helper[p].st # "unborn"}
BirthInv ==
    /\ \E k \in 0..MaxHelpers : Born = 1..k
    /\ \A p \in HelperPids \ Born : helper[p] = Unborn /\ answers[p] = <<>> /\ p \notin killed
    /\ \A p \in HelperPids : Running(p) => p \in alive

\* A client has a helper of its own.
ClientInv ==
    /\ \A s \in Clients : IF clients[s].st = "none" THEN clients[s].pid = 0
                          ELSE clients[s].pid \in Born /\ clients[s].session # 0
    /\ \A s, t \in Clients : s # t /\ clients[s].pid = clients[t].pid => clients[s].pid = 0

\* The guard holds the first names, and what is to be installed are the rest.
Guarded(h) ==
    /\ Len(h.held) <= NumNames /\ \A i \in 1..Len(h.held) : h.held[i] = i
    /\ h.phase \in {"inspect", "create", "write"} =>
          /\ Len(h.todo) = NumNames - Len(h.held) /\ h.new # 0
          /\ \A i \in 1..Len(h.todo) : h.todo[i] = Len(h.held) + i
    /\ h.phase \in {"create", "write"} => Len(h.held) < NumNames
    /\ h.phase = "idle" => Len(h.held) = IF h.ctx = 0 THEN 0 ELSE NumNames
    /\ h.phase = "undo" => h.then # "none"
GuardInv == \A p \in HelperPids : Running(p) => Guarded(helper[p])

\* The files of a running helper are those its guard holds, and the one it writes.
Backed(p) ==
    /\ \A i \in 1..Len(helper[p].held) : files[i] \in {Owned(p), UserFile}
    /\ helper[p].phase = "write" => files[Len(helper[p].held) + 1] = Empty(p)
    /\ \A n \in Paths : files[n].pid = p =>
          \/ n <= Len(helper[p].held)
          \/ helper[p].phase = "write" /\ n = Len(helper[p].held) + 1
FileInv == NothingLeft /\ \A p \in HelperPids : Running(p) => Backed(p)

Never(p, a) == \A i \in 1..Len(answers[p]) : answers[p][i] # a
Does(p, phases) == helper[p].phase \in phases

\* What has been said between a client and its running helper and is still to be said.
Starts(p, k) ==
    /\ Never(p, "Stopped")
    /\ \/ /\ Does(p, {"idle"}) /\ helper[p].ctx = 0 /\ Never(p, "Ready")
          /\ commands[p] \in {<<>>, <<Command("Start", k)>>}
       \/ Does(p, {"inspect", "create", "write"}) /\ helper[p].new = k /\ commands[p] = <<>> /\ Never(p, "Ready")
       \/ Does(p, {"undo"}) /\ helper[p].then = "Error" /\ commands[p] = <<>> /\ Never(p, "Ready")
       \/ Does(p, {"idle"}) /\ helper[p].ctx = k /\ commands[p] = <<>>
ServesNow(p, k) ==
    /\ Does(p, {"idle"}) /\ helper[p].ctx = k /\ Never(p, "Stopped")
    /\ \A i \in 1..Len(commands[p]) : commands[p][i].op = "Packet"
ResetComes(p) ==
    /\ Never(p, "Stopped") /\ commands[p] # <<>>
    /\ \A i \in 1..Len(commands[p]) :
          IF i = Len(commands[p]) THEN commands[p][i].op = "Reset" ELSE commands[p][i].op \in {"Start", "Packet"}
    /\ Does(p, {"undo"}) => helper[p].then = "Error"
ResetGoes(p) ==
    /\ Never(p, "Stopped") /\ commands[p] = <<>> /\ ~helper[p].reader
    /\ Does(p, {"undo"}) /\ helper[p].then = "Stopped"
Rests(p) == Does(p, {"idle"}) /\ helper[p].ctx = 0 /\ commands[p] = <<>> /\ ~helper[p].reader
ResetDone(p) ==
    /\ Rests(p) /\ answers[p] # <<>>
    /\ \A i \in 1..Len(answers[p]) : answers[p][i] = "Stopped" <=> i = Len(answers[p])
Agree(s) ==
    LET p == clients[s].pid
        st == clients[s].st
    IN /\ st = "wait_ready" => Starts(p, clients[s].session)
       /\ st = "up" => ServesNow(p, clients[s].session)
       /\ st = "wait_stopped" => ResetComes(p) \/ ResetGoes(p) \/ ResetDone(p)
       /\ st = "idle" => Rests(p) /\ answers[p] = <<>>
TalkInv == \A s \in Clients : clients[s].pid # 0 /\ Running(clients[s].pid) => Agree(s)

TunInv == TunType /\ BirthInv /\ ClientInv /\ GuardInv /\ FileInv /\ TalkInv

LEMMA FileKinds ==
    ASSUME NEW n \in Paths, TunType
    PROVE  /\ files[n] \in TunFiles
           /\ files[n].pid = 0 <=> files[n] \in {NoFile, UserFile}
           /\ \A p \in HelperPids : files[n].pid = p <=> files[n] \in {Owned(p), Empty(p)}
<1>1. files[n] \in TunFiles
  BY DEF TunType
<1>2. \A p \in HelperPids : p # 0
  BY TunAssumption DEF HelperPids
<1> QED BY <1>1, <1>2 DEF TunFiles, NoFile, UserFile, Owned, Empty

(* A conversation is about one helper, its pipes and one client.             *)
LEMMA AgreeFrame ==
    ASSUME NEW s, Agree(s), clients'[s] = clients[s],
           helper'[clients[s].pid] = helper[clients[s].pid],
           commands'[clients[s].pid] = commands[clients[s].pid],
           answers'[clients[s].pid] = answers[clients[s].pid]
    PROVE  Agree(s)'
<1> DEFINE p == clients[s].pid
<1>1. /\ \A a : Never(p, a)' <=> Never(p, a)
      /\ \A P : Does(p, P)' <=> Does(p, P)
      /\ clients'[s].pid = p
  BY DEF Never, Does
<1>2. Starts(p, clients[s].session)' <=> Starts(p, clients[s].session)
  BY <1>1 DEF Starts
<1>3. ServesNow(p, clients[s].session)' <=> ServesNow(p, clients[s].session)
  BY <1>1 DEF ServesNow
<1>4. Rests(p)' <=> Rests(p)
  BY <1>1 DEF Rests
<1>5. (ResetComes(p) \/ ResetGoes(p) \/ ResetDone(p))' <=> (ResetComes(p) \/ ResetGoes(p) \/ ResetDone(p))
  BY <1>1, <1>4 DEF ResetComes, ResetGoes, ResetDone
<1> QED BY <1>1, <1>2, <1>3, <1>4, <1>5 DEF Agree

(* A client step leaves helpers and files alone.                             *)
LEMMA ClientFrame ==
    ASSUME TunInv, NEW s \in Clients, UNCHANGED <<helper, files, alive, killed>>, TunType',
           \A q \in HelperPids \ Born : answers'[q] = answers[q],
           \A t \in Clients \ {s} : /\ clients'[t] = clients[t]
                                    /\ clients[t].pid # 0 =>
                                          /\ commands'[clients[t].pid] = commands[clients[t].pid]
                                          /\ answers'[clients[t].pid] = answers[clients[t].pid],
           IF clients'[s].st = "none" THEN clients'[s].pid = 0
           ELSE clients'[s].pid = clients[s].pid /\ clients[s].pid # 0 /\ clients'[s].session # 0,
           clients'[s].pid # 0 /\ Running(clients[s].pid) => Agree(s)'
    PROVE  TunInv' /\ KeepsUsersFile
<1>1. Born' = Born /\ (\A q : Running(q)' <=> Running(q))
  BY DEF Born, Running
<1>2. BirthInv'
  BY <1>1 DEF TunInv, BirthInv
<1>3. ClientInv'
  <2>1. clients[s].pid # 0 => clients[s].st # "none" /\ clients[s].pid \in Born
    BY DEF TunInv, ClientInv
  <2> QED BY <1>1, <2>1 DEF TunInv, ClientInv
<1>4. GuardInv'
  BY <1>1 DEF TunInv, GuardInv
<1>5. FileInv'
  <2>1. NothingLeft'
    BY <1>1 DEF TunInv, FileInv, NothingLeft
  <2>2. \A q : Backed(q)' <=> Backed(q)
    BY DEF Backed
  <2> QED BY <1>1, <2>1, <2>2 DEF TunInv, FileInv
<1>6. TalkInv'
  <2>1. SUFFICES ASSUME NEW t \in Clients, clients'[t].pid # 0, Running(clients'[t].pid) PROVE Agree(t)'
    BY <1>1 DEF TalkInv, Running
  <2>2. CASE t = s
    BY <2>1, <2>2
  <2>3. CASE t # s
    BY <2>1, <2>3, AgreeFrame DEF TunInv, TalkInv
  <2> QED BY <2>2, <2>3
<1> QED BY <1>2, <1>3, <1>4, <1>5, <1>6 DEF TunInv, KeepsUsersFile

(* TunFiles a step of p may change: its own, and those of nobody who runs.      *)
Spares(p) ==
    \A n \in Paths :
        \/ files'[n] = files[n]
        \/ /\ files[n] # UserFile /\ \A q \in HelperPids \ {p} : Running(q) => files[n].pid # q
           /\ files'[n] \in {NoFile, Owned(p), Empty(p)}

LEMMA OthersBacked ==
    ASSUME TunInv, TunType', NEW p \in HelperPids, Spares(p), NEW q \in HelperPids \ {p}, Running(q),
           helper'[q] = helper[q]
    PROVE  Backed(q)'
<1>1. Backed(q) /\ Guarded(helper[q]) /\ Len(helper[q].held) \in Nat
  <2>1. helper[q] \in HelperRecord
    BY DEF TunInv, TunType
  <2>2. helper[q].held \in Seq(Paths)
    BY <2>1 DEF HelperRecord
  <2> QED BY <2>2, LenProperties DEF TunInv, FileInv, GuardInv
<1>2. ASSUME NEW n \in Paths, files[n] \in {Owned(q), Empty(q), UserFile} PROVE files'[n] = files[n]
  BY <1>2 DEF Spares, Owned, Empty
<1>3. ASSUME NEW n \in Paths, files'[n].pid = q PROVE files[n].pid = q
  BY <1>3, TunAssumption DEF Spares, NoFile, Owned, Empty, HelperPids
<1>4. ASSUME NEW i \in 1..Len(helper[q].held) PROVE files'[i] \in {Owned(q), UserFile}
  <2>1. i \in Paths
    BY <1>1, TunAssumption DEF Guarded, Paths
  <2> QED BY <1>1, <1>2, <2>1 DEF Backed
<1>5. helper[q].phase = "write" => files'[Len(helper[q].held) + 1] = Empty(q)
  <2>1. helper[q].phase = "write" => Len(helper[q].held) + 1 \in Paths
    BY <1>1, TunAssumption DEF Guarded, Paths
  <2> QED BY <1>1, <1>2, <2>1 DEF Backed
<1> QED BY <1>1, <1>3, <1>4, <1>5 DEF Backed

(* A step of a helper that goes on.                                          *)
LEMMA HelperFrame ==
    ASSUME TunInv, NEW p \in HelperPids, Running(p), UNCHANGED <<clients, alive, killed>>, TunType',
           \A q \in HelperPids \ {p} : /\ helper'[q] = helper[q] /\ commands'[q] = commands[q]
                                       /\ answers'[q] = answers[q],
           helper'[p].st = "running", Guarded(helper'[p]), Spares(p), Backed(p)',
           \A s \in Clients : clients[s].pid = p => Agree(s)'
    PROVE  TunInv' /\ KeepsUsersFile
<1>1. Born' = Born /\ \A q \in HelperPids : Running(q)' <=> Running(q)
  BY DEF Born, Running
<1>2. p \in Born
  BY DEF Born, Running
<1>3. BirthInv'
  BY <1>1, <1>2 DEF TunInv, BirthInv
<1>4. ClientInv'
  BY <1>1 DEF TunInv, ClientInv
<1>5. GuardInv'
  BY <1>1 DEF TunInv, GuardInv
<1>6. FileInv'
  <2>1. ASSUME NEW q \in HelperPids, Running(q) PROVE Backed(q)'
    BY <2>1, OthersBacked
  <2>2. ASSUME NEW n \in Paths, files'[n].pid # 0
        PROVE  helper'[files'[n].pid].st = "running" \/ files'[n].pid \in killed'
    <3>1. files'[n] = files[n] \/ files'[n].pid = p
      BY <2>2 DEF Spares, NoFile, Owned, Empty
    <3>2. files'[n].pid = p => helper'[files'[n].pid].st = "running"
      BY DEF Running
    <3>3. files'[n] = files[n] => files[n].pid \in HelperPids
      BY <2>2, FileKinds DEF TunInv, TunFiles, Owned, Empty, NoFile, UserFile
    <3>4. files'[n] = files[n] => Running(files[n].pid) \/ files[n].pid \in killed
      BY <2>2 DEF TunInv, FileInv, NothingLeft
    <3> QED BY <1>1, <3>1, <3>2, <3>3, <3>4 DEF Running
  <2> QED BY <1>1, <2>1, <2>2 DEF FileInv, NothingLeft, Running
<1>7. TalkInv'
  <2>1. SUFFICES ASSUME NEW s \in Clients, clients[s].pid # 0, Running(clients[s].pid)' PROVE Agree(s)'
    BY DEF TalkInv, Running
  <2>2. clients[s].pid \in HelperPids
    BY <2>1 DEF TunInv, ClientInv, Born
  <2>3. CASE clients[s].pid # p
    BY <1>1, <2>1, <2>2, <2>3, AgreeFrame DEF TunInv, TalkInv
  <2> QED BY <2>3
<1>8. KeepsUsersFile
  BY DEF Spares, KeepsUsersFile
<1> QED BY <1>3, <1>4, <1>5, <1>6, <1>7, <1>8 DEF TunInv

(* A helper ends: it leaves nothing, or it was killed.                       *)
LEMMA EndFrame ==
    ASSUME TunInv, NEW p \in HelperPids, helper[p].st # "unborn", UNCHANGED files, TunType',
           \A q \in HelperPids \ {p} : /\ helper'[q] = helper[q] /\ commands'[q] = commands[q]
                                       /\ answers'[q] = answers[q],
           helper'[p].st = "dead", killed \subseteq killed', killed' \subseteq killed \cup {p},
           \A q \in alive : q = p \/ q \in alive',
           Running(p) => p \in killed' \/ \A n \in Paths : files[n].pid # p,
           ClientInv',
           \A s \in Clients : clients'[s] = clients[s] \/ clients'[s].pid = 0
    PROVE  TunInv' /\ KeepsUsersFile
<1>1. Born' = Born /\ \A q \in HelperPids : Running(q)' <=> q # p /\ Running(q)
  BY DEF Born, Running
<1>2. p \in Born
  BY DEF Born
<1>3. BirthInv'
  BY <1>1, <1>2 DEF TunInv, BirthInv
<1>4. GuardInv'
  BY <1>1 DEF TunInv, GuardInv
<1>5. FileInv'
  <2>1. Spares(p)
    BY DEF Spares
  <2>2. ASSUME NEW q \in HelperPids, Running(q), q # p PROVE Backed(q)'
    BY <2>1, <2>2, OthersBacked
  <2>3. ASSUME NEW n \in Paths, files[n].pid # 0 PROVE Running(files[n].pid)' \/ files[n].pid \in killed'
    <3>1. files[n].pid \in HelperPids
      BY <2>3, FileKinds DEF TunInv, TunFiles, Owned, Empty, NoFile, UserFile
    <3>2. Running(files[n].pid) \/ files[n].pid \in killed
      BY <2>3 DEF TunInv, FileInv, NothingLeft
    <3> QED BY <1>1, <3>1, <3>2
  <2> QED BY <1>1, <2>2, <2>3 DEF FileInv, NothingLeft, Running
<1>6. TalkInv'
  <2>1. SUFFICES ASSUME NEW s \in Clients, clients'[s].pid # 0, helper'[clients'[s].pid].st = "running" PROVE Agree(s)'
    BY DEF TalkInv, Running
  <2>2. clients'[s] = clients[s] /\ clients[s].pid \in HelperPids
    BY <2>1 DEF TunInv, ClientInv, Born
  <2>3. clients[s].pid # p /\ Running(clients[s].pid)
    BY <1>1, <2>1, <2>2 DEF Running
  <2> QED BY <2>1, <2>2, <2>3, AgreeFrame DEF TunInv, TalkInv
<1> QED BY <1>3, <1>4, <1>5, <1>6 DEF TunInv, KeepsUsersFile

LEMMA ClientIs ==
    ASSUME TunInv, NEW s \in Clients, clients[s].st # "none"
    PROVE  /\ clients[s] \in ClientRecord /\ clients[s].pid \in HelperPids /\ clients[s].pid \in Born
           /\ clients[s].pid # 0 /\ clients[s].session # 0
           /\ commands[clients[s].pid] \in Seq(TunCommands) /\ answers[clients[s].pid] \in Seq(TunAnswers)
           /\ helper[clients[s].pid] \in HelperRecord
           /\ \A t \in Clients \ {s} : clients[t].pid # clients[s].pid
           /\ \A t \in Clients \ {s} : clients[t].pid # 0 => clients[t].pid \in HelperPids
<1>1. clients[s].pid \in HelperPids /\ clients[s].pid \in Born
  BY DEF TunInv, ClientInv, Born
<1>2. clients[s].pid # 0
  BY <1>1, TunAssumption DEF HelperPids
<1> QED BY <1>1, <1>2 DEF TunInv, ClientInv, TunType, Born

(* A message to the helper changes the own client and its pipe.              *)
LEMMA SendsIs ==
    ASSUME TunInv, NEW s \in Clients, clients[s].st # "none",
           NEW c \in {"Packet", "Reset", "Stop"},
           NEW st \in {"none", "wait_ready", "idle", "up", "stopping", "dropping", "wait_stopped"},
           Sends(s, c, st)
    PROVE  /\ clients'[s] = [clients[s] EXCEPT !.st = st] /\ clients' \in [Clients -> ClientRecord]
           /\ commands' \in [HelperPids -> Seq(TunCommands)]
           /\ commands'[clients[s].pid] = Append(commands[clients[s].pid], Command(c, 0))
           /\ \A t \in Clients \ {s} : /\ clients'[t] = clients[t]
                                       /\ clients[t].pid # 0 => commands'[clients[t].pid] = commands[clients[t].pid]
<1> DEFINE p == clients[s].pid
<1>1. p \in HelperPids /\ commands[p] \in Seq(TunCommands) /\ clients[s] \in ClientRecord
  BY ClientIs
<1>2. commands \in [HelperPids -> Seq(TunCommands)] /\ clients \in [Clients -> ClientRecord]
  BY DEF TunInv, TunType
<1>3. Command(c, 0) \in TunCommands
  BY DEF Command, TunCommands
<1>4. Append(commands[p], Command(c, 0)) \in Seq(TunCommands)
  BY <1>1, <1>3, AppendProperties
<1>5. [clients[s] EXCEPT !.st = st] \in ClientRecord
  BY <1>1 DEF ClientRecord
<1>6. \A t \in Clients \ {s} : clients[t].pid # 0 => clients[t].pid \in HelperPids /\ clients[t].pid # p
  BY ClientIs
<1>7. /\ commands' = [commands EXCEPT ![p] = Append(commands[p], Command(c, 0))]
      /\ clients' = [clients EXCEPT ![s] = [clients[s] EXCEPT !.st = st]]
  BY DEF Sends
<1>8. commands' \in [HelperPids -> Seq(TunCommands)] /\ clients' \in [Clients -> ClientRecord]
  BY <1>1, <1>2, <1>4, <1>5, <1>7
<1> QED BY <1>1, <1>2, <1>6, <1>7, <1>8

LEMMA StartAgainKept == ASSUME TunInv, NEW s \in Clients, StartAgain(s) PROVE TunInv' /\ KeepsUsersFile
<1>1. PICK p, k, c : p = clients[s].pid /\ k = sessions + 1 /\ c = Command("Start", k)
  OBVIOUS
<1>2. /\ clients[s].st = "idle" /\ Running(p) /\ sessions' = k
      /\ commands' = [commands EXCEPT ![p] = Append(commands[p], c)]
      /\ clients' = [clients EXCEPT ![s] = [clients[s] EXCEPT !.st = "wait_ready", !.session = k, !.fresh = FALSE]]
      /\ UNCHANGED <<helper, answers, files, alive, killed>>
  BY <1>1 DEF StartAgain, System
<1>3. /\ clients[s] \in ClientRecord /\ p \in HelperPids /\ p # 0 /\ commands[p] \in Seq(TunCommands)
      /\ \A t \in Clients \ {s} : clients[t].pid # p
      /\ \A t \in Clients \ {s} : clients[t].pid # 0 => clients[t].pid \in HelperPids
  BY <1>1, <1>2, ClientIs
<1>4. /\ sessions \in Nat /\ k \in Nat \ {0} /\ c \in TunCommands
      /\ commands \in [HelperPids -> Seq(TunCommands)] /\ clients \in [Clients -> ClientRecord]
  <2>1. sessions \in Nat /\ commands \in [HelperPids -> Seq(TunCommands)] /\ clients \in [Clients -> ClientRecord]
    BY DEF TunInv, TunType
  <2>2. k \in Nat \ {0}
    BY <1>1, <2>1
  <2> QED BY <1>1, <2>1, <2>2 DEF Command, TunCommands
<1>5. /\ commands' \in [HelperPids -> Seq(TunCommands)] /\ commands'[p] = Append(commands[p], c)
      /\ \A q \in HelperPids \ {p} : commands'[q] = commands[q]
  <2>1. Append(commands[p], c) \in Seq(TunCommands)
    BY <1>3, <1>4, AppendProperties
  <2> QED BY <1>2, <1>3, <1>4, <2>1
<1>6. /\ clients' \in [Clients -> ClientRecord]
      /\ clients'[s].st = "wait_ready" /\ clients'[s].pid = p /\ clients'[s].session = k
      /\ \A t \in Clients \ {s} : clients'[t] = clients[t]
  <2>1. PICK d : d = [clients[s] EXCEPT !.st = "wait_ready", !.session = k, !.fresh = FALSE]
    OBVIOUS
  <2>2. d \in ClientRecord /\ d.st = "wait_ready" /\ d.pid = p /\ d.session = k
    BY <1>1, <1>3, <1>4, <2>1 DEF ClientRecord
  <2> QED BY <1>2, <1>4, <2>1, <2>2
<1>7. TunType'
  BY <1>2, <1>4, <1>5, <1>6 DEF TunInv, TunType
<1>8. Agree(s)'
  <2>1. Rests(p) /\ answers[p] = <<>>
    BY <1>1, <1>2, <1>3 DEF TunInv, TalkInv, Agree
  <2>2. commands'[p] = <<Command("Start", k)>>
    BY <1>1, <1>5, <2>1 DEF Rests
  <2>3. \A a : Never(p, a)'
    BY <1>2, <2>1 DEF Never
  <2>4. Does(p, {"idle"})' /\ helper'[p].ctx = 0
    BY <1>2, <2>1 DEF Rests, Does
  <2>5. Starts(p, k)'
    BY <2>2, <2>3, <2>4 DEF Starts
  <2> QED BY <1>6, <2>5 DEF Agree
<1> QED BY <1>1, <1>2, <1>3, <1>4, <1>5, <1>6, <1>7, <1>8, ClientFrame

LEMMA SendKept ==
    ASSUME TunInv, NEW s \in Clients, clients[s].st # "none", NEW p, p = clients[s].pid,
           NEW c \in {"Packet", "Reset", "Stop"},
           NEW st \in {"none", "wait_ready", "idle", "up", "stopping", "dropping", "wait_stopped"}, st # "none",
           Sends(s, c, st), UNCHANGED <<helper, files, alive, killed, sessions>>,
           answers' \in [HelperPids -> Seq(TunAnswers)],
           \A q \in HelperPids \ {p} : answers'[q] = answers[q],
           Running(p) => Agree(s)'
    PROVE  TunInv' /\ KeepsUsersFile
<1>1. /\ clients'[s] = [clients[s] EXCEPT !.st = st] /\ clients' \in [Clients -> ClientRecord]
      /\ commands' \in [HelperPids -> Seq(TunCommands)]
      /\ \A t \in Clients \ {s} : /\ clients'[t] = clients[t]
                                  /\ clients[t].pid # 0 => commands'[clients[t].pid] = commands[clients[t].pid]
  <2>1. clients'[s] = [clients[s] EXCEPT !.st = st] /\ \A t \in Clients \ {s} : clients'[t] = clients[t]
    <3>1. clients \in [Clients -> ClientRecord] /\ clients' = [clients EXCEPT ![s] = [clients[s] EXCEPT !.st = st]]
      BY SMTT(30) DEF Sends, TunInv, TunType
    <3> QED BY <3>1
  <2>2. clients' \in [Clients -> ClientRecord]
    BY SendsIs, ZenonT(60)
  <2>3. commands' \in [HelperPids -> Seq(TunCommands)]
    BY SendsIs, ZenonT(60)
  <2>4. ASSUME NEW t \in Clients \ {s}
        PROVE  clients[t].pid # 0 => commands'[clients[t].pid] = commands[clients[t].pid]
    <3>1. /\ commands \in [HelperPids -> Seq(TunCommands)]
          /\ commands' = [commands EXCEPT ![p] = Append(commands[p], Command(c, 0))]
      BY DEF Sends, TunInv, TunType
    <3>2. clients[t].pid # p /\ (clients[t].pid # 0 => clients[t].pid \in HelperPids)
      BY ClientIs
    <3> QED BY <3>1, <3>2
  <2> QED BY <2>1, <2>2, <2>3, <2>4
<1>2. /\ clients[s] \in ClientRecord /\ p \in HelperPids /\ p # 0 /\ p \in Born /\ clients[s].session # 0
      /\ \A t \in Clients \ {s} : clients[t].pid # p
      /\ \A t \in Clients \ {s} : clients[t].pid # 0 => clients[t].pid \in HelperPids
  BY ClientIs
<1>3. clients'[s].st # "none" /\ clients'[s].pid = p /\ clients'[s].session = clients[s].session
  BY <1>1, <1>2 DEF ClientRecord
<1>4. TunType'
  BY <1>1 DEF TunInv, TunType
<1>5. \A t \in Clients \ {s} :
          /\ clients'[t] = clients[t]
          /\ clients[t].pid # 0 => /\ commands'[clients[t].pid] = commands[clients[t].pid]
                                  /\ answers'[clients[t].pid] = answers[clients[t].pid]
  BY <1>1, <1>2
<1>6. \A q \in HelperPids \ Born : answers'[q] = answers[q]
  BY <1>2
<1>7. clients'[s].pid # 0 /\ Running(clients[s].pid) => Agree(s)'
  OBVIOUS
<1> QED BY <1>2, <1>3, <1>4, <1>5, <1>6, <1>7, ClientFrame

LEMMA SendPacketKept == ASSUME TunInv, NEW s \in Clients, SendPacket(s) PROVE TunInv' /\ KeepsUsersFile
<1>1. PICK p, k : p = clients[s].pid /\ k = clients[s].session
  OBVIOUS
<1>2. /\ clients[s].st = "up" /\ Len(commands[p]) = 0 /\ Sends(s, "Packet", "up")
      /\ UNCHANGED <<helper, answers, files, alive, killed, sessions>>
  BY <1>1 DEF SendPacket, System, Counters
<1>3. /\ clients[s] \in ClientRecord /\ p \in HelperPids /\ p # 0 /\ commands[p] \in Seq(TunCommands)
      /\ answers \in [HelperPids -> Seq(TunAnswers)]
  BY <1>1, <1>2, ClientIs, SMTT(30) DEF TunInv, TunType
<1>4. commands'[p] = Append(commands[p], Command("Packet", 0)) /\ clients'[s] = [clients[s] EXCEPT !.st = "up"]
  BY <1>1, <1>2, SendsIs, ZenonT(60)
<1>5. ASSUME Running(p) PROVE Agree(s)'
  <2>1. ServesNow(p, k)
    BY <1>1, <1>2, <1>3, <1>5 DEF TunInv, TalkInv, Agree
  <2>2. commands'[p] = <<Command("Packet", 0)>>
    <3>1. commands[p] = <<>>
      BY <1>2, <1>3
    <3> QED BY <1>4, <3>1
  <2>3. \A i \in 1..Len(commands'[p]) : commands'[p][i].op = "Packet"
    BY <2>2 DEF Command
  <2>4. Never(p, "Stopped")' /\ Does(p, {"idle"})' /\ helper'[p].ctx = k
    BY <1>2, <2>1 DEF ServesNow, Never, Does
  <2>5. clients'[s].st = "up" /\ clients'[s].pid = p /\ clients'[s].session = k
    BY <1>1, <1>3, <1>4 DEF ClientRecord
  <2>6. ServesNow(p, k)'
    BY <2>3, <2>4 DEF ServesNow
  <2> QED BY <2>5, <2>6 DEF Agree
<1> QED BY <1>1, <1>2, <1>3, <1>5, SendKept

(* A Reset goes out: what was under way is not mistaken for its answer.      *)
LEMMA ResetKept ==
    ASSUME TunInv, NEW s \in Clients, clients[s].st \in {"wait_ready", "up"}, Sends(s, "Reset", "wait_stopped"),
           NEW p, p = clients[s].pid,
           UNCHANGED <<helper, files, alive, killed, sessions>>, answers' \in [HelperPids -> Seq(TunAnswers)],
           \A q \in HelperPids \ {p} : answers'[q] = answers[q],
           Never(p, "Stopped") => \A i \in 1..Len(answers'[p]) : answers'[p][i] # "Stopped"
    PROVE  TunInv' /\ KeepsUsersFile
<1>1. /\ clients[s] \in ClientRecord /\ p \in HelperPids /\ p # 0 /\ commands[p] \in Seq(TunCommands)
  BY ClientIs, SMTT(30)
<1>2. /\ commands'[p] = Append(commands[p], Command("Reset", 0))
      /\ clients'[s] = [clients[s] EXCEPT !.st = "wait_stopped"]
  BY SendsIs, ZenonT(60)
<1>3. ASSUME Running(p) PROVE Agree(s)'
  <2>1. Starts(p, clients[s].session) \/ ServesNow(p, clients[s].session)
    BY <1>1, <1>3 DEF TunInv, TalkInv, Agree
  <2>2. \A i \in 1..Len(commands[p]) : commands[p][i].op \in {"Start", "Packet"}
    BY <2>1 DEF Starts, ServesNow, Command
  <2>3. /\ Len(commands'[p]) = Len(commands[p]) + 1 /\ Len(commands[p]) \in Nat
        /\ commands'[p][Len(commands[p]) + 1] = Command("Reset", 0)
        /\ \A i \in 1..Len(commands[p]) : commands'[p][i] = commands[p][i]
    BY <1>1, <1>2, AppendProperties, LenProperties DEF Command, TunCommands
  <2>4. /\ commands'[p] # <<>>
        /\ \A i \in 1..Len(commands'[p]) :
              IF i = Len(commands'[p]) THEN commands'[p][i].op = "Reset"
              ELSE commands'[p][i].op \in {"Start", "Packet"}
    <3>1. commands'[p] # <<>>
      BY <2>3
    <3>2. \A i \in 1..Len(commands'[p]) : i = Len(commands'[p]) \/ i \in 1..Len(commands[p])
      BY <2>3
    <3>3. Len(commands'[p]) \notin 1..Len(commands[p]) /\ commands'[p][Len(commands'[p])].op = "Reset"
      BY <2>3, SMTT(30) DEF Command
    <3>4. ASSUME NEW i \in 1..Len(commands[p]) PROVE commands'[p][i].op \in {"Start", "Packet"}
      BY <2>2, <2>3
    <3> QED BY <3>1, <3>2, <3>3, <3>4
  <2>5. Never(p, "Stopped")'
    BY <2>1 DEF Starts, ServesNow, Never
  <2>6. Does(p, {"undo"})' => helper'[p].then = "Error"
    BY <2>1 DEF Starts, ServesNow, Does
  <2>7. ResetComes(p)'
    BY <2>4, <2>5, <2>6 DEF ResetComes
  <2>8. clients'[s].st = "wait_stopped" /\ clients'[s].pid = p
    BY <1>1, <1>2 DEF ClientRecord
  <2> QED BY <2>7, <2>8 DEF Agree
<1> QED BY <1>3, SendKept

(* A Stop goes out: nothing more is expected.                                *)
LEMMA StopKept ==
    ASSUME TunInv, NEW s \in Clients, clients[s].st # "none", NEW st \in {"stopping", "dropping"},
           Sends(s, "Stop", st), NEW p, p = clients[s].pid,
           UNCHANGED <<helper, files, alive, killed, sessions>>, answers' \in [HelperPids -> Seq(TunAnswers)],
           \A q \in HelperPids \ {p} : answers'[q] = answers[q]
    PROVE  TunInv' /\ KeepsUsersFile
<1>1. clients[s] \in ClientRecord
  BY ClientIs, SMTT(30)
<1>2. clients'[s] = [clients[s] EXCEPT !.st = st]
  BY SendsIs, ZenonT(60)
<1>3. clients'[s].st = st
  BY <1>1, <1>2 DEF ClientRecord
<1>4. Agree(s)'
  BY <1>3 DEF Agree
<1> QED BY <1>4, SendKept

LEMMA LoopEndsKept == ASSUME TunInv, NEW s \in Clients, LoopEnds(s) PROVE TunInv' /\ KeepsUsersFile
<1>1. /\ clients[s].st = "up" /\ UNCHANGED <<helper, answers, files, alive, killed, sessions>>
      /\ Sends(s, "Stop", "stopping") \/ Sends(s, "Reset", "wait_stopped") \/ Sends(s, "Stop", "dropping")
  BY DEF LoopEnds, System, Counters
<1>2. answers' \in [HelperPids -> Seq(TunAnswers)]
  BY <1>1 DEF TunInv, TunType
<1>3. Never(clients[s].pid, "Stopped") =>
          \A i \in 1..Len(answers'[clients[s].pid]) : answers'[clients[s].pid][i] # "Stopped"
  BY <1>1 DEF Never
<1> QED BY <1>1, <1>2, <1>3, ResetKept, StopKept

LEMMA AbandonKept == ASSUME TunInv, NEW s \in Clients, Abandon(s) PROVE TunInv' /\ KeepsUsersFile
<1>1. /\ clients[s].st = "idle" /\ UNCHANGED <<helper, answers, files, alive, killed, sessions>>
      /\ Sends(s, "Stop", "dropping")
  BY DEF Abandon, System, Counters
<1>2. answers' \in [HelperPids -> Seq(TunAnswers)]
  BY <1>1 DEF TunInv, TunType
<1> QED BY <1>1, <1>2, StopKept

(* A wait has failed.                                                        *)
LEMMA RecoversKept ==
    ASSUME TunInv, NEW s \in Clients, clients[s].st \in {"wait_ready", "wait_stopped", "up"}, Recovers(s),
           NEW p, p = clients[s].pid,
           UNCHANGED <<helper, files, alive, killed, sessions>>, answers' \in [HelperPids -> Seq(TunAnswers)],
           \A q \in HelperPids \ {p} : answers'[q] = answers[q],
           Never(p, "Stopped") => \A i \in 1..Len(answers'[p]) : answers'[p][i] # "Stopped"
    PROVE  TunInv' /\ KeepsUsersFile
<1>1. CASE Failed(s) = "reset"
  BY <1>1, ResetKept, ZenonT(60) DEF Recovers, Failed
<1>2. CASE Failed(s) = "drop"
  BY <1>2, StopKept DEF Recovers
<1> QED BY <1>1, <1>2 DEF Failed

LEMMA WaitFailsKept == ASSUME TunInv, NEW s \in Clients, WaitFails(s) PROVE TunInv' /\ KeepsUsersFile
<1>1. /\ clients[s].st \in {"wait_ready", "wait_stopped", "up"} /\ Recovers(s)
      /\ UNCHANGED <<helper, answers, files, alive, killed, sessions>>
  BY DEF WaitFails, System
<1>2. answers' \in [HelperPids -> Seq(TunAnswers)]
  BY <1>1 DEF TunInv, TunType
<1>3. Never(clients[s].pid, "Stopped") =>
          \A i \in 1..Len(answers'[clients[s].pid]) : answers'[clients[s].pid][i] # "Stopped"
  BY <1>1 DEF Never
<1> QED BY <1>1, <1>2, <1>3, RecoversKept

LEMMA TailIs ==
    ASSUME NEW S, NEW q \in Seq(S), q # <<>>
    PROVE  /\ Tail(q) \in Seq(S) /\ Len(q) \in Nat \ {0} /\ Len(Tail(q)) = Len(q) - 1
           /\ \A i \in 1..Len(Tail(q)) : i + 1 \in 1..Len(q) /\ Tail(q)[i] = q[i + 1]
           /\ Head(q) = q[1] /\ 1 \in 1..Len(q)
<1>1. Len(q) \in Nat \ {0}
  BY EmptySeq, LenProperties
<1> QED BY <1>1, HeadTailProperties

LEMMA ReceiveKept == ASSUME TunInv, NEW s \in Clients, Receive(s) PROVE TunInv' /\ KeepsUsersFile
<1>1. PICK p, k, st, e : p = clients[s].pid /\ k = clients[s].session /\ st = clients[s].st /\ e = Head(answers[p])
  OBVIOUS
<1>2. /\ st \in {"wait_ready", "wait_stopped", "up"} /\ answers[p] # <<>>
      /\ answers' = [answers EXCEPT ![p] = Tail(answers[p])]
      /\ UNCHANGED <<helper, files, alive, killed, sessions>>
      /\ \/ st = "wait_ready" /\ e = "Ready" /\ clients' = [clients EXCEPT ![s].st = "up"] /\ UNCHANGED commands
         \/ st = "wait_stopped" /\ e = "Stopped" /\ clients' = [clients EXCEPT ![s].st = "idle"] /\ UNCHANGED commands
         \/ e # "Stopped" /\ ~(st = "wait_ready" /\ e = "Ready") /\ UNCHANGED <<clients, commands>>
         \/ Recovers(s)
  BY <1>1 DEF Receive, System, Counters
<1>3. /\ clients[s] \in ClientRecord /\ p \in HelperPids /\ p \in Born /\ p # 0 /\ k # 0
      /\ answers[p] \in Seq(TunAnswers)
      /\ \A t \in Clients \ {s} : clients[t].pid # p
      /\ \A t \in Clients \ {s} : clients[t].pid # 0 => clients[t].pid \in HelperPids
  BY <1>1, <1>2, ClientIs
<1>4. /\ answers \in [HelperPids -> Seq(TunAnswers)] /\ clients \in [Clients -> ClientRecord]
      /\ commands \in [HelperPids -> Seq(TunCommands)]
  BY DEF TunInv, TunType
<1>5. /\ Tail(answers[p]) \in Seq(TunAnswers) /\ Len(answers[p]) \in Nat \ {0}
      /\ Len(Tail(answers[p])) = Len(answers[p]) - 1
      /\ \A i \in 1..Len(Tail(answers[p])) : i + 1 \in 1..Len(answers[p]) /\ Tail(answers[p])[i] = answers[p][i + 1]
      /\ e = answers[p][1] /\ 1 \in 1..Len(answers[p])
  BY <1>1, <1>2, <1>3, TailIs
<1>6. /\ answers' \in [HelperPids -> Seq(TunAnswers)] /\ answers'[p] = Tail(answers[p])
      /\ \A q \in HelperPids \ {p} : answers'[q] = answers[q]
  BY <1>2, <1>3, <1>4, <1>5
<1>7. ASSUME NEW a, \A i \in 1..Len(answers[p]) : answers[p][i] # a
      PROVE  \A i \in 1..Len(answers'[p]) : answers'[p][i] # a
  BY <1>5, <1>6, <1>7
<1>8. CASE Recovers(s)
  <2>1. Never(p, "Stopped") => \A i \in 1..Len(answers'[p]) : answers'[p][i] # "Stopped"
    BY <1>7 DEF Never
  <2> QED BY <1>1, <1>2, <1>6, <1>8, <2>1, RecoversKept
<1>9. ASSUME NEW st2 \in {"wait_ready", "wait_stopped", "up", "idle"},
             clients' = [clients EXCEPT ![s] = [clients[s] EXCEPT !.st = st2]], UNCHANGED commands,
             Running(p) => Agree(s)'
      PROVE  TunInv' /\ KeepsUsersFile
  <2>1. /\ clients'[s] = [clients[s] EXCEPT !.st = st2]
        /\ \A t \in Clients \ {s} : clients'[t] = clients[t]
    BY <1>4, <1>9
  <2>2. clients'[s].st = st2 /\ clients'[s].pid = p /\ clients'[s].session = k /\ clients'[s] \in ClientRecord
    BY <1>1, <1>3, <2>1 DEF ClientRecord
  <2>3. TunType'
    <3>1. clients' \in [Clients -> ClientRecord]
      BY <1>4, <1>9, <2>1, <2>2
    <3> QED BY <1>2, <1>6, <1>9, <3>1 DEF TunInv, TunType
  <2>4. \A t \in Clients \ {s} :
            /\ clients'[t] = clients[t]
            /\ clients[t].pid # 0 => /\ commands'[clients[t].pid] = commands[clients[t].pid]
                                     /\ answers'[clients[t].pid] = answers[clients[t].pid]
    BY <1>3, <1>6, <1>9, <2>1
  <2>5. \A q \in HelperPids \ Born : answers'[q] = answers[q]
    BY <1>3, <1>6
  <2>6. clients'[s].pid # 0 /\ Running(clients[s].pid) => Agree(s)'
    BY <1>1, <1>9
  <2> QED BY <1>1, <1>2, <1>3, <2>2, <2>3, <2>4, <2>5, <2>6, ClientFrame
<1>10. CASE st = "wait_ready" /\ e = "Ready" /\ clients' = [clients EXCEPT ![s].st = "up"] /\ UNCHANGED commands
  <2>1. clients'[s].st = "up" /\ clients'[s].pid = p /\ clients'[s].session = k
    BY <1>1, <1>3, <1>4, <1>10 DEF ClientRecord
  <2>2. ASSUME Running(p) PROVE Agree(s)'
    <3>1. Starts(p, k)
      BY <1>1, <1>3, <1>10, <2>2 DEF TunInv, TalkInv, Agree
    <3>2. ~ Never(p, "Ready")
      BY <1>5, <1>10 DEF Never
    <3>3. Does(p, {"idle"}) /\ helper[p].ctx = k /\ commands[p] = <<>> /\ Never(p, "Stopped")
      BY <3>1, <3>2 DEF Starts
    <3>4. Does(p, {"idle"})' /\ helper'[p].ctx = k /\ commands'[p] = <<>>
      BY <1>2, <1>10, <3>3 DEF Does
    <3>5. Never(p, "Stopped")'
      BY <1>7, <3>3 DEF Never
    <3>6. ServesNow(p, k)'
      BY <3>4, <3>5 DEF ServesNow
    <3> QED BY <2>1, <3>6 DEF Agree
  <2> QED BY <1>9, <1>10, <2>2
<1>11. CASE st = "wait_stopped" /\ e = "Stopped" /\ clients' = [clients EXCEPT ![s].st = "idle"] /\ UNCHANGED commands
  <2>1. clients'[s].st = "idle" /\ clients'[s].pid = p
    BY <1>1, <1>3, <1>4, <1>11 DEF ClientRecord
  <2>2. ASSUME Running(p) PROVE Agree(s)'
    <3>1. ResetComes(p) \/ ResetGoes(p) \/ ResetDone(p)
      BY <1>1, <1>3, <1>11, <2>2 DEF TunInv, TalkInv, Agree
    <3>2. ~ Never(p, "Stopped")
      BY <1>5, <1>11 DEF Never
    <3>3. ResetDone(p)
      BY <3>1, <3>2 DEF ResetComes, ResetGoes
    <3>4. 1 = Len(answers[p])
      BY <1>5, <1>11, <3>3 DEF ResetDone
    <3>5. answers'[p] = <<>>
      BY <1>5, <1>6, <3>4, EmptySeq
    <3>6. Rests(p)'
      BY <1>2, <1>11, <3>3 DEF ResetDone, Rests, Does
    <3> QED BY <2>1, <3>5, <3>6 DEF Agree
  <2> QED BY <1>9, <1>11, <2>2
<1>12. CASE e # "Stopped" /\ ~(st = "wait_ready" /\ e = "Ready") /\ UNCHANGED <<clients, commands>>
  <2>1. clients'[s].st = st /\ clients'[s].pid = p /\ clients'[s].session = k
    BY <1>1, <1>12
  <2>2. /\ \A P : Does(p, P)' <=> Does(p, P)
        /\ \A a : Never(p, a) => Never(p, a)'
    BY <1>2, <1>7 DEF Does, Never
  <2>3. ASSUME Running(p), st = "wait_ready" PROVE Starts(p, k)'
    <3>1. Starts(p, k)
      BY <1>1, <1>3, <2>3 DEF TunInv, TalkInv, Agree
    <3> QED BY <1>2, <1>12, <2>2, <3>1 DEF Starts
  <2>4. ASSUME Running(p), st = "up" PROVE ServesNow(p, k)'
    <3>1. ServesNow(p, k)
      BY <1>1, <1>3, <2>4 DEF TunInv, TalkInv, Agree
    <3> QED BY <1>2, <1>12, <2>2, <3>1 DEF ServesNow
  <2>5. ASSUME Running(p), st = "wait_stopped" PROVE (ResetComes(p) \/ ResetGoes(p) \/ ResetDone(p))'
    <3>1. ResetComes(p) \/ ResetGoes(p) \/ ResetDone(p)
      BY <1>1, <1>3, <2>5 DEF TunInv, TalkInv, Agree
    <3>2. CASE ResetComes(p)
      BY <1>2, <1>12, <2>2, <3>2 DEF ResetComes
    <3>3. CASE ResetGoes(p)
      BY <1>2, <1>12, <2>2, <3>3 DEF ResetGoes
    <3>4. CASE ResetDone(p)
      <4>1. 1 # Len(answers[p])
        BY <1>5, <1>12, <3>4 DEF ResetDone
      <4>2. answers'[p] # <<>>
        <5>1. Len(answers'[p]) # 0
          BY <1>5, <1>6, <4>1
        <5> QED BY <1>5, <1>6, <5>1, EmptySeq
      <4>3. \A i \in 1..Len(answers'[p]) : answers'[p][i] = "Stopped" <=> i = Len(answers'[p])
        <5>1. TAKE i \in 1..Len(answers'[p])
        <5>2. i \in Nat /\ i + 1 \in 1..Len(answers[p]) /\ answers'[p][i] = answers[p][i + 1]
          BY <1>5, <1>6
        <5>3. answers[p][i + 1] = "Stopped" <=> i + 1 = Len(answers[p])
          BY <3>4, <5>2 DEF ResetDone
        <5> QED BY <1>5, <1>6, <5>2, <5>3
      <4>4. Rests(p)'
        BY <1>2, <1>12, <2>2, <3>4 DEF ResetDone, Rests
      <4> QED BY <4>2, <4>3, <4>4 DEF ResetDone
    <3> QED BY <3>1, <3>2, <3>3, <3>4
  <2>6. Running(p) => Agree(s)'
    BY <1>2, <2>1, <2>3, <2>4, <2>5 DEF Agree
  <2>7. clients' = [clients EXCEPT ![s] = [clients[s] EXCEPT !.st = st]]
    <3>1. [clients[s] EXCEPT !.st = st] = clients[s]
      BY <1>1, <1>3 DEF ClientRecord
    <3> QED BY <1>4, <1>12, <3>1
  <2> QED BY <1>2, <1>9, <1>12, <2>6, <2>7
<1> QED BY <1>2, <1>8, <1>10, <1>11, <1>12

(* The client is gone: nobody listens to the helper any more.                *)
LEMMA LeaveKept ==
    ASSUME TunInv, NEW s \in Clients, clients' = [clients EXCEPT ![s] = NoClient],
           UNCHANGED <<helper, commands, answers, files, alive, killed, sessions>>
    PROVE  TunInv' /\ KeepsUsersFile
<1>1. clients \in [Clients -> ClientRecord] /\ NoClient \in ClientRecord
  BY TunAssumption DEF TunInv, TunType, NoClient, ClientRecord
<1>2. /\ clients' \in [Clients -> ClientRecord] /\ clients'[s] = NoClient
      /\ \A t \in Clients \ {s} : clients'[t] = clients[t]
  BY <1>1
<1>3. TunType'
  BY <1>2 DEF TunInv, TunType
<1>4. clients'[s].st = "none" /\ clients'[s].pid = 0
  BY <1>2 DEF NoClient
<1> QED BY <1>2, <1>3, <1>4, ClientFrame

LEMMA StopReturnsKept == ASSUME TunInv, NEW s \in Clients, StopReturns(s) PROVE TunInv' /\ KeepsUsersFile
  BY LeaveKept DEF StopReturns, System, Counters

LEMMA OwnerDiesKept == ASSUME TunInv, NEW s \in Clients, OwnerDies(s) PROVE TunInv' /\ KeepsUsersFile
  BY LeaveKept DEF OwnerDies, System

LEMMA DropKillsKept == ASSUME TunInv, NEW s \in Clients, DropKills(s) PROVE TunInv' /\ KeepsUsersFile
<1>1. PICK p : p = clients[s].pid
  OBVIOUS
<1>2. /\ clients[s] \in ClientRecord /\ clients[s].st = "dropping" /\ p \in HelperPids /\ p \in Born /\ p # 0
      /\ clients[s].session # 0 /\ helper[p] \in HelperRecord
      /\ \A t \in Clients \ {s} : clients[t].pid # p
      /\ \A t \in Clients \ {s} : clients[t].pid # 0 => clients[t].pid \in HelperPids
  BY <1>1, ClientIs DEF DropKills
<1>3. /\ clients \in [Clients -> ClientRecord] /\ NoClient \in ClientRecord /\ helper \in [HelperPids -> HelperRecord]
      /\ alive \subseteq HelperPids /\ killed \subseteq HelperPids
  BY TunAssumption DEF TunInv, TunType, NoClient, ClientRecord
<1>4. UNCHANGED <<commands, answers, files, sessions>>
  BY DEF DropKills, Counters
<1>5. CASE /\ helper' = [helper EXCEPT ![p].st = "dead"] /\ clients' = [clients EXCEPT ![s] = NoClient]
           /\ alive' = (IF Running(p) THEN alive \ {p} ELSE alive)
           /\ killed' = (IF Running(p) THEN killed \cup {p} ELSE killed)
  <2>1. /\ helper'[p] = [helper[p] EXCEPT !.st = "dead"] /\ \A q \in HelperPids \ {p} : helper'[q] = helper[q]
        /\ helper' \in [HelperPids -> HelperRecord]
    <3>1. [helper[p] EXCEPT !.st = "dead"] \in HelperRecord
      BY <1>2 DEF HelperRecord
    <3> QED BY <1>2, <1>3, <1>5, <3>1
  <2>2. helper'[p].st = "dead"
    BY <1>2, <2>1 DEF HelperRecord
  <2>3. /\ clients' \in [Clients -> ClientRecord] /\ clients'[s] = NoClient
        /\ \A t \in Clients \ {s} : clients'[t] = clients[t]
    BY <1>3, <1>5
  <2>4. TunType'
    <3>1. alive' \subseteq HelperPids /\ killed' \subseteq HelperPids
      BY <1>2, <1>3, <1>5
    <3> QED BY <1>4, <2>1, <2>3, <3>1 DEF TunInv, TunType
  <2>5. ClientInv'
    <3>1. Born' = Born
      BY <1>2, <2>1, <2>2 DEF Born
    <3>2. clients'[s].st = "none" /\ clients'[s].pid = 0
      BY <2>3 DEF NoClient
    <3> QED BY <2>3, <3>1, <3>2 DEF TunInv, ClientInv
  <2>6. \A t \in Clients : clients'[t] = clients[t] \/ clients'[t].pid = 0
    BY <2>3 DEF NoClient
  <2>7. helper[p].st # "unborn"
    BY <1>2 DEF Born
  <2>8. killed \subseteq killed' /\ killed' \subseteq killed \cup {p} /\ (\A q \in alive : q = p \/ q \in alive')
    BY <1>5
  <2>9. Running(p) => p \in killed'
    BY <1>5
  <2> QED BY <1>2, <1>4, <2>1, <2>2, <2>4, <2>5, <2>6, <2>7, <2>8, <2>9, EndFrame
<1>6. CASE clients' = [clients EXCEPT ![s].st = "stopping"] /\ UNCHANGED <<helper, alive, killed>>
  <2>1. /\ clients'[s] = [clients[s] EXCEPT !.st = "stopping"]
        /\ \A t \in Clients \ {s} : clients'[t] = clients[t]
    BY <1>3, <1>6
  <2>2. /\ clients'[s].st = "stopping" /\ clients'[s].pid = p /\ clients'[s].session # 0
        /\ [clients[s] EXCEPT !.st = "stopping"] \in ClientRecord
    BY <1>1, <1>2, <2>1 DEF ClientRecord
  <2>3. TunType'
    <3>1. clients' \in [Clients -> ClientRecord]
      BY <1>3, <1>6, <2>2
    <3> QED BY <1>4, <1>6, <3>1 DEF TunInv, TunType
  <2>4. Agree(s)'
    BY <2>2 DEF Agree
  <2> QED BY <1>1, <1>2, <1>4, <1>6, <2>1, <2>2, <2>3, <2>4, ClientFrame
<1> QED BY <1>1, <1>5, <1>6 DEF DropKills

(* The pid of a new helper is one that was never used.                       *)
LEMMA NextPid ==
    ASSUME TunInv
    PROVE  LET p == Cardinality(Born) + 1
           IN  /\ p \in Nat \ {0} /\ p \notin Born
               /\ p <= MaxHelpers => p \in HelperPids /\ Born \cup {p} = 1..p
<1>1. PICK k \in 0..MaxHelpers : Born = 1..k
  BY DEF TunInv, BirthInv
<1>2. Cardinality(1..k) = k /\ k \in Nat
  <2>1. k \in Nat
    BY TunAssumption
  <2>2. Cardinality(1..k) = IF 1 > k THEN 0 ELSE k - 1 + 1
    BY <2>1, FS_Interval
  <2> QED BY <2>1, <2>2
<1>3. Cardinality(Born) = k
  BY <1>1, <1>2
<1>4. (1..k) \cup {k + 1} = 1..(k + 1) /\ k + 1 \notin 1..k
  BY <1>2
<1> QED BY <1>1, <1>2, <1>3, <1>4, TunAssumption DEF HelperPids

LEMMA SpawnKept == ASSUME TunInv, NEW s \in Clients, Spawn(s) PROVE TunInv' /\ KeepsUsersFile
<1>1. PICK p, k, c : p = Cardinality(Born) + 1 /\ k = sessions + 1 /\ c = Command("Start", k)
  OBVIOUS
<1>2. /\ clients[s].st = "none" /\ p <= MaxHelpers /\ sessions' = k
      /\ clients' = [clients EXCEPT ![s] = [st |-> "wait_ready", pid |-> p, session |-> k, fresh |-> TRUE]]
      /\ helper' = [helper EXCEPT ![p].st = "running"] /\ alive' = alive \cup {p}
      /\ commands' = [commands EXCEPT ![p] = <<c>>] /\ UNCHANGED <<answers, files, killed>>
  BY <1>1 DEF Spawn, Born
<1>3. p \in HelperPids /\ p # 0 /\ p \notin Born /\ Born \cup {p} = 1..p /\ p \in 0..MaxHelpers
  <2>1. p \in Nat \ {0} /\ p \notin Born
    BY <1>1, NextPid
  <2>2. p \in HelperPids /\ Born \cup {p} = 1..p
    BY <1>1, <1>2, NextPid
  <2> QED BY <1>2, <2>1, <2>2, TunAssumption DEF HelperPids
<1>4. /\ clients \in [Clients -> ClientRecord] /\ helper \in [HelperPids -> HelperRecord]
      /\ commands \in [HelperPids -> Seq(TunCommands)] /\ sessions \in Nat /\ k \in Nat /\ k # 0
      /\ alive \subseteq HelperPids
  <2>1. sessions \in Nat
    BY DEF TunInv, TunType
  <2>2. k \in Nat /\ k # 0
    BY <1>1, <2>1
  <2> QED BY <2>1, <2>2 DEF TunInv, TunType
<1>5. helper[p] = Unborn /\ answers[p] = <<>> /\ p \notin killed
  BY <1>3 DEF TunInv, BirthInv
<1>6. /\ helper'[p] = [Unborn EXCEPT !.st = "running"] /\ \A q \in HelperPids \ {p} : helper'[q] = helper[q]
  BY <1>2, <1>3, <1>4, <1>5
<1>7. /\ helper'[p].st = "running" /\ helper'[p].phase = "idle" /\ helper'[p].ctx = 0
      /\ helper'[p].held = <<>> /\ helper'[p] \in HelperRecord
  <2>1. helper[p] \in HelperRecord
    BY <1>3, <1>4
  <2>2. helper'[p] = [helper[p] EXCEPT !.st = "running"]
    BY <1>5, <1>6
  <2>3. /\ helper'[p] \in HelperRecord /\ helper'[p].st = "running" /\ helper'[p].phase = helper[p].phase
        /\ helper'[p].ctx = helper[p].ctx /\ helper'[p].held = helper[p].held
    BY <2>1, <2>2 DEF HelperRecord
  <2>4. helper[p].phase = "idle" /\ helper[p].ctx = 0 /\ helper[p].held = <<>>
    BY <1>5 DEF Unborn
  <2> QED BY <2>3, <2>4
<1>8. /\ clients'[s] = [st |-> "wait_ready", pid |-> p, session |-> k, fresh |-> TRUE]
      /\ \A t \in Clients \ {s} : clients'[t] = clients[t]
      /\ clients' \in [Clients -> ClientRecord]
  <2>1. [st |-> "wait_ready", pid |-> p, session |-> k, fresh |-> TRUE] \in ClientRecord
    BY <1>3, <1>4 DEF ClientRecord
  <2> QED BY <1>2, <1>4, <2>1
<1>9. commands'[p] = <<c>> /\ (\A q \in HelperPids \ {p} : commands'[q] = commands[q])
      /\ commands' \in [HelperPids -> Seq(TunCommands)]
  <2>1. <<c>> \in Seq(TunCommands)
    BY <1>1, <1>4 DEF Command, TunCommands
  <2> QED BY <1>2, <1>3, <1>4, <2>1
<1>10. TunType'
  <2>1. helper' \in [HelperPids -> HelperRecord] /\ alive' \subseteq HelperPids
    BY <1>2, <1>3, <1>4, <1>7
  <2> QED BY <1>2, <1>4, <1>8, <1>9, <2>1 DEF TunInv, TunType
<1>11. /\ Born' = Born \cup {p} /\ \A q \in HelperPids : Running(q)' <=> q = p \/ Running(q)
  <2>1. \A q \in HelperPids : q # p => helper'[q].st = helper[q].st
    BY <1>6
  <2>2. \A q : q \in Born' <=> q \in Born \cup {p}
    BY <1>3, <1>7, <2>1 DEF Born
  <2>3. \A q \in HelperPids : Running(q)' <=> q = p \/ Running(q)
    BY <1>7, <2>1 DEF Running
  <2> QED BY <2>2, <2>3
<1>12. BirthInv'
  <2>1. Born' = 1..p
    BY <1>3, <1>11
  <2>2. \A q \in HelperPids \ Born' : helper'[q] = Unborn /\ answers'[q] = <<>> /\ q \notin killed'
    BY <1>2, <1>6, <1>11 DEF TunInv, BirthInv
  <2>3. \A q \in HelperPids : Running(q)' => q \in alive'
    BY <1>2, <1>11 DEF TunInv, BirthInv
  <2> QED BY <1>3, <2>1, <2>2, <2>3 DEF BirthInv
<1>13. \A t \in Clients \ {s} : clients[t].pid # p /\ (clients[t].pid # 0 => clients[t].pid \in HelperPids)
  BY <1>3 DEF TunInv, ClientInv, Born
<1>14. ClientInv'
  BY <1>4, <1>8, <1>11, <1>13 DEF TunInv, ClientInv
<1>15. GuardInv'
  <2>1. Guarded(helper'[p])
    BY <1>7, TunAssumption DEF Guarded
  <2> QED BY <1>6, <1>11, <2>1 DEF TunInv, GuardInv
<1>16. FileInv'
  <2>1. \A n \in Paths : files[n].pid # p
    <3>1. SUFFICES ASSUME NEW n \in Paths, files[n].pid = p PROVE FALSE
      OBVIOUS
    <3>2. Running(p) \/ p \in killed
      BY <1>3, <3>1 DEF TunInv, FileInv, NothingLeft
    <3> QED BY <1>3, <1>5, <3>2 DEF Born, Running
  <2>2. Backed(p)'
    BY <1>2, <1>7, <2>1 DEF Backed
  <2>3. ASSUME NEW q \in HelperPids \ {p}, Running(q) PROVE Backed(q)'
    <3>1. Spares(p)
      BY <1>2 DEF Spares
    <3> QED BY <1>3, <1>6, <1>10, <2>3, <3>1, OthersBacked
  <2>4. NothingLeft'
    <3>1. SUFFICES ASSUME NEW n \in Paths, files[n].pid # 0
                   PROVE  helper'[files[n].pid].st = "running" \/ files[n].pid \in killed
      BY <1>2 DEF NothingLeft, Running
    <3>2. Running(files[n].pid) \/ files[n].pid \in killed
      BY <3>1 DEF TunInv, FileInv, NothingLeft
    <3>3. files[n].pid \in HelperPids
      BY <3>1, FileKinds DEF TunInv, TunFiles, Owned, Empty, NoFile, UserFile
    <3> QED BY <1>11, <3>2, <3>3 DEF Running
  <2> QED BY <1>11, <2>2, <2>3, <2>4 DEF FileInv
<1>17. TalkInv'
  <2>1. SUFFICES ASSUME NEW t \in Clients, clients'[t].pid # 0, helper'[clients'[t].pid].st = "running"
                 PROVE  Agree(t)'
    BY DEF TalkInv, Running
  <2>2. CASE t # s
    <3>1. clients'[t] = clients[t] /\ clients[t].pid \in HelperPids /\ clients[t].pid # p
      BY <1>8, <1>13, <2>1, <2>2
    <3>2. Running(clients[t].pid) /\ clients[t].pid # 0
      BY <1>6, <2>1, <3>1 DEF Running
    <3>3. Agree(t)
      BY <3>2 DEF TunInv, TalkInv
    <3> QED BY <1>2, <1>6, <1>9, <3>1, <3>3, AgreeFrame
  <2>3. CASE t = s
    <3>1. clients'[s].st = "wait_ready" /\ clients'[s].pid = p /\ clients'[s].session = k
      BY <1>8
    <3>2. \A a : Never(p, a)'
      BY <1>2, <1>5 DEF Never
    <3>3. Does(p, {"idle"})' /\ helper'[p].ctx = 0 /\ commands'[p] = <<Command("Start", k)>>
      BY <1>1, <1>7, <1>9 DEF Does
    <3>4. Starts(p, k)'
      BY <3>2, <3>3 DEF Starts
    <3> QED BY <2>3, <3>1, <3>4 DEF Agree
  <2> QED BY <2>2, <2>3
<1> QED BY <1>2, <1>10, <1>12, <1>14, <1>15, <1>16, <1>17 DEF TunInv, KeepsUsersFile

(* What a step of a running helper finds.                                    *)
LEMMA HelperIs ==
    ASSUME TunInv, NEW p \in HelperPids, Running(p)
    PROVE  /\ helper[p] \in HelperRecord /\ helper[p].st = "running" /\ p # 0
           /\ helper[p].held \in Seq(Paths) /\ helper[p].todo \in Seq(Paths)
           /\ Len(helper[p].held) \in Nat
           /\ commands[p] \in Seq(TunCommands) /\ answers[p] \in Seq(TunAnswers)
           /\ Guarded(helper[p]) /\ Backed(p)
           /\ helper \in [HelperPids -> HelperRecord]
           /\ commands \in [HelperPids -> Seq(TunCommands)] /\ answers \in [HelperPids -> Seq(TunAnswers)]
           /\ files \in [Paths -> TunFiles]
<1>1. helper[p] \in HelperRecord
  BY DEF TunInv, TunType
<1>2. helper[p].held \in Seq(Paths) /\ helper[p].todo \in Seq(Paths)
  BY <1>1 DEF HelperRecord
<1>3. Len(helper[p].held) \in Nat
  BY <1>2, LenProperties
<1>4. Guarded(helper[p]) /\ Backed(p) /\ p # 0
  BY TunAssumption DEF TunInv, GuardInv, FileInv, HelperPids
<1> QED BY <1>1, <1>2, <1>3, <1>4 DEF TunInv, TunType, Running

(* One more answer in the pipe.                                              *)
LEMMA AnswerIsPut ==
    ASSUME TunInv, NEW p \in HelperPids, NEW e \in TunAnswers,
           answers' = [answers EXCEPT ![p] = Append(@, e)]
    PROVE  /\ answers' \in [HelperPids -> Seq(TunAnswers)] /\ answers'[p] = Append(answers[p], e)
           /\ \A q \in HelperPids \ {p} : answers'[q] = answers[q]
           /\ \A a : Never(p, a)' <=> Never(p, a) /\ e # a
           /\ answers'[p] # <<>> /\ Len(answers'[p]) \in Nat
<1>1. answers \in [HelperPids -> Seq(TunAnswers)] /\ answers[p] \in Seq(TunAnswers)
  BY DEF TunInv, TunType
<1>2. /\ Append(answers[p], e) \in Seq(TunAnswers) /\ Len(answers[p]) \in Nat
      /\ Len(Append(answers[p], e)) = Len(answers[p]) + 1
      /\ Append(answers[p], e)[Len(answers[p]) + 1] = e
      /\ \A i \in 1..Len(answers[p]) : Append(answers[p], e)[i] = answers[p][i]
  BY <1>1, AppendProperties, LenProperties
<1>3. /\ answers' \in [HelperPids -> Seq(TunAnswers)] /\ answers'[p] = Append(answers[p], e)
      /\ \A q \in HelperPids \ {p} : answers'[q] = answers[q]
  BY <1>1, <1>2
<1>4. ASSUME NEW a PROVE Never(p, a)' <=> Never(p, a) /\ e # a
  <2>1. CASE Never(p, a)'
    <3>1. answers'[p][Len(answers[p]) + 1] # a
      BY <1>2, <1>3, <2>1 DEF Never
    <3>2. ASSUME NEW i \in 1..Len(answers[p]) PROVE answers[p][i] # a
      BY <1>2, <1>3, <2>1 DEF Never
    <3> QED BY <1>2, <1>3, <2>1, <3>1, <3>2 DEF Never
  <2>2. CASE Never(p, a) /\ e # a
    BY <1>2, <1>3, <2>2 DEF Never
  <2> QED BY <2>1, <2>2
<1>5. answers'[p] # <<>>
  BY <1>2, <1>3
<1> QED BY <1>2, <1>3, <1>4, <1>5

(* A new state of one helper that goes on; files are left as they are.       *)
LEMMA Goes ==
    ASSUME TunInv, NEW p \in HelperPids, Running(p), NEW h \in HelperRecord, helper' = [helper EXCEPT ![p] = h],
           h.held = helper[p].held, h.phase # "write", helper[p].phase # "write", UNCHANGED files
    PROVE  /\ helper' \in [HelperPids -> HelperRecord] /\ helper'[p] = h
           /\ \A q \in HelperPids \ {p} : helper'[q] = helper[q]
           /\ Spares(p) /\ Backed(p)'
<1>1. helper \in [HelperPids -> HelperRecord] /\ Backed(p)
  BY HelperIs
<1>2. helper'[p] = h
  BY <1>1
<1>3. Backed(p)'
  BY <1>1, <1>2 DEF Backed
<1> QED BY <1>1, <1>2, <1>3 DEF Spares

(* emit_tun_helper_event: the event, or the end of the helper.               *)
LEMMA EmitsIs ==
    ASSUME TunInv, NEW p \in HelperPids, Running(p), NEW h \in HelperRecord, NEW e \in TunAnswers, Emits(p, h, e),
           h.st = "running", h.held = helper[p].held, h.phase # "write", helper[p].phase # "write",
           Guarded(h), UNCHANGED files
    PROVE  /\ helper' \in [HelperPids -> HelperRecord] /\ helper'[p].st = "running" /\ Guarded(helper'[p])
           /\ \A q \in HelperPids \ {p} : helper'[q] = helper[q] /\ answers'[q] = answers[q]
           /\ answers' \in [HelperPids -> Seq(TunAnswers)]
           /\ Spares(p) /\ Backed(p)'
           /\ Connected(p) => helper'[p] = h /\ answers' = [answers EXCEPT ![p] = Append(@, e)]
<1>1. CASE Connected(p)
  <2>1. helper' = [helper EXCEPT ![p] = h] /\ answers' = [answers EXCEPT ![p] = Append(@, e)]
    BY <1>1 DEF Emits
  <2>2. /\ helper' \in [HelperPids -> HelperRecord] /\ helper'[p] = h
        /\ \A q \in HelperPids \ {p} : helper'[q] = helper[q]
        /\ Spares(p) /\ Backed(p)'
    BY <2>1, Goes
  <2>3. /\ answers' \in [HelperPids -> Seq(TunAnswers)]
        /\ \A q \in HelperPids \ {p} : answers'[q] = answers[q]
    BY <2>1, AnswerIsPut
  <2> QED BY <2>1, <2>2, <2>3
<1>2. CASE ~Connected(p)
  <2> DEFINE g == [h EXCEPT !.phase = "undo", !.then = "exit"]
  <2>1. helper' = [helper EXCEPT ![p] = g] /\ UNCHANGED answers
    BY <1>2 DEF Emits
  <2>2. /\ g \in HelperRecord /\ g.st = "running" /\ g.held = helper[p].held /\ g.phase = "undo" /\ g.then = "exit"
    BY DEF HelperRecord
  <2>3. /\ helper' \in [HelperPids -> HelperRecord] /\ helper'[p] = g
        /\ \A q \in HelperPids \ {p} : helper'[q] = helper[q]
        /\ Spares(p) /\ Backed(p)'
    BY <2>1, <2>2, Goes
  <2>4. Guarded(g)
    BY <2>2 DEF Guarded
  <2>5. answers' \in [HelperPids -> Seq(TunAnswers)]
    BY <2>1 DEF TunInv, TunType
  <2> QED BY <1>2, <2>1, <2>2, <2>3, <2>4, <2>5
<1> QED BY <1>1, <1>2

(* The next command is taken from the pipe.                                  *)
LEMMA TakenIs ==
    ASSUME TunInv, NEW p \in HelperPids, NEW c, Takes(p, c)
    PROVE  /\ Running(p) /\ helper[p].phase = "idle" /\ Head(commands[p]) = commands[p][1]
           /\ commands[p][1].op = c /\ commands[p][1] \in TunCommands /\ 1 \in 1..Len(commands[p])
           /\ commands' \in [HelperPids -> Seq(TunCommands)] /\ commands'[p] = Tail(commands[p])
           /\ \A q \in HelperPids \ {p} : commands'[q] = commands[q]
           /\ Len(commands[p]) \in Nat \ {0} /\ Len(commands'[p]) = Len(commands[p]) - 1
           /\ commands[p] # <<>> /\ (commands'[p] = <<>> <=> Len(commands[p]) = 1)
           /\ \A i \in 1..Len(commands'[p]) : i + 1 \in 1..Len(commands[p]) /\ commands'[p][i] = commands[p][i + 1]
<1>1. commands \in [HelperPids -> Seq(TunCommands)] /\ commands[p] \in Seq(TunCommands)
  BY DEF TunInv, TunType
<1>2. /\ Running(p) /\ helper[p].phase = "idle" /\ commands[p] # <<>> /\ Head(commands[p]).op = c
      /\ commands' = [commands EXCEPT ![p] = Tail(commands[p])]
  BY DEF Takes
<1>3. /\ Tail(commands[p]) \in Seq(TunCommands) /\ Len(commands[p]) \in Nat \ {0}
      /\ Len(Tail(commands[p])) = Len(commands[p]) - 1
      /\ \A i \in 1..Len(Tail(commands[p])) :
            i + 1 \in 1..Len(commands[p]) /\ Tail(commands[p])[i] = commands[p][i + 1]
      /\ Head(commands[p]) = commands[p][1] /\ 1 \in 1..Len(commands[p])
  BY <1>1, <1>2, TailIs
<1>4. commands' \in [HelperPids -> Seq(TunCommands)] /\ commands'[p] = Tail(commands[p])
      /\ \A q \in HelperPids \ {p} : commands'[q] = commands[q]
  BY <1>1, <1>2, <1>3
<1>5. commands[p][1] \in TunCommands
  BY <1>1, <1>3
<1>6. commands'[p] = <<>> <=> Len(commands[p]) = 1
  <2>1. \A r \in Seq(TunCommands) : r = <<>> <=> Len(r) = 0
    BY EmptySeq
  <2>2. Tail(commands[p]) = <<>> <=> Len(Tail(commands[p])) = 0
    BY <1>3, <2>1
  <2> QED BY <1>3, <1>4, <2>2
<1> QED BY <1>2, <1>3, <1>4, <1>5, <1>6

(* What a command can be, by what its client waits for.                      *)
LEMMA TakenTalk ==
    ASSUME TunInv, NEW p \in HelperPids, NEW c, Takes(p, c), NEW s \in Clients, clients[s].pid = p
    PROVE  /\ clients[s].st # "idle"
           /\ clients[s].st = "wait_ready" =>
                 /\ c = "Start" /\ helper[p].ctx = 0 /\ commands[p][1].session = clients[s].session
                 /\ commands'[p] = <<>> /\ Never(p, "Stopped") /\ Never(p, "Ready")
           /\ clients[s].st = "up" =>
                 /\ c = "Packet" /\ helper[p].ctx = clients[s].session /\ Never(p, "Stopped")
                 /\ \A i \in 1..Len(commands'[p]) : commands'[p][i].op = "Packet"
           /\ clients[s].st = "wait_stopped" =>
                 /\ c # "Stop" /\ Never(p, "Stopped")
                 /\ c = "Reset" => commands'[p] = <<>>
                 /\ c # "Reset" =>
                       /\ commands'[p] # <<>>
                       /\ \A i \in 1..Len(commands'[p]) :
                             IF i = Len(commands'[p]) THEN commands'[p][i].op = "Reset"
                             ELSE commands'[p][i].op \in {"Start", "Packet"}
<1>1. PICK q, r : q = commands[p] /\ r = Tail(q)
  OBVIOUS
<1>2. /\ Running(p) /\ helper[p].phase = "idle" /\ q[1].op = c /\ 1 \in 1..Len(q) /\ commands'[p] = r
      /\ Len(q) \in Nat \ {0} /\ Len(r) = Len(q) - 1 /\ \A i \in 1..Len(r) : i + 1 \in 1..Len(q) /\ r[i] = q[i + 1]
      /\ q # <<>> /\ (r = <<>> <=> Len(q) = 1)
  BY <1>1, TakenIs
<1>3. Agree(s)
  BY <1>2, TunAssumption DEF TunInv, TalkInv, HelperPids
<1>4. clients[s].st # "idle"
  BY <1>1, <1>2, <1>3 DEF Agree, Rests
<1>5. CASE clients[s].st = "wait_ready"
  <2>1. Starts(p, clients[s].session)
    BY <1>3, <1>5 DEF Agree
  <2>2. /\ Never(p, "Stopped") /\ Never(p, "Ready") /\ helper[p].ctx = 0
        /\ q = <<Command("Start", clients[s].session)>>
    BY <1>1, <1>2, <2>1 DEF Starts, Does
  <2>3. q[1] = Command("Start", clients[s].session) /\ Len(q) = 1
    BY <2>2
  <2>4. r = <<>>
    BY <1>2, <2>3
  <2> QED BY <1>1, <1>2, <1>5, <2>2, <2>3, <2>4 DEF Command
<1>6. CASE clients[s].st = "up"
  <2>1. ServesNow(p, clients[s].session)
    BY <1>3, <1>6 DEF Agree
  <2>2. /\ Never(p, "Stopped") /\ helper[p].ctx = clients[s].session /\ \A i \in 1..Len(q) : q[i].op = "Packet"
    BY <1>1, <2>1 DEF ServesNow
  <2> QED BY <1>1, <1>2, <1>6, <2>2
<1>7. CASE clients[s].st = "wait_stopped"
  <2>1. ResetComes(p)
    BY <1>1, <1>2, <1>3, <1>7 DEF Agree, ResetGoes, ResetDone, Rests
  <2>2. /\ Never(p, "Stopped")
        /\ \A i \in 1..Len(q) : IF i = Len(q) THEN q[i].op = "Reset" ELSE q[i].op \in {"Start", "Packet"}
    BY <1>1, <2>1 DEF ResetComes
  <2>3. c = "Reset" => r = <<>>
    <3>1. c = "Reset" => Len(q) = 1
      BY <1>2, <2>2
    <3> QED BY <1>2, <3>1
  <2>4. c # "Reset" => Len(q) # 1 /\ Len(r) # 0
    BY <1>2, <2>2
  <2>5. ASSUME NEW i \in 1..Len(r) PROVE IF i = Len(r) THEN r[i].op = "Reset" ELSE r[i].op \in {"Start", "Packet"}
    BY <1>2, <2>2
  <2>6. c # "Stop"
    BY <1>2, <2>2
  <2>7. c # "Reset" => r # <<>>
    BY <1>2, <2>4
  <2> QED BY <1>2, <1>7, <2>2, <2>3, <2>5, <2>6, <2>7
<1> QED BY <1>4, <1>5, <1>6, <1>7

LEMMA HelperStartKept == ASSUME TunInv, NEW p \in HelperPids, HelperStart(p) PROVE TunInv' /\ KeepsUsersFile
<1>1. PICK k, n : k = helper[p].ctx /\ n = commands[p][1].session
  OBVIOUS
<1>2. Takes(p, "Start") /\ UNCHANGED <<clients, files, alive, killed, sessions>>
  BY DEF HelperStart, System
<1>3. /\ Running(p) /\ helper[p].phase = "idle" /\ Head(commands[p]).session = n /\ n \in Nat \ {0}
      /\ commands' \in [HelperPids -> Seq(TunCommands)]
      /\ \A q \in HelperPids \ {p} : commands'[q] = commands[q]
  <2>1. /\ Running(p) /\ helper[p].phase = "idle" /\ Head(commands[p]) = commands[p][1]
        /\ commands[p][1].op = "Start" /\ commands[p][1] \in TunCommands
        /\ commands' \in [HelperPids -> Seq(TunCommands)]
        /\ \A q \in HelperPids \ {p} : commands'[q] = commands[q]
    BY <1>2, TakenIs
  <2>2. n \in Nat \ {0}
    BY <1>1, <2>1 DEF TunCommands
  <2> QED BY <1>1, <2>1, <2>2
<1>4. /\ helper[p] \in HelperRecord /\ helper[p].st = "running" /\ Guarded(helper[p])
      /\ answers \in [HelperPids -> Seq(TunAnswers)]
  BY <1>3, HelperIs
<1>5. CASE Emits(p, helper[p], "Error")
  <2>1. /\ helper' \in [HelperPids -> HelperRecord] /\ helper'[p].st = "running" /\ Guarded(helper'[p])
        /\ \A q \in HelperPids \ {p} : helper'[q] = helper[q] /\ answers'[q] = answers[q]
        /\ answers' \in [HelperPids -> Seq(TunAnswers)] /\ Spares(p) /\ Backed(p)'
        /\ Connected(p) => helper'[p] = helper[p] /\ answers' = [answers EXCEPT ![p] = Append(@, "Error")]
    BY <1>2, <1>3, <1>4, <1>5, EmitsIs DEF TunAnswers
  <2>2. TunType'
    BY <1>2, <1>3, <2>1 DEF TunInv, TunType
  <2>3. ASSUME NEW s \in Clients, clients[s].pid = p PROVE Agree(s)'
    <3>1. helper'[p] = helper[p] /\ \A a : Never(p, a)' <=> Never(p, a) /\ a # "Error"
      <4>1. Connected(p)
        BY <2>3 DEF Connected
      <4> QED BY <2>1, <4>1, AnswerIsPut DEF TunAnswers
    <3>2. clients'[s] = clients[s] /\ \A P : Does(p, P)' <=> Does(p, P)
      BY <1>2, <3>1 DEF Does
    <3>3. /\ clients[s].st # "idle" /\ clients[s].st # "up"
          /\ clients[s].st = "wait_ready" =>
                /\ helper[p].ctx = 0 /\ commands'[p] = <<>> /\ Never(p, "Stopped") /\ Never(p, "Ready")
          /\ clients[s].st = "wait_stopped" =>
                /\ Never(p, "Stopped") /\ commands'[p] # <<>>
                /\ \A i \in 1..Len(commands'[p]) :
                      IF i = Len(commands'[p]) THEN commands'[p][i].op = "Reset"
                      ELSE commands'[p][i].op \in {"Start", "Packet"}
      BY <1>2, <2>3, TakenTalk
    <3>4. CASE clients[s].st = "wait_ready"
      <4>1. Starts(p, clients[s].session)'
        BY <1>3, <3>1, <3>2, <3>3, <3>4 DEF Starts, Does
      <4> QED BY <2>3, <3>2, <3>4, <4>1 DEF Agree
    <3>5. CASE clients[s].st = "wait_stopped"
      <4>1. ResetComes(p)'
        BY <1>3, <3>1, <3>2, <3>3, <3>5 DEF ResetComes, Does
      <4> QED BY <2>3, <3>2, <3>5, <4>1 DEF Agree
    <3> QED BY <2>3, <3>2, <3>3, <3>4, <3>5 DEF Agree
  <2> QED BY <1>2, <1>3, <2>1, <2>2, <2>3, HelperFrame
<1>6. CASE /\ k = 0 /\ UNCHANGED answers
           /\ helper' = [helper EXCEPT ![p] = [helper[p] EXCEPT !.phase = "inspect", !.todo = Names, !.new = n]]
  <2> DEFINE h == [helper[p] EXCEPT !.phase = "inspect", !.todo = Names, !.new = n]
  <2>1. Names \in Seq(Paths) /\ Len(Names) = NumNames /\ \A i \in 1..NumNames : Names[i] = i
    BY TunAssumption, LenProperties DEF Names, Paths
  <2>2. /\ h \in HelperRecord /\ h.st = "running" /\ h.held = helper[p].held /\ h.phase = "inspect"
        /\ h.todo = Names /\ h.new = n /\ h.ctx = helper[p].ctx
    BY <1>3, <1>4, <2>1 DEF HelperRecord
  <2>3. /\ helper' \in [HelperPids -> HelperRecord] /\ helper'[p] = h
        /\ \A q \in HelperPids \ {p} : helper'[q] = helper[q]
        /\ Spares(p) /\ Backed(p)'
    BY <1>2, <1>3, <1>6, <2>2, Goes
  <2>4. Guarded(h)
    <3>1. Len(helper[p].held) = 0
      BY <1>1, <1>3, <1>4, <1>6 DEF Guarded
    <3> QED BY <1>3, <2>1, <2>2, <3>1, TunAssumption DEF Guarded
  <2>5. TunType'
    BY <1>2, <1>3, <1>6, <2>3 DEF TunInv, TunType
  <2>6. ASSUME NEW s \in Clients, clients[s].pid = p PROVE Agree(s)'
    <3>1. /\ clients'[s] = clients[s] /\ (\A a : Never(p, a)' <=> Never(p, a))
          /\ Does(p, {"inspect", "create", "write"})' /\ ~Does(p, {"undo"})'
          /\ helper'[p].new = n
      BY <1>2, <1>6, <2>2, <2>3 DEF Never, Does
    <3>2. /\ clients[s].st # "idle" /\ clients[s].st # "up"
          /\ clients[s].st = "wait_ready" =>
                /\ n = clients[s].session /\ commands'[p] = <<>> /\ Never(p, "Stopped") /\ Never(p, "Ready")
          /\ clients[s].st = "wait_stopped" =>
                /\ Never(p, "Stopped") /\ commands'[p] # <<>>
                /\ \A i \in 1..Len(commands'[p]) :
                      IF i = Len(commands'[p]) THEN commands'[p][i].op = "Reset"
                      ELSE commands'[p][i].op \in {"Start", "Packet"}
      BY <1>1, <1>2, <2>6, TakenTalk
    <3>3. clients[s].st = "wait_ready" => Starts(p, clients[s].session)'
      BY <3>1, <3>2 DEF Starts
    <3>4. clients[s].st = "wait_stopped" => ResetComes(p)'
      BY <3>1, <3>2 DEF ResetComes
    <3> QED BY <2>6, <3>1, <3>2, <3>3, <3>4 DEF Agree
  <2> QED BY <1>2, <1>3, <1>6, <2>2, <2>3, <2>4, <2>5, <2>6, HelperFrame
<1> QED BY <1>1, <1>3, <1>5, <1>6 DEF HelperStart

LEMMA HelperPacketKept == ASSUME TunInv, NEW p \in HelperPids, HelperPacket(p) PROVE TunInv' /\ KeepsUsersFile
<1>1. Takes(p, "Packet") /\ UNCHANGED <<clients, files, alive, killed, sessions>>
  BY DEF HelperPacket, System
<1>2. /\ Running(p) /\ helper[p].phase = "idle"
      /\ commands' \in [HelperPids -> Seq(TunCommands)]
      /\ \A q \in HelperPids \ {p} : commands'[q] = commands[q]
  BY <1>1, TakenIs
<1>3. /\ helper[p] \in HelperRecord /\ helper[p].st = "running" /\ Guarded(helper[p])
      /\ answers \in [HelperPids -> Seq(TunAnswers)] /\ helper \in [HelperPids -> HelperRecord] /\ Backed(p)
  BY <1>2, HelperIs
<1>4. /\ helper' \in [HelperPids -> HelperRecord] /\ helper'[p].st = "running" /\ Guarded(helper'[p])
      /\ \A q \in HelperPids \ {p} : helper'[q] = helper[q] /\ answers'[q] = answers[q]
      /\ answers' \in [HelperPids -> Seq(TunAnswers)] /\ Spares(p) /\ Backed(p)'
      /\ Connected(p) => helper'[p] = helper[p] /\ \A a : Never(p, a) /\ a # "Error" => Never(p, a)'
  <2>1. CASE Emits(p, helper[p], "Error")
    <3>1. /\ helper' \in [HelperPids -> HelperRecord] /\ helper'[p].st = "running" /\ Guarded(helper'[p])
          /\ \A q \in HelperPids \ {p} : helper'[q] = helper[q] /\ answers'[q] = answers[q]
          /\ answers' \in [HelperPids -> Seq(TunAnswers)] /\ Spares(p) /\ Backed(p)'
          /\ Connected(p) => helper'[p] = helper[p] /\ answers' = [answers EXCEPT ![p] = Append(@, "Error")]
      BY <1>1, <1>2, <1>3, <2>1, EmitsIs DEF TunAnswers
    <3>2. Connected(p) => \A a : Never(p, a)' <=> Never(p, a) /\ "Error" # a
      BY <3>1, AnswerIsPut DEF TunAnswers
    <3> QED BY <3>1, <3>2
  <2>2. CASE UNCHANGED <<helper, answers>>
    BY <1>1, <1>3, <2>2 DEF Spares, Backed, Never
  <2> QED BY <2>1, <2>2 DEF HelperPacket
<1>5. TunType'
  BY <1>1, <1>2, <1>4 DEF TunInv, TunType
<1>6. ASSUME NEW s \in Clients, clients[s].pid = p PROVE Agree(s)'
  <2>1. Connected(p)
    BY <1>6 DEF Connected
  <2>2. /\ clients'[s] = clients[s] /\ helper'[p] = helper[p] /\ (Never(p, "Stopped") => Never(p, "Stopped")')
        /\ Does(p, {"idle"})' /\ ~Does(p, {"undo"})'
    BY <1>1, <1>2, <1>4, <2>1 DEF Does
  <2>3. /\ clients[s].st # "idle" /\ clients[s].st # "wait_ready"
        /\ clients[s].st = "up" =>
              /\ helper[p].ctx = clients[s].session /\ Never(p, "Stopped")
              /\ \A i \in 1..Len(commands'[p]) : commands'[p][i].op = "Packet"
        /\ clients[s].st = "wait_stopped" =>
              /\ Never(p, "Stopped") /\ commands'[p] # <<>>
              /\ \A i \in 1..Len(commands'[p]) :
                    IF i = Len(commands'[p]) THEN commands'[p][i].op = "Reset"
                    ELSE commands'[p][i].op \in {"Start", "Packet"}
    BY <1>1, <1>6, TakenTalk
  <2>4. clients[s].st = "up" => ServesNow(p, clients[s].session)'
    BY <2>2, <2>3 DEF ServesNow
  <2>5. clients[s].st = "wait_stopped" => ResetComes(p)'
    BY <2>2, <2>3 DEF ResetComes
  <2> QED BY <1>6, <2>2, <2>3, <2>4, <2>5 DEF Agree
<1> QED BY <1>1, <1>2, <1>4, <1>5, <1>6, HelperFrame

LEMMA HelperEndsKept == ASSUME TunInv, NEW p \in HelperPids, HelperEnds(p) PROVE TunInv' /\ KeepsUsersFile
<1>1. PICK c \in {"Reset", "Stop"}, e \in {"Stopped", "exit"} :
          /\ Takes(p, c) /\ e = (IF c = "Reset" THEN "Stopped" ELSE "exit")
          /\ helper' = [helper EXCEPT ![p] = [helper[p] EXCEPT !.phase = "undo", !.reader = FALSE, !.then = e]]
          /\ UNCHANGED <<clients, answers, files, alive, killed, sessions>>
  BY DEF HelperEnds, System, Counters
<1>2. /\ Running(p) /\ helper[p].phase = "idle" /\ helper[p] \in HelperRecord /\ helper[p].st = "running"
      /\ commands' \in [HelperPids -> Seq(TunCommands)]
      /\ (\A q \in HelperPids \ {p} : commands'[q] = commands[q])
      /\ Guarded(helper[p]) /\ answers \in [HelperPids -> Seq(TunAnswers)]
  BY <1>1, TakenIs, HelperIs
<1> DEFINE h == [helper[p] EXCEPT !.phase = "undo", !.reader = FALSE, !.then = e]
<1>3. /\ h \in HelperRecord /\ h.st = "running" /\ h.held = helper[p].held /\ h.phase = "undo" /\ h.then = e
      /\ h.reader = FALSE
  BY <1>2 DEF HelperRecord
<1>4. /\ helper' \in [HelperPids -> HelperRecord] /\ helper'[p] = h
      /\ \A q \in HelperPids \ {p} : helper'[q] = helper[q]
      /\ Spares(p) /\ Backed(p)'
  BY <1>1, <1>2, <1>3, Goes
<1>5. Guarded(h)
  BY <1>2, <1>3 DEF Guarded
<1>6. TunType'
  BY <1>1, <1>2, <1>4 DEF TunInv, TunType
<1>7. ASSUME NEW s \in Clients, clients[s].pid = p PROVE Agree(s)'
  <2>1. /\ clients[s].st # "idle" /\ clients[s].st # "wait_ready" /\ clients[s].st # "up"
        /\ clients[s].st = "wait_stopped" => c = "Reset" /\ Never(p, "Stopped") /\ commands'[p] = <<>>
    BY <1>1, <1>7, TakenTalk
  <2>2. clients'[s] = clients[s] /\ (Never(p, "Stopped") => Never(p, "Stopped")') /\ Does(p, {"undo"})'
    BY <1>1, <1>3, <1>4 DEF Never, Does
  <2>3. clients[s].st = "wait_stopped" => ResetGoes(p)'
    BY <1>1, <1>3, <1>4, <2>1, <2>2 DEF ResetGoes
  <2> QED BY <1>7, <2>1, <2>2, <2>3 DEF Agree
<1>8. \A q \in HelperPids \ {p} : answers'[q] = answers[q]
  BY <1>1
<1> QED BY <1>1, <1>2, <1>3, <1>4, <1>5, <1>6, <1>7, <1>8, HelperFrame

LEMMA HelperEofKept == ASSUME TunInv, NEW p \in HelperPids, HelperEof(p) PROVE TunInv' /\ KeepsUsersFile
<1> DEFINE h == [helper[p] EXCEPT !.phase = "undo", !.reader = FALSE, !.then = "exit"]
<1>1. /\ Running(p) /\ helper[p].phase = "idle" /\ ~Connected(p) /\ helper' = [helper EXCEPT ![p] = h]
      /\ UNCHANGED <<clients, commands, answers, files, alive, killed, sessions>>
  BY DEF HelperEof, System, Counters
<1>2. helper[p] \in HelperRecord /\ helper[p].st = "running" /\ Guarded(helper[p])
  BY <1>1, HelperIs
<1>3. h \in HelperRecord /\ h.st = "running" /\ h.held = helper[p].held /\ h.phase = "undo" /\ h.then = "exit"
  BY <1>2 DEF HelperRecord
<1>4. /\ helper' \in [HelperPids -> HelperRecord] /\ helper'[p] = h
      /\ \A q \in HelperPids \ {p} : helper'[q] = helper[q]
      /\ Spares(p) /\ Backed(p)'
  BY <1>1, <1>2, <1>3, Goes
<1>5. Guarded(h)
  BY <1>2, <1>3 DEF Guarded
<1>6. TunType'
  BY <1>1, <1>4 DEF TunInv, TunType
<1>7. \A s \in Clients : clients[s].pid # p
  BY <1>1 DEF Connected
<1> QED BY <1>1, <1>3, <1>4, <1>5, <1>6, <1>7, HelperFrame

LEMMA ReaderKept == ASSUME TunInv, NEW p \in HelperPids, Reader(p) PROVE TunInv' /\ KeepsUsersFile
<1>1. PICK e \in {"Packet", "Error"}, r \in BOOLEAN :
          /\ Running(p) /\ helper[p].reader /\ answers' = [answers EXCEPT ![p] = Append(@, e)]
          /\ \/ UNCHANGED helper
             \/ helper' = [helper EXCEPT ![p] = [helper[p] EXCEPT !.reader = FALSE]]
          /\ UNCHANGED <<clients, commands, files, alive, killed, sessions>>
  BY DEF Reader, System
<1>2. /\ helper[p] \in HelperRecord /\ helper[p].st = "running" /\ Guarded(helper[p]) /\ Backed(p)
      /\ helper \in [HelperPids -> HelperRecord]
  BY <1>1, HelperIs
<1>3. /\ answers' \in [HelperPids -> Seq(TunAnswers)] /\ (\A q \in HelperPids \ {p} : answers'[q] = answers[q])
      /\ \A a : Never(p, a)' <=> Never(p, a) /\ e # a
  <2>1. e \in TunAnswers
    BY DEF TunAnswers
  <2> QED BY <1>1, <2>1, AnswerIsPut
<1>4. /\ helper' \in [HelperPids -> HelperRecord] /\ (\A q \in HelperPids \ {p} : helper'[q] = helper[q])
      /\ helper'[p].phase = helper[p].phase /\ helper'[p].ctx = helper[p].ctx /\ helper'[p].new = helper[p].new
      /\ helper'[p].then = helper[p].then /\ helper'[p].held = helper[p].held /\ helper'[p].st = "running"
      /\ helper'[p].todo = helper[p].todo
  <2>1. CASE UNCHANGED helper
    BY <1>2, <2>1
  <2>2. CASE helper' = [helper EXCEPT ![p] = [helper[p] EXCEPT !.reader = FALSE]]
    <3>1. helper'[p] = [helper[p] EXCEPT !.reader = FALSE] /\ \A q \in HelperPids \ {p} : helper'[q] = helper[q]
      BY <1>2, <2>2
    <3>2. [helper[p] EXCEPT !.reader = FALSE] \in HelperRecord
      BY <1>2 DEF HelperRecord
    <3>3. helper' \in [HelperPids -> HelperRecord]
      BY <1>2, <2>2, <3>2
    <3> QED BY <1>2, <3>1, <3>3 DEF HelperRecord
  <2> QED BY <1>1, <2>1, <2>2
<1>5. Guarded(helper'[p])
  BY <1>2, <1>4 DEF Guarded
<1>6. Spares(p) /\ Backed(p)'
  BY <1>1, <1>2, <1>4 DEF Spares, Backed
<1>7. TunType'
  BY <1>1, <1>3, <1>4 DEF TunInv, TunType
<1>8. ASSUME NEW s \in Clients, clients[s].pid = p PROVE Agree(s)'
  <2>1. Agree(s)
    BY <1>1, <1>8, TunAssumption DEF TunInv, TalkInv, HelperPids
  <2>2. /\ clients'[s] = clients[s] /\ commands'[p] = commands[p] /\ (\A P : Does(p, P)' <=> Does(p, P))
        /\ (Never(p, "Ready") => Never(p, "Ready")') /\ (Never(p, "Stopped") => Never(p, "Stopped")')
    BY <1>1, <1>3, <1>4 DEF Does
  <2>3. clients[s].st # "idle"
    BY <1>1, <1>8, <2>1 DEF Agree, Rests
  <2>4. clients[s].st = "wait_ready" => Starts(p, clients[s].session)'
    BY <1>4, <1>8, <2>1, <2>2 DEF Agree, Starts
  <2>5. clients[s].st = "up" => ServesNow(p, clients[s].session)'
    BY <1>4, <1>8, <2>1, <2>2 DEF Agree, ServesNow
  <2>6. clients[s].st = "wait_stopped" => ResetComes(p)'
    <3>1. clients[s].st = "wait_stopped" => ResetComes(p)
      BY <1>1, <1>8, <2>1 DEF Agree, ResetGoes, ResetDone, Rests
    <3> QED BY <1>4, <2>2, <3>1 DEF ResetComes
  <2> QED BY <1>8, <2>2, <2>3, <2>4, <2>5, <2>6 DEF Agree
<1>9. \A q \in HelperPids \ {p} : commands'[q] = commands[q]
  BY <1>1
<1> QED BY <1>1, <1>3, <1>4, <1>5, <1>6, <1>7, <1>8, <1>9, HelperFrame

LEMMA InstalledKept == ASSUME TunInv, NEW p \in HelperPids, Installed(p) PROVE TunInv' /\ KeepsUsersFile
<1> DEFINE h == [helper[p] EXCEPT !.phase = "idle", !.ctx = helper[p].new, !.reader = TRUE]
<1>1. /\ Running(p) /\ helper[p].phase = "inspect" /\ helper[p].todo = <<>> /\ Emits(p, h, "Ready")
      /\ UNCHANGED <<clients, commands, files, alive, killed, sessions>>
  BY DEF Installed, System, Counters
<1>2. helper[p] \in HelperRecord /\ helper[p].st = "running" /\ Guarded(helper[p]) /\ Len(helper[p].held) \in Nat
  BY <1>1, HelperIs
<1>3. /\ h \in HelperRecord /\ h.st = "running" /\ h.held = helper[p].held /\ h.phase = "idle"
      /\ h.ctx = helper[p].new
  BY <1>2 DEF HelperRecord
<1>4. Guarded(h)
  <2>1. Len(helper[p].todo) = 0
    BY <1>1
  <2>2. Len(helper[p].held) = NumNames /\ helper[p].new # 0
    BY <1>1, <1>2, <2>1, TunAssumption DEF Guarded
  <2> QED BY <1>2, <1>3, <2>2 DEF Guarded
<1>5. /\ helper' \in [HelperPids -> HelperRecord] /\ helper'[p].st = "running" /\ Guarded(helper'[p])
      /\ \A q \in HelperPids \ {p} : helper'[q] = helper[q] /\ answers'[q] = answers[q]
      /\ answers' \in [HelperPids -> Seq(TunAnswers)] /\ Spares(p) /\ Backed(p)'
      /\ Connected(p) => helper'[p] = h /\ answers' = [answers EXCEPT ![p] = Append(@, "Ready")]
  BY <1>1, <1>2, <1>3, <1>4, EmitsIs DEF TunAnswers
<1>6. TunType'
  BY <1>1, <1>5 DEF TunInv, TunType
<1>7. ASSUME NEW s \in Clients, clients[s].pid = p PROVE Agree(s)'
  <2>1. Agree(s)
    BY <1>1, <1>7, TunAssumption DEF TunInv, TalkInv, HelperPids
  <2>2. helper'[p] = h /\ \A a : Never(p, a)' <=> Never(p, a) /\ "Ready" # a
    <3>1. Connected(p)
      BY <1>7 DEF Connected
    <3> QED BY <1>5, <3>1, AnswerIsPut DEF TunAnswers
  <2>3. clients[s].st # "idle" /\ clients[s].st # "up"
    BY <1>1, <1>7, <2>1 DEF Agree, Rests, ServesNow, Does
  <2>4. clients[s].st = "wait_ready" => Starts(p, clients[s].session)'
    <3>1. clients[s].st = "wait_ready" =>
              helper[p].new = clients[s].session /\ commands[p] = <<>> /\ Never(p, "Stopped")
      BY <1>1, <1>7, <2>1 DEF Agree, Starts, Does
    <3> QED BY <1>1, <1>3, <2>2, <3>1 DEF Starts, Does
  <2>5. clients[s].st = "wait_stopped" => ResetComes(p)'
    <3>1. clients[s].st = "wait_stopped" => ResetComes(p)
      BY <1>1, <1>7, <2>1 DEF Agree, ResetGoes, ResetDone, Rests, Does
    <3> QED BY <1>1, <1>3, <2>2, <3>1 DEF ResetComes, Does
  <2> QED BY <1>1, <1>7, <2>3, <2>4, <2>5 DEF Agree
<1>8. \A q \in HelperPids \ {p} : commands'[q] = commands[q]
  BY <1>1
<1> QED BY <1>1, <1>5, <1>6, <1>7, <1>8, HelperFrame

LEMMA UndoneKept == ASSUME TunInv, NEW p \in HelperPids, Undone(p) PROVE TunInv' /\ KeepsUsersFile
<1> DEFINE h == [helper[p] EXCEPT !.phase = "idle", !.ctx = 0, !.then = "none", !.todo = <<>>, !.reader = FALSE]
<1>1. /\ Running(p) /\ helper[p].phase = "undo" /\ helper[p].held = <<>>
      /\ UNCHANGED <<clients, commands, files, killed, sessions>>
  BY DEF Undone, Counters
<1>2. /\ helper[p] \in HelperRecord /\ helper[p].st = "running" /\ Guarded(helper[p]) /\ Backed(p)
      /\ helper \in [HelperPids -> HelperRecord] /\ answers \in [HelperPids -> Seq(TunAnswers)]
  BY <1>1, HelperIs
<1>3. /\ h \in HelperRecord /\ h.st = "running" /\ h.held = helper[p].held /\ h.phase = "idle" /\ h.ctx = 0
      /\ h.reader = FALSE
  <2>1. <<>> \in Seq(Paths)
    OBVIOUS
  <2> QED BY <1>2, <2>1 DEF HelperRecord
<1>4. CASE helper[p].then = "exit"
  <2> DEFINE g == [h EXCEPT !.st = "dead"]
  <2>1. /\ helper' = [helper EXCEPT ![p] = g] /\ alive' = alive \ {p}
        /\ answers' = IF Connected(p) THEN [answers EXCEPT ![p] = Append(@, "Stopped")] ELSE answers
    BY <1>4 DEF Undone
  <2>2. g \in HelperRecord /\ g.st = "dead"
    BY <1>3 DEF HelperRecord
  <2>3. /\ helper' \in [HelperPids -> HelperRecord] /\ helper'[p].st = "dead"
        /\ \A q \in HelperPids \ {p} : helper'[q] = helper[q]
    BY <1>2, <2>1, <2>2
  <2>4. answers' \in [HelperPids -> Seq(TunAnswers)] /\ \A q \in HelperPids \ {p} : answers'[q] = answers[q]
    BY <1>2, <2>1, AnswerIsPut DEF TunAnswers
  <2>5. TunType'
    <3>1. alive' \subseteq HelperPids
      BY <2>1 DEF TunInv, TunType
    <3> QED BY <1>1, <2>3, <2>4, <3>1 DEF TunInv, TunType
  <2>6. \A n \in Paths : files[n].pid # p
    <3>1. Len(helper[p].held) = 0
      BY <1>1
    <3> QED BY <1>1, <1>2, <3>1 DEF Backed, Paths
  <2>7. ClientInv'
    <3>1. Born' = Born
      BY <1>2, <2>3 DEF Born
    <3> QED BY <1>1, <3>1 DEF TunInv, ClientInv
  <2>8. helper[p].st # "unborn" /\ (\A q \in alive : q = p \/ q \in alive')
    BY <1>2, <2>1
  <2> QED BY <1>1, <2>3, <2>4, <2>5, <2>6, <2>7, <2>8, EndFrame
<1>5. CASE helper[p].then # "exit"
  <2>1. PICK e \in TunAnswers : e = helper[p].then /\ e \in {"Error", "Stopped"}
    BY <1>1, <1>2, <1>5 DEF Guarded, HelperRecord, TunAnswers
  <2>2. Emits(p, h, e) /\ UNCHANGED alive
    BY <1>5, <2>1 DEF Undone
  <2>3. Guarded(h)
    <3>1. Len(helper[p].held) = 0
      BY <1>1
    <3> QED BY <1>3, <3>1, TunAssumption DEF Guarded
  <2>4. /\ helper' \in [HelperPids -> HelperRecord] /\ helper'[p].st = "running" /\ Guarded(helper'[p])
        /\ \A q \in HelperPids \ {p} : helper'[q] = helper[q] /\ answers'[q] = answers[q]
        /\ answers' \in [HelperPids -> Seq(TunAnswers)] /\ Spares(p) /\ Backed(p)'
        /\ Connected(p) => helper'[p] = h /\ answers' = [answers EXCEPT ![p] = Append(@, e)]
    <3>1. UNCHANGED files /\ Running(p) /\ helper[p].phase # "write" /\ h.phase # "write"
      BY <1>1, <1>3
    <3>2. h \in HelperRecord /\ h.st = "running" /\ h.held = helper[p].held
      BY <1>3
    <3> HIDE DEF h
    <3> QED BY <2>2, <2>3, <3>1, <3>2, EmitsIs
  <2>5. TunType'
    BY <1>1, <2>2, <2>4 DEF TunInv, TunType
  <2>6. ASSUME NEW s \in Clients, clients[s].pid = p PROVE Agree(s)'
    <3>1. Agree(s)
      BY <1>1, <2>6, TunAssumption DEF TunInv, TalkInv, HelperPids
    <3>2. /\ helper'[p] = h /\ (\A a : Never(p, a)' <=> Never(p, a) /\ e # a)
          /\ answers' = [answers EXCEPT ![p] = Append(@, e)]
      <4>1. Connected(p)
        BY <2>6 DEF Connected
      <4> QED BY <2>4, <4>1, AnswerIsPut
    <3>3. clients[s].st # "idle" /\ clients[s].st # "up"
      BY <1>1, <2>6, <3>1 DEF Agree, Rests, ServesNow, Does
    <3>4. clients[s].st = "wait_ready" => Starts(p, clients[s].session)'
      <4>1. clients[s].st = "wait_ready" =>
                helper[p].then = "Error" /\ commands[p] = <<>> /\ Never(p, "Stopped") /\ Never(p, "Ready")
        BY <1>1, <2>6, <3>1 DEF Agree, Starts, Does
      <4> QED BY <1>1, <1>3, <2>1, <3>2, <4>1 DEF Starts, Does
    <3>5. clients[s].st = "wait_stopped" => (ResetComes(p) \/ ResetDone(p))'
      <4>1. clients[s].st = "wait_stopped" => ResetComes(p) \/ ResetGoes(p)
        BY <1>1, <2>6, <3>1 DEF Agree, ResetDone, Rests, Does
      <4>2. ResetComes(p) => ResetComes(p)'
        BY <1>1, <1>3, <2>1, <3>2 DEF ResetComes, Does
      <4>3. ResetGoes(p) => ResetDone(p)'
        <5>1. SUFFICES ASSUME ResetGoes(p) PROVE ResetDone(p)'
          OBVIOUS
        <5>2. e = "Stopped" /\ Never(p, "Stopped") /\ commands[p] = <<>>
          BY <2>1, <5>1 DEF ResetGoes
        <5>3. Rests(p)'
          BY <1>1, <1>3, <3>2, <5>2 DEF Rests, Does
        <5>4. /\ answers'[p] # <<>>
              /\ \A i \in 1..Len(answers'[p]) : answers'[p][i] = "Stopped" <=> i = Len(answers'[p])
          <6>1. answers[p] \in Seq(TunAnswers) /\ answers'[p] = Append(answers[p], e) /\ answers'[p] # <<>>
            BY <1>2, <3>2, AnswerIsPut
          <6>2. /\ Len(answers[p]) \in Nat /\ Len(answers'[p]) = Len(answers[p]) + 1
                /\ answers'[p][Len(answers[p]) + 1] = e
                /\ \A i \in 1..Len(answers[p]) : answers'[p][i] = answers[p][i]
            BY <6>1, AppendProperties, LenProperties
          <6> QED BY <5>2, <6>1, <6>2 DEF Never
        <5> QED BY <5>3, <5>4 DEF ResetDone
      <4> QED BY <4>1, <4>2, <4>3
    <3> QED BY <1>1, <2>6, <3>3, <3>4, <3>5 DEF Agree
  <2>7. \A q \in HelperPids \ {p} : commands'[q] = commands[q]
    BY <1>1
  <2> QED BY <1>1, <2>2, <2>4, <2>5, <2>6, <2>7, HelperFrame
<1> QED BY <1>4, <1>5

LEMMA HelperKilledKept == ASSUME TunInv, NEW p \in HelperPids, HelperKilled(p) PROVE TunInv' /\ KeepsUsersFile
<1> DEFINE h == [helper[p] EXCEPT !.st = "dead"]
<1>1. /\ Running(p) /\ helper' = [helper EXCEPT ![p] = h] /\ alive' = alive \ {p} /\ killed' = killed \cup {p}
      /\ UNCHANGED <<clients, commands, answers, files, sessions>>
  BY DEF HelperKilled
<1>2. helper[p] \in HelperRecord /\ helper[p].st = "running" /\ helper \in [HelperPids -> HelperRecord]
  BY <1>1, HelperIs
<1>3. h \in HelperRecord /\ h.st = "dead"
  BY <1>2 DEF HelperRecord
<1>4. /\ helper' \in [HelperPids -> HelperRecord] /\ helper'[p].st = "dead"
      /\ \A q \in HelperPids \ {p} : helper'[q] = helper[q]
  BY <1>1, <1>2, <1>3
<1>5. TunType'
  <2>1. alive' \subseteq HelperPids /\ killed' \subseteq HelperPids
    BY <1>1 DEF TunInv, TunType
  <2> QED BY <1>1, <1>4, <2>1 DEF TunInv, TunType
<1>6. ClientInv'
  <2>1. Born' = Born
    BY <1>2, <1>4 DEF Born
  <2> QED BY <1>1, <2>1 DEF TunInv, ClientInv
<1>7. /\ helper[p].st # "unborn" /\ p \in killed' /\ killed \subseteq killed' /\ killed' \subseteq killed \cup {p}
      /\ (\A q \in alive : q = p \/ q \in alive')
      /\ \A q \in HelperPids \ {p} : commands'[q] = commands[q] /\ answers'[q] = answers[q]
  BY <1>1, <1>2
<1> QED BY <1>1, <1>4, <1>5, <1>6, <1>7, EndFrame

(* Nothing changes but which pids are in use.                                *)
LEMMA PidReusedKept == ASSUME TunInv, NEW p \in HelperPids, PidReused(p) PROVE TunInv' /\ KeepsUsersFile
<1>1. alive' = alive \cup {p} /\ UNCHANGED <<clients, helper, commands, answers, files, killed, sessions>>
  BY DEF PidReused
<1>2. Born' = Born /\ \A q : Running(q)' <=> Running(q)
  BY <1>1 DEF Born, Running
<1>3. TunType' /\ BirthInv' /\ ClientInv' /\ GuardInv'
  <2>1. TunType'
    BY <1>1 DEF TunInv, TunType
  <2>2. BirthInv'
    BY <1>1, <1>2 DEF TunInv, BirthInv
  <2>3. ClientInv' /\ GuardInv'
    BY <1>1, <1>2 DEF TunInv, ClientInv, GuardInv
  <2> QED BY <2>1, <2>2, <2>3
<1>4. FileInv'
  <2>1. \A q \in HelperPids : Backed(q)' <=> Backed(q)
    BY <1>1 DEF Backed
  <2>2. NothingLeft'
    BY <1>1, <1>2 DEF TunInv, FileInv, NothingLeft
  <2> QED BY <1>2, <2>1, <2>2 DEF TunInv, FileInv
<1>5. TalkInv'
  BY <1>1, <1>2, AgreeFrame DEF TunInv, TalkInv
<1> QED BY <1>1, <1>3, <1>4, <1>5 DEF TunInv, KeepsUsersFile

LEMMA UserEditsKept == ASSUME TunInv, NEW m \in Paths, UserEdits(m) PROVE TunInv' /\ KeepsUsersFile
<1>1. /\ files' = [files EXCEPT ![m] = UserFile]
      /\ \A p \in HelperPids : Running(p) => helper[p].phase # "write"
      /\ UNCHANGED <<clients, helper, commands, answers, alive, killed, sessions>>
  BY DEF UserEdits
<1>2. Born' = Born /\ \A q : Running(q)' <=> Running(q)
  BY <1>1 DEF Born, Running
<1>3. files \in [Paths -> TunFiles] /\ UserFile \in TunFiles
  BY DEF TunInv, TunType, TunFiles
<1>4. files' \in [Paths -> TunFiles] /\ files'[m] = UserFile /\ \A n \in Paths \ {m} : files'[n] = files[n]
  BY <1>1, <1>3
<1>5. TunType' /\ BirthInv' /\ ClientInv' /\ GuardInv'
  <2>1. TunType'
    BY <1>1, <1>4 DEF TunInv, TunType
  <2>2. BirthInv'
    BY <1>1, <1>2 DEF TunInv, BirthInv
  <2>3. ClientInv' /\ GuardInv'
    BY <1>1, <1>2 DEF TunInv, ClientInv, GuardInv
  <2> QED BY <2>1, <2>2, <2>3
<1>6. FileInv'
  <2>1. ASSUME NEW q \in HelperPids, Running(q) PROVE Backed(q)'
    <3>1. Backed(q) /\ Guarded(helper[q]) /\ Len(helper[q].held) \in Nat /\ q # 0
      BY <2>1, HelperIs
    <3>2. helper[q].phase # "write"
      BY <1>1, <2>1
    <3>3. ASSUME NEW i \in 1..Len(helper[q].held) PROVE files'[i] \in {Owned(q), UserFile}
      <4>1. i \in Paths
        BY <3>1, TunAssumption DEF Guarded, Paths
      <4> QED BY <1>4, <3>1, <4>1 DEF Backed
    <3>4. ASSUME NEW n \in Paths, files'[n].pid = q PROVE n <= Len(helper[q].held)
      <4>1. files'[n] = files[n]
        BY <1>4, <3>1, <3>4 DEF UserFile
      <4> QED BY <3>1, <3>2, <3>4, <4>1 DEF Backed
    <3> QED BY <1>1, <3>2, <3>3, <3>4 DEF Backed
  <2>2. NothingLeft'
    <3>1. SUFFICES ASSUME NEW n \in Paths, files'[n].pid # 0
                   PROVE  helper[files'[n].pid].st = "running" \/ files'[n].pid \in killed
      BY <1>1 DEF NothingLeft, Running
    <3>2. files'[n] = files[n]
      BY <1>4, <3>1 DEF UserFile
    <3> QED BY <3>1, <3>2 DEF TunInv, FileInv, NothingLeft, Running
  <2> QED BY <1>2, <2>1, <2>2 DEF FileInv
<1>7. TalkInv'
  BY <1>1, <1>2, AgreeFrame DEF TunInv, TalkInv
<1>8. KeepsUsersFile
  BY <1>4 DEF KeepsUsersFile
<1> QED BY <1>5, <1>6, <1>7, <1>8 DEF TunInv

(* An installation that fails, with its file left out or removed.            *)
LEMMA FailsKept ==
    ASSUME TunInv, NEW p \in HelperPids, Running(p), helper[p].phase \in {"inspect", "create", "write"},
           helper' = [helper EXCEPT ![p] = InstallFails(p)],
           UNCHANGED <<clients, commands, answers, alive, killed, sessions>>,
           \/ helper[p].phase # "write" /\ UNCHANGED files
           \/ helper[p].phase = "write" /\ files' = [files EXCEPT ![Len(helper[p].held) + 1] = NoFile]
    PROVE  TunInv' /\ KeepsUsersFile
<1> DEFINE h == InstallFails(p)
<1>1. /\ helper[p] \in HelperRecord /\ helper[p].st = "running" /\ Guarded(helper[p]) /\ Backed(p) /\ p # 0
      /\ helper \in [HelperPids -> HelperRecord] /\ Len(helper[p].held) \in Nat /\ files \in [Paths -> TunFiles]
  BY HelperIs
<1>2. /\ h \in HelperRecord /\ h.st = "running" /\ h.held = helper[p].held /\ h.phase = "undo" /\ h.then = "Error"
  BY <1>1 DEF InstallFails, HelperRecord
<1>3. /\ helper' \in [HelperPids -> HelperRecord] /\ helper'[p] = h
      /\ \A q \in HelperPids \ {p} : helper'[q] = helper[q]
  BY <1>1, <1>2
<1>4. Guarded(h)
  BY <1>1, <1>2 DEF Guarded
<1>5. files' \in [Paths -> TunFiles] /\ Spares(p) /\ Backed(p)'
  <2>1. CASE helper[p].phase # "write" /\ UNCHANGED files
    BY <1>1, <1>2, <1>3, <2>1 DEF Spares, Backed
  <2>2. CASE helper[p].phase = "write" /\ files' = [files EXCEPT ![Len(helper[p].held) + 1] = NoFile]
    <3>1. PICK n : n = Len(helper[p].held) + 1
      OBVIOUS
    <3>2. n \in Paths /\ files[n] = Empty(p) /\ NoFile \in TunFiles
      BY <1>1, <2>2, <3>1, TunAssumption DEF Guarded, Backed, Paths, TunFiles
    <3>3. files' \in [Paths -> TunFiles] /\ files'[n] = NoFile /\ \A m \in Paths \ {n} : files'[m] = files[m]
      BY <1>1, <2>2, <3>1, <3>2
    <3>4. Spares(p)
      BY <3>2, <3>3 DEF Spares, Empty, UserFile
    <3>5. Backed(p)'
      <4>1. \A i \in 1..Len(helper[p].held) : i \in Paths \ {n}
        BY <1>1, <3>1, TunAssumption DEF Guarded, Paths
      <4>2. NoFile.pid # p
        BY <1>1 DEF NoFile
      <4> QED BY <1>1, <1>2, <1>3, <3>1, <3>3, <4>1, <4>2 DEF Backed
    <3> QED BY <3>3, <3>4, <3>5
  <2> QED BY <2>1, <2>2
<1>6. TunType'
  BY <1>3, <1>5 DEF TunInv, TunType
<1>7. ASSUME NEW s \in Clients, clients[s].pid = p PROVE Agree(s)'
  <2>1. Agree(s)
    BY <1>1, <1>7 DEF TunInv, TalkInv
  <2>2. /\ clients'[s] = clients[s] /\ commands'[p] = commands[p] /\ (\A a : Never(p, a)' <=> Never(p, a))
        /\ Does(p, {"undo"})' /\ helper'[p].then = "Error"
    BY <1>2, <1>3 DEF Never, Does
  <2>3. clients[s].st # "idle" /\ clients[s].st # "up"
    BY <1>7, <2>1 DEF Agree, Rests, ServesNow, Does
  <2>4. clients[s].st = "wait_ready" => Starts(p, clients[s].session)'
    <3>1. clients[s].st = "wait_ready" => commands[p] = <<>> /\ Never(p, "Stopped") /\ Never(p, "Ready")
      BY <1>7, <2>1 DEF Agree, Starts, Does
    <3> QED BY <2>2, <3>1 DEF Starts
  <2>5. clients[s].st = "wait_stopped" => ResetComes(p)'
    <3>1. clients[s].st = "wait_stopped" => ResetComes(p)
      BY <1>7, <2>1 DEF Agree, ResetGoes, ResetDone, Rests, Does
    <3> QED BY <2>2, <3>1 DEF ResetComes
  <2> QED BY <1>7, <2>2, <2>3, <2>4, <2>5 DEF Agree
<1> QED BY <1>2, <1>3, <1>4, <1>5, <1>6, <1>7, HelperFrame

(* The installation goes on with the first name that is left.                *)
LEMMA InstallKept ==
    ASSUME TunInv, NEW p \in HelperPids, Running(p), helper[p].phase \in {"inspect", "create", "write"},
           NEW h \in HelperRecord, helper' = [helper EXCEPT ![p] = h],
           h.phase \in {"inspect", "create", "write"}, h.st = "running", h.ctx = helper[p].ctx,
           h.new = helper[p].new, h.reader = helper[p].reader, h.then = helper[p].then,
           Guarded(h), Spares(p), Backed(p)', files' \in [Paths -> TunFiles],
           UNCHANGED <<clients, commands, answers, alive, killed, sessions>>
    PROVE  TunInv' /\ KeepsUsersFile
<1>1. helper \in [HelperPids -> HelperRecord]
  BY HelperIs
<1>2. /\ helper' \in [HelperPids -> HelperRecord] /\ helper'[p] = h
      /\ \A q \in HelperPids \ {p} : helper'[q] = helper[q]
  BY <1>1
<1>3. TunType'
  BY <1>2 DEF TunInv, TunType
<1>4. ASSUME NEW s \in Clients, clients[s].pid = p PROVE Agree(s)'
  <2>1. Agree(s)
    BY <1>4, TunAssumption DEF TunInv, TalkInv, HelperPids
  <2>2. /\ clients'[s] = clients[s] /\ commands'[p] = commands[p] /\ (\A a : Never(p, a)' <=> Never(p, a))
        /\ Does(p, {"inspect", "create", "write"})' /\ ~Does(p, {"undo"})'
    BY <1>2 DEF Never, Does
  <2>3. clients[s].st # "idle" /\ clients[s].st # "up"
    BY <1>4, <2>1 DEF Agree, Rests, ServesNow, Does
  <2>4. clients[s].st = "wait_ready" => Starts(p, clients[s].session)'
    <3>1. clients[s].st = "wait_ready" =>
              /\ commands[p] = <<>> /\ Never(p, "Stopped") /\ Never(p, "Ready")
              /\ helper[p].new = clients[s].session
      BY <1>4, <2>1 DEF Agree, Starts, Does
    <3> QED BY <1>2, <2>2, <3>1 DEF Starts
  <2>5. clients[s].st = "wait_stopped" => ResetComes(p)'
    <3>1. clients[s].st = "wait_stopped" => ResetComes(p)
      BY <1>4, <2>1 DEF Agree, ResetGoes, ResetDone, Rests, Does
    <3> QED BY <2>2, <3>1 DEF ResetComes
  <2> QED BY <1>4, <2>2, <2>3, <2>4, <2>5 DEF Agree
<1> QED BY <1>2, <1>3, <1>4, HelperFrame

(* The next file is the one after those the guard holds.                     *)
LEMMA NextName ==
    ASSUME TunInv, NEW p \in HelperPids, Running(p), helper[p].phase \in {"inspect", "create", "write"},
           helper[p].phase = "inspect" => helper[p].todo # <<>>
    PROVE  /\ Head(helper[p].todo) = Len(helper[p].held) + 1 /\ Len(helper[p].held) + 1 \in Paths
           /\ Len(helper[p].held) < NumNames /\ helper[p].todo # <<>>
<1>1. /\ Guarded(helper[p]) /\ helper[p].todo \in Seq(Paths) /\ Len(helper[p].held) \in Nat
  BY HelperIs
<1>2. Len(helper[p].todo) \in Nat /\ (helper[p].todo = <<>> <=> Len(helper[p].todo) = 0)
  BY <1>1, EmptySeq, LenProperties
<1>3. Len(helper[p].held) < NumNames /\ helper[p].todo # <<>>
  <2>1. /\ Len(helper[p].todo) = NumNames - Len(helper[p].held) /\ Len(helper[p].held) <= NumNames
        /\ helper[p].phase \in {"create", "write"} => Len(helper[p].held) < NumNames
    BY <1>1 DEF Guarded
  <2>2. CASE helper[p].phase = "inspect"
    <3>1. Len(helper[p].todo) # 0
      BY <1>2, <2>2
    <3> QED BY <1>1, <2>1, <2>2, <3>1, TunAssumption
  <2>3. CASE helper[p].phase \in {"create", "write"}
    <3>1. Len(helper[p].held) < NumNames
      BY <2>1, <2>3
    <3>2. Len(helper[p].todo) # 0
      BY <1>1, <2>1, <3>1, TunAssumption
    <3> QED BY <1>2, <3>1, <3>2
  <2>4. helper[p].phase = "inspect" \/ helper[p].phase \in {"create", "write"}
    OBVIOUS
  <2> QED BY <2>2, <2>3, <2>4
<1>4. Head(helper[p].todo) = helper[p].todo[1] /\ 1 \in 1..Len(helper[p].todo)
  BY <1>1, <1>3, TailIs
<1>5. \A i \in 1..Len(helper[p].todo) : helper[p].todo[i] = Len(helper[p].held) + i
  BY <1>1 DEF Guarded
<1>6. Head(helper[p].todo) = Len(helper[p].held) + 1
  BY <1>4, <1>5
<1>7. Len(helper[p].held) + 1 \in Paths
  BY <1>1, <1>3, TunAssumption DEF Paths
<1> QED BY <1>3, <1>6, <1>7

LEMMA InspectKept == ASSUME TunInv, NEW p \in HelperPids, Inspect(p) PROVE TunInv' /\ KeepsUsersFile
<1> DEFINE h == [helper[p] EXCEPT !.phase = "create"]
<1>1. PICK n : n = Head(helper[p].todo)
  OBVIOUS
<1>2. /\ Running(p) /\ helper[p].phase = "inspect" /\ helper[p].todo # <<>>
      /\ UNCHANGED <<clients, commands, answers, alive, killed, sessions>>
      /\ \/ /\ files[n] = NoFile \/ Stale(n)
            /\ files' = [files EXCEPT ![n] = NoFile] /\ helper' = [helper EXCEPT ![p] = h]
         \/ helper' = [helper EXCEPT ![p] = InstallFails(p)] /\ UNCHANGED files
  BY <1>1 DEF Inspect, Counters
<1>3. CASE helper' = [helper EXCEPT ![p] = InstallFails(p)] /\ UNCHANGED files
  BY <1>2, <1>3, FailsKept
<1>4. CASE /\ files[n] = NoFile \/ Stale(n)
           /\ files' = [files EXCEPT ![n] = NoFile] /\ helper' = [helper EXCEPT ![p] = h]
  <2>1. /\ helper[p] \in HelperRecord /\ helper[p].st = "running" /\ Guarded(helper[p]) /\ Backed(p) /\ p # 0
        /\ helper \in [HelperPids -> HelperRecord] /\ Len(helper[p].held) \in Nat /\ files \in [Paths -> TunFiles]
    BY <1>2, HelperIs
  <2>2. n = Len(helper[p].held) + 1 /\ n \in Paths /\ Len(helper[p].held) < NumNames
    BY <1>1, <1>2, NextName
  <2>3. /\ h \in HelperRecord /\ h.st = "running" /\ h.held = helper[p].held /\ h.todo = helper[p].todo
        /\ h.phase = "create" /\ h.ctx = helper[p].ctx /\ h.new = helper[p].new
        /\ h.reader = helper[p].reader /\ h.then = helper[p].then
    BY <2>1 DEF HelperRecord
  <2>4. Guarded(h)
    BY <1>2, <2>1, <2>2, <2>3 DEF Guarded
  <2>5. files' \in [Paths -> TunFiles] /\ files'[n] = NoFile /\ \A m \in Paths \ {n} : files'[m] = files[m]
    BY <1>4, <2>1, <2>2 DEF TunFiles
  <2>6. Spares(p)
    <3>1. files[n] # UserFile
      BY <1>4 DEF Stale, NoFile, UserFile
    <3>2. \A q \in HelperPids \ {p} : Running(q) => files[n].pid # q
      BY <1>4, TunAssumption DEF Stale, NoFile, TunInv, BirthInv, HelperPids
    <3> QED BY <2>5, <3>1, <3>2 DEF Spares
  <2>7. Backed(p)'
    <3>1. \A i \in 1..Len(helper[p].held) : i \in Paths \ {n}
      BY <2>1, <2>2, TunAssumption DEF Guarded, Paths
    <3>2. NoFile.pid # p /\ helper'[p] = h
      BY <1>4, <2>1 DEF NoFile
    <3> QED BY <1>2, <2>1, <2>3, <2>5, <3>1, <3>2 DEF Backed
  <2> HIDE DEF h
  <2> QED BY <1>2, <1>4, <2>3, <2>4, <2>5, <2>6, <2>7, InstallKept
<1> QED BY <1>2, <1>3, <1>4

LEMMA CreateKept == ASSUME TunInv, NEW p \in HelperPids, Create(p) PROVE TunInv' /\ KeepsUsersFile
<1> DEFINE h == [helper[p] EXCEPT !.phase = "write"]
<1>1. PICK n : n = Head(helper[p].todo)
  OBVIOUS
<1>2. /\ Running(p) /\ helper[p].phase = "create"
      /\ UNCHANGED <<clients, commands, answers, alive, killed, sessions>>
      /\ \/ files[n] = NoFile /\ files' = [files EXCEPT ![n] = Empty(p)] /\ helper' = [helper EXCEPT ![p] = h]
         \/ helper' = [helper EXCEPT ![p] = InstallFails(p)] /\ UNCHANGED files
  BY <1>1 DEF Create, Counters
<1>3. CASE helper' = [helper EXCEPT ![p] = InstallFails(p)] /\ UNCHANGED files
  BY <1>2, <1>3, FailsKept
<1>4. CASE files[n] = NoFile /\ files' = [files EXCEPT ![n] = Empty(p)] /\ helper' = [helper EXCEPT ![p] = h]
  <2>1. /\ helper[p] \in HelperRecord /\ helper[p].st = "running" /\ Guarded(helper[p]) /\ Backed(p) /\ p # 0
        /\ helper \in [HelperPids -> HelperRecord] /\ Len(helper[p].held) \in Nat /\ files \in [Paths -> TunFiles]
    BY <1>2, HelperIs
  <2>2. n = Len(helper[p].held) + 1 /\ n \in Paths /\ Len(helper[p].held) < NumNames
    BY <1>1, <1>2, NextName
  <2>3. /\ h \in HelperRecord /\ h.st = "running" /\ h.held = helper[p].held /\ h.todo = helper[p].todo
        /\ h.phase = "write" /\ h.ctx = helper[p].ctx /\ h.new = helper[p].new
        /\ h.reader = helper[p].reader /\ h.then = helper[p].then
    BY <2>1 DEF HelperRecord
  <2>4. Guarded(h)
    BY <1>2, <2>1, <2>2, <2>3 DEF Guarded
  <2>5. files' \in [Paths -> TunFiles] /\ files'[n] = Empty(p) /\ \A m \in Paths \ {n} : files'[m] = files[m]
    BY <1>4, <2>1, <2>2 DEF TunFiles
  <2>6. Spares(p)
    BY <1>4, <2>5, TunAssumption DEF Spares, NoFile, UserFile, HelperPids
  <2>7. Backed(p)'
    <3>1. \A i \in 1..Len(helper[p].held) : i \in Paths \ {n}
      BY <2>1, <2>2, TunAssumption DEF Guarded, Paths
    <3>2. helper'[p] = h
      BY <1>4, <2>1
    <3> QED BY <1>2, <2>1, <2>2, <2>3, <2>5, <3>1, <3>2 DEF Backed
  <2> HIDE DEF h
  <2> QED BY <1>2, <1>4, <2>3, <2>4, <2>5, <2>6, <2>7, InstallKept
<1> QED BY <1>2, <1>3, <1>4

LEMMA WriteKept == ASSUME TunInv, NEW p \in HelperPids, Write(p) PROVE TunInv' /\ KeepsUsersFile
<1>1. PICK n, g : n = Head(helper[p].todo) /\ g = helper[p]
  OBVIOUS
<1> DEFINE h == [g EXCEPT !.phase = "inspect", !.todo = Tail(g.todo), !.held = Append(g.held, n)]
<1>2. /\ Running(p) /\ g.phase = "write"
      /\ UNCHANGED <<clients, commands, answers, alive, killed, sessions>>
      /\ \/ files' = [files EXCEPT ![n] = Owned(p)] /\ helper' = [helper EXCEPT ![p] = h]
         \/ files' = [files EXCEPT ![n] = NoFile] /\ helper' = [helper EXCEPT ![p] = InstallFails(p)]
  BY <1>1 DEF Write
<1>3. /\ g \in HelperRecord /\ g.st = "running" /\ Guarded(g) /\ Backed(p) /\ p # 0
      /\ g.held \in Seq(Paths) /\ g.todo \in Seq(Paths)
      /\ helper \in [HelperPids -> HelperRecord] /\ Len(g.held) \in Nat /\ files \in [Paths -> TunFiles]
  BY <1>1, <1>2, HelperIs
<1>4. n = Len(g.held) + 1 /\ n \in Paths /\ Len(g.held) < NumNames /\ g.todo # <<>>
  BY <1>1, <1>2, NextName
<1>5. CASE files' = [files EXCEPT ![n] = NoFile] /\ helper' = [helper EXCEPT ![p] = InstallFails(p)]
  BY <1>1, <1>2, <1>4, <1>5, FailsKept
<1>6. CASE files' = [files EXCEPT ![n] = Owned(p)] /\ helper' = [helper EXCEPT ![p] = h]
  <2>1. /\ Tail(g.todo) \in Seq(Paths) /\ Len(g.todo) \in Nat \ {0}
        /\ Len(Tail(g.todo)) = Len(g.todo) - 1
        /\ \A i \in 1..Len(Tail(g.todo)) : i + 1 \in 1..Len(g.todo) /\ Tail(g.todo)[i] = g.todo[i + 1]
    BY <1>3, <1>4, TailIs
  <2>2. /\ Append(g.held, n) \in Seq(Paths) /\ Len(Append(g.held, n)) = Len(g.held) + 1
        /\ Append(g.held, n)[Len(g.held) + 1] = n
        /\ \A i \in 1..Len(g.held) : Append(g.held, n)[i] = g.held[i]
    BY <1>3, <1>4, AppendProperties
  <2>3. /\ h \in HelperRecord /\ h.st = "running" /\ h.held = Append(g.held, n) /\ h.todo = Tail(g.todo)
        /\ h.phase = "inspect" /\ h.ctx = g.ctx /\ h.new = g.new /\ h.reader = g.reader /\ h.then = g.then
    BY <1>3, <2>1, <2>2 DEF HelperRecord
  <2> HIDE DEF h
  <2>4. Guarded(h)
    <3>1. /\ Len(g.todo) = NumNames - Len(g.held) /\ g.new # 0
          /\ \A i \in 1..Len(g.todo) : g.todo[i] = Len(g.held) + i
          /\ \A i \in 1..Len(g.held) : g.held[i] = i
      BY <1>2, <1>3 DEF Guarded
    <3>2. /\ Len(h.held) = Len(g.held) + 1 /\ Len(h.held) \in Nat /\ Len(h.held) <= NumNames
          /\ Len(h.todo) = Len(g.todo) - 1 /\ Len(h.todo) = NumNames - Len(h.held)
      <4>1. Len(h.held) = Len(g.held) + 1
        BY <2>2, <2>3
      <4>2. Len(h.todo) = Len(g.todo) - 1
        BY <2>1, <2>3
      <4> QED BY <1>3, <1>4, <3>1, <4>1, <4>2, TunAssumption
    <3>3. ASSUME NEW i \in 1..Len(h.held) PROVE h.held[i] = i
      <4>1. CASE i = Len(g.held) + 1
        BY <1>4, <2>2, <2>3, <4>1
      <4>2. CASE i # Len(g.held) + 1
        <5>1. i \in 1..Len(g.held)
          BY <1>3, <3>2, <4>2
        <5> QED BY <2>2, <2>3, <3>1, <5>1
      <4> QED BY <4>1, <4>2
    <3>4. ASSUME NEW i \in 1..Len(h.todo) PROVE h.todo[i] = Len(h.held) + i
      <4>1. i + 1 \in 1..Len(g.todo) /\ h.todo[i] = g.todo[i + 1]
        BY <2>1, <2>3
      <4>2. g.todo[i + 1] = Len(g.held) + (i + 1)
        BY <3>1, <4>1
      <4>3. Len(h.held) = Len(g.held) + 1 /\ Len(g.held) \in Nat
        BY <1>3, <3>2
      <4>4. \A a \in Nat : a + (i + 1) = (a + 1) + i
        <5>1. i \in Int
          OBVIOUS
        <5> QED BY <5>1
      <4>5. Len(g.held) + (i + 1) = Len(h.held) + i
        BY <4>3, <4>4
      <4> QED BY <4>1, <4>2, <4>5
    <3> QED BY <2>3, <3>1, <3>2, <3>3, <3>4 DEF Guarded
  <2>5. files' \in [Paths -> TunFiles] /\ files'[n] = Owned(p) /\ \A m \in Paths \ {n} : files'[m] = files[m]
    BY <1>3, <1>4, <1>6 DEF TunFiles
  <2>6. files[n] = Empty(p)
    BY <1>1, <1>2, <1>3, <1>4 DEF Backed
  <2>7. Spares(p)
    BY <2>5, <2>6 DEF Spares, Empty, UserFile
  <2>8. Backed(p)'
    <3>1. \A i \in 1..Len(g.held) : i \in Paths \ {n} /\ files[i] \in {Owned(p), UserFile}
      BY <1>1, <1>3, <1>4, TunAssumption, SMTT(30) DEF Guarded, Backed, Paths
    <3>2. helper'[p] = h /\ Len(h.held) = Len(g.held) + 1
      BY <1>3, <1>6, <2>2, <2>3
    <3>3. \A i \in 1..Len(h.held) : files'[i] \in {Owned(p), UserFile}
      BY <1>3, <1>4, <2>5, <3>1, <3>2
    <3>4. ASSUME NEW m \in Paths, files'[m].pid = p PROVE m <= Len(h.held)
      <4>1. CASE m = n
        BY <1>3, <1>4, <3>2, <4>1
      <4>2. CASE m # n
        <5>1. files[m].pid = p
          BY <2>5, <3>4, <4>2
        <5>2. m <= Len(g.held)
          BY <1>1, <1>2, <1>4, <1>3, <4>2, <5>1 DEF Backed
        <5> QED BY <1>3, <3>2, <5>2 DEF Paths
      <4> QED BY <4>1, <4>2
    <3> QED BY <2>3, <3>2, <3>3, <3>4 DEF Backed
  <2> QED BY <1>1, <1>2, <1>6, <2>3, <2>4, <2>5, <2>7, <2>8, InstallKept
<1> QED BY <1>2, <1>5, <1>6

(* The first k elements of a sequence.                                       *)
LEMMA FirstOf ==
    ASSUME NEW S, NEW q \in Seq(S), NEW k \in Nat, k <= Len(q)
    PROVE  /\ SubSeq(q, 1, k) \in Seq(S) /\ Len(SubSeq(q, 1, k)) = k
           /\ \A i \in 1..k : SubSeq(q, 1, k)[i] = q[i]
<1>1. \A i \in 1..k : q[i] \in S
  BY LenProperties, ElementOfSeq
<1>2. 1 \in Int /\ k \in Int
  OBVIOUS
<1>3. /\ SubSeq(q, 1, k) \in Seq(S) /\ Len(SubSeq(q, 1, k)) = IF 1 <= k THEN k - 1 + 1 ELSE 0
      /\ \A i \in 1..(k - 1 + 1) : SubSeq(q, 1, k)[i] = q[1 + i - 1]
  BY <1>1, <1>2, SubSeqProperties
<1> QED BY <1>3

LEMMA UndoKept == ASSUME TunInv, NEW p \in HelperPids, Undo(p) PROVE TunInv' /\ KeepsUsersFile
<1>1. PICK g, n : g = helper[p] /\ n = Len(g.held)
  OBVIOUS
<1> DEFINE h == [g EXCEPT !.held = SubSeq(g.held, 1, n - 1)]
<1>2. /\ Running(p) /\ g.phase = "undo" /\ g.held # <<>> /\ helper' = [helper EXCEPT ![p] = h]
      /\ files' = IF Mine(p, g.held[n]) THEN [files EXCEPT ![g.held[n]] = NoFile] ELSE files
      /\ UNCHANGED <<clients, commands, answers, alive, killed, sessions>>
  BY <1>1 DEF Undo, Counters
<1>3. /\ g \in HelperRecord /\ g.st = "running" /\ Guarded(g) /\ Backed(p) /\ p # 0 /\ g.held \in Seq(Paths)
      /\ helper \in [HelperPids -> HelperRecord] /\ n \in Nat /\ files \in [Paths -> TunFiles]
  BY <1>1, <1>2, HelperIs
<1>4. n \in Paths /\ g.held[n] = n /\ n # 0 /\ \A i \in 1..n : g.held[i] = i /\ i \in Paths
  <2>1. n # 0
    BY <1>1, <1>2, <1>3, EmptySeq
  <2> QED BY <1>1, <1>3, <2>1, TunAssumption DEF Guarded, Paths
<1>5. /\ SubSeq(g.held, 1, n - 1) \in Seq(Paths) /\ Len(SubSeq(g.held, 1, n - 1)) = n - 1
      /\ \A i \in 1..(n - 1) : SubSeq(g.held, 1, n - 1)[i] = i
  <2>1. n - 1 \in Nat /\ n - 1 <= Len(g.held)
    BY <1>1, <1>3, <1>4
  <2>2. /\ SubSeq(g.held, 1, n - 1) \in Seq(Paths) /\ Len(SubSeq(g.held, 1, n - 1)) = n - 1
        /\ \A i \in 1..(n - 1) : SubSeq(g.held, 1, n - 1)[i] = g.held[i]
    BY <1>3, <2>1, FirstOf
  <2>3. \A i \in 1..(n - 1) : g.held[i] = i
    BY <1>3, <1>4
  <2> QED BY <2>2, <2>3
<1>6. /\ h \in HelperRecord /\ h.st = "running" /\ h.held = SubSeq(g.held, 1, n - 1) /\ h.phase = "undo"
      /\ h.ctx = g.ctx /\ h.new = g.new /\ h.reader = g.reader /\ h.then = g.then
  BY <1>2, <1>3, <1>5 DEF HelperRecord
<1>7. Guarded(h)
  BY <1>1, <1>2, <1>3, <1>4, <1>5, <1>6, TunAssumption DEF Guarded
<1>8. /\ helper' \in [HelperPids -> HelperRecord] /\ helper'[p] = h
      /\ \A q \in HelperPids \ {p} : helper'[q] = helper[q]
  BY <1>2, <1>3, <1>6
<1>9. /\ files' \in [Paths -> TunFiles] /\ files'[n] \in {NoFile, UserFile}
      /\ ((files[n] = Owned(p) /\ files'[n] = NoFile) \/ files'[n] = files[n])
      /\ (\A m \in Paths \ {n} : files'[m] = files[m])
  <2>1. files[n] \in {Owned(p), UserFile}
    BY <1>1, <1>3, <1>4 DEF Backed
  <2> QED BY <1>2, <1>3, <1>4, <2>1 DEF TunFiles, Mine
<1>10. Spares(p)
  BY <1>9, TunAssumption DEF Spares, Owned, UserFile, NoFile, HelperPids
<1>11. Backed(p)'
  <2>1. Len(h.held) = n - 1
    BY <1>5, <1>6
  <2>2. \A i \in 1..Len(h.held) : files'[i] \in {Owned(p), UserFile}
    <3>1. \A i \in 1..(n - 1) : i \in Paths \ {n} /\ files[i] \in {Owned(p), UserFile}
      BY <1>1, <1>3, <1>4 DEF Backed
    <3> QED BY <1>9, <2>1, <3>1
  <2>3. ASSUME NEW m \in Paths, files'[m].pid = p PROVE m <= Len(h.held)
    <3>1. m # n
      BY <1>3, <1>9, <2>3 DEF NoFile, UserFile
    <3>2. files[m].pid = p
      BY <1>9, <2>3, <3>1
    <3>3. m <= n
      BY <1>1, <1>2, <1>3, <3>2 DEF Backed
    <3> QED BY <1>3, <2>1, <3>1, <3>3 DEF Paths
  <2> QED BY <1>6, <1>8, <2>2, <2>3 DEF Backed
<1>12. TunType'
  BY <1>2, <1>8, <1>9 DEF TunInv, TunType
<1>13. ASSUME NEW s \in Clients, clients[s].pid = p PROVE Agree(s)'
  <2>1. Agree(s)
    BY <1>2, <1>3, <1>13 DEF TunInv, TalkInv
  <2>2. /\ clients'[s] = clients[s] /\ commands'[p] = commands[p] /\ (\A a : Never(p, a)' <=> Never(p, a))
        /\ (\A P : Does(p, P)' <=> Does(p, P)) /\ helper'[p].then = helper[p].then
        /\ helper'[p].reader = helper[p].reader /\ Does(p, {"undo"}) /\ helper[p].phase = "undo"
    BY <1>1, <1>2, <1>6, <1>8 DEF Never, Does
  <2>3. clients[s].st # "idle" /\ clients[s].st # "up"
    BY <1>13, <2>1, <2>2 DEF Agree, Rests, ServesNow, Does
  <2>4. clients[s].st = "wait_ready" => Starts(p, clients[s].session)'
    <3>1. clients[s].st = "wait_ready" =>
              /\ helper[p].then = "Error" /\ commands[p] = <<>> /\ Never(p, "Stopped") /\ Never(p, "Ready")
      BY <1>13, <2>1, <2>2 DEF Agree, Starts, Does
    <3> QED BY <2>2, <3>1 DEF Starts
  <2>5. clients[s].st = "wait_stopped" => (ResetComes(p) \/ ResetGoes(p))'
    <3>1. clients[s].st = "wait_stopped" => ResetComes(p) \/ ResetGoes(p)
      BY <1>13, <2>1, <2>2 DEF Agree, ResetDone, Rests, Does
    <3>2. ResetComes(p) => ResetComes(p)'
      BY <2>2 DEF ResetComes
    <3>3. ResetGoes(p) => ResetGoes(p)'
      BY <2>2 DEF ResetGoes
    <3> QED BY <3>1, <3>2, <3>3
  <2> QED BY <1>13, <2>2, <2>3, <2>4, <2>5 DEF Agree
<1>14. \A q \in HelperPids \ {p} : commands'[q] = commands[q] /\ answers'[q] = answers[q]
  BY <1>2
<1> QED BY <1>2, <1>6, <1>7, <1>8, <1>10, <1>11, <1>12, <1>13, <1>14, HelperFrame

LEMMA TunInitInv == ASSUME TunInit PROVE TunInv
<1>1. /\ clients = [s \in Clients |-> NoClient] /\ helper = [p \in HelperPids |-> Unborn]
      /\ commands = [p \in HelperPids |-> <<>>] /\ answers = [p \in HelperPids |-> <<>>]
      /\ files \in [Paths -> {NoFile, UserFile}] /\ alive = {} /\ killed = {} /\ sessions = 0
  BY DEF TunInit
<1>2. NoClient \in ClientRecord /\ NoClient.st = "none" /\ NoClient.pid = 0
  BY TunAssumption DEF NoClient, ClientRecord
<1>3. Unborn \in HelperRecord /\ Unborn.st = "unborn"
  <2>1. <<>> \in Seq(Paths)
    OBVIOUS
  <2> QED BY <2>1 DEF Unborn, HelperRecord
<1>4. TunType
  <2>1. files \in [Paths -> TunFiles]
    BY <1>1 DEF TunFiles
  <2>2. clients \in [Clients -> ClientRecord] /\ helper \in [HelperPids -> HelperRecord]
    BY <1>1, <1>2, <1>3
  <2>3. commands \in [HelperPids -> Seq(TunCommands)] /\ answers \in [HelperPids -> Seq(TunAnswers)]
    BY <1>1
  <2> QED BY <1>1, <2>1, <2>2, <2>3 DEF TunType
<1>5. \A p \in HelperPids : helper[p] = Unborn /\ ~Running(p)
  BY <1>1, <1>3 DEF Running
<1>6. BirthInv
  <2>1. Born = {} /\ 0 \in 0..MaxHelpers /\ 1..0 = {}
    BY <1>3, <1>5, TunAssumption DEF Born
  <2>2. \E k \in 0..MaxHelpers : Born = 1..k
    BY <2>1
  <2> QED BY <1>1, <1>5, <2>2 DEF BirthInv
<1>7. ClientInv /\ TalkInv
  BY <1>1, <1>2 DEF ClientInv, TalkInv
<1>8. GuardInv
  BY <1>5 DEF GuardInv
<1>9. FileInv
  <2>1. NothingLeft
    BY <1>1 DEF NothingLeft, NoFile, UserFile
  <2> QED BY <1>5, <2>1 DEF FileInv
<1> QED BY <1>4, <1>6, <1>7, <1>8, <1>9 DEF TunInv

LEMMA HelperStepInv == ASSUME TunInv, TunNext PROVE TunInv' /\ KeepsUsersFile
<1>1. CASE ClientStep
  <2>1. PICK s \in Clients : \/ Spawn(s) \/ StartAgain(s) \/ SendPacket(s) \/ LoopEnds(s) \/ Receive(s)
                              \/ WaitFails(s) \/ DropKills(s) \/ StopReturns(s) \/ Abandon(s) \/ OwnerDies(s)
    BY <1>1 DEF ClientStep
  <2> QED BY <2>1, SpawnKept, StartAgainKept, SendPacketKept, LoopEndsKept, ReceiveKept, WaitFailsKept,
             DropKillsKept, StopReturnsKept, AbandonKept, OwnerDiesKept
<1>2. CASE HelperStep
  <2>1. PICK p \in HelperPids : \/ HelperStart(p) \/ Inspect(p) \/ Create(p) \/ Write(p) \/ Installed(p)
                                 \/ HelperPacket(p) \/ HelperEnds(p) \/ HelperEof(p) \/ Undo(p) \/ Undone(p)
                                 \/ Reader(p) \/ HelperKilled(p) \/ PidReused(p)
    BY <1>2 DEF HelperStep
  <2> QED BY <2>1, HelperStartKept, InspectKept, CreateKept, WriteKept, InstalledKept, HelperPacketKept,
             HelperEndsKept, HelperEofKept, UndoKept, UndoneKept, ReaderKept, HelperKilledKept, PidReusedKept
<1>3. CASE \E n \in Paths : UserEdits(n)
  BY <1>3, UserEditsKept
<1> QED BY <1>1, <1>2, <1>3 DEF TunNext

(* What is promised to a user, in a state of the invariant: a client that is *)
(* up is served by its own helper, whose files are in place.                 *)
LEMMA ServedAndBacked == ASSUME TunInv PROVE ReadyIsMine /\ SplitDnsBacked /\ NothingLeft
<1>1. ASSUME NEW s \in Clients, clients[s].st = "up", Running(clients[s].pid)
      PROVE  /\ helper[clients[s].pid].ctx = clients[s].session /\ helper[clients[s].pid].phase = "idle"
             /\ \A n \in Paths : files[n] \in {Owned(clients[s].pid), UserFile}
  <2>1. PICK p : p = clients[s].pid
    OBVIOUS
  <2>2. p \in HelperPids /\ p # 0 /\ clients[s].session # 0
    BY <1>1, <2>1, TunAssumption DEF TunInv, ClientInv, Born, HelperPids
  <2>3. helper[p].ctx = clients[s].session /\ helper[p].phase = "idle"
    BY <1>1, <2>1, <2>2 DEF TunInv, TalkInv, Agree, ServesNow, Does
  <2>4. Guarded(helper[p]) /\ Backed(p)
    BY <1>1, <2>1, <2>2, HelperIs
  <2>5. Len(helper[p].held) = NumNames
    BY <2>2, <2>3, <2>4 DEF Guarded
  <2> QED BY <2>1, <2>3, <2>4, <2>5 DEF Backed, Paths
<1>2. NothingLeft
  BY DEF TunInv, FileInv
<1> QED BY <1>1, <1>2 DEF ReadyIsMine, SplitDnsBacked

LEMMA TunStutters ==
    ASSUME TunInv, UNCHANGED tunVars
    PROVE  TunInv'
<1>1. UNCHANGED <<clients, helper, commands, answers, files, alive, killed, sessions>>
  BY DEF tunVars
<1>2. Born' = Born /\ \A q : Running(q)' <=> Running(q)
  BY <1>1 DEF Born, Running
<1>3. TunType'
  BY <1>1 DEF TunInv, TunType
<1>4. BirthInv'
  BY <1>1, <1>2 DEF TunInv, BirthInv
<1>5. ClientInv' /\ GuardInv'
  BY <1>1, <1>2 DEF TunInv, ClientInv, GuardInv
<1>6. FileInv'
  <2>1. \A q \in HelperPids : Backed(q)' <=> Backed(q)
    BY <1>1 DEF Backed
  <2>2. NothingLeft'
    BY <1>1, <1>2 DEF TunInv, FileInv, NothingLeft
  <2> QED BY <1>2, <2>1, <2>2 DEF TunInv, FileInv
<1>7. TalkInv'
  BY <1>1, <1>2, AgreeFrame DEF TunInv, TalkInv
<1> QED BY <1>3, <1>4, <1>5, <1>6, <1>7 DEF TunInv

\* The helpers keep to their invariant: what is in the two pipes decides what a client may
\* take for its answer, and the files of a running helper are those its guard holds
\* (tun.rs, run_tun_helper, wait_ready, reset_session).
THEOREM HelperInvariant == TunSpec => []TunInv
<1>1. TunInv /\ [TunNext]_tunVars => TunInv'
  BY HelperStepInv, TunStutters
<1> QED BY <1>1, TunInitInv, PTL DEF TunSpec

\* Whatever is killed, late or lost, a client that goes on after "Ready" is served with its
\* own session's addresses and DNS, no file of the user is touched, and only a killed helper
\* leaves a resolver file behind (tun.rs, ResolverGuard and TunHelperClient).
THEOREM HelpersAreSound == TunSpec => HelperSound
<1> DEFINE Sound == ReadyIsMine /\ SplitDnsBacked /\ NothingLeft
<1>1. TunInv => Sound
  BY ServedAndBacked
<1>2. TunInv /\ Sound' /\ [TunNext]_tunVars => [ServesItsSession]_tunVars
  <2>1. ASSUME TunInv, Sound', TunNext PROVE ServesItsSession
    BY <2>1, HelperStepInv DEF ServesItsSession
  <2> QED BY <2>1
<1> HIDE DEF Sound
<1> QED BY <1>1, <1>2, HelperInvariant, PTL DEF TunSpec, HelperSound
=============================================================================
