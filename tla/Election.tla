------------------------------ MODULE Election ------------------------------
(***************************************************************************)
(* The watchdogs: the Bully election between them over one connection per  *)
(* pair (Watchdog, PeerHandler), the leader's HealthMonitor, which starts  *)
(* a dead container again, and the HealthResponder of the others.          *)
(*                                                                         *)
(* A PeerHandler has one queue of outgoing messages for all the sessions   *)
(* with its peer.  A session has two threads: the sender takes from that   *)
(* queue until it finds None, or until a write fails; the receiver puts    *)
(* what it reads into the main loop's queue of events and, when the        *)
(* connection ends, a DISCONNECT there and a None for the sender.          *)
(*                                                                         *)
(* Abstractions.  The rounds of pings (UDP, a count of misses per host)    *)
(* come to this: a dead container is started again while some live         *)
(* watchdog's monitor runs; starting one that is alive does nothing.       *)
(* Timers run out before a live peer is connected and has been heard at    *)
(* most MaxTroubles times.                                                 *)
(***************************************************************************)
EXTENDS Integers, Sequences, FiniteSets, FiniteSetsExt

CONSTANTS
  N,          \* number of watchdogs
  MaxTroubles, \* bound: crashes, and timers that run out although messages are
              \* under way, or after a mishap
  MaxEvents,  \* bound: events that wait for a main loop; more are read later
  Mishaps     \* what may go wrong: "write": a write to a connection the peer
              \* has left fails; "round": a monitor's round takes longer than
              \* the election timeout

ASSUME ParametersAssumption ==
  /\ N \in Nat \ {0} /\ MaxTroubles \in Nat
  /\ MaxEvents \in Nat \ {0}
  /\ Mishaps \subseteq {"write", "round"}

Watchdogs == 1 .. N
Higher(w) == {p \in Watchdogs : p > w}
Peers(w)  == Watchdogs \ {w}

NoLeader == 0
Stop     == "None"
Messages == {"ELECTION", "ANSWER", "COORDINATOR"}
Events   == [type : Messages \cup {"DISCONNECT"}, peer : Watchdogs]

VARIABLES
  alive,    \* "booting", "running" or "dead"
  role, leader, phase,
  events,   \* _events of each watchdog
  sendq,    \* _send_queue of each PeerHandler
  session,  \* "none", "open", or "ending" when only its sender is left
  sender,   \* the session's sender runs
  monitor,  \* "off", "on", "stopping": told to stop, still in its round
  responds, \* the health responder runs
  mishap,   \* history: one of Mishaps has had an effect
  troubles

nvars == <<role, leader, phase, monitor, responds>>
lvars == <<session, sender>>
vars  == <<alive, nvars, events, sendq, lvars, mishap, troubles>>

PerPair(x) == [w \in Watchdogs |-> [p \in Watchdogs |-> x]]

TypeOK ==
  /\ alive \in [Watchdogs -> {"booting", "running", "dead"}]
  /\ role \in [Watchdogs -> {"FOLLOWER", "LEADER"}]
  /\ leader \in [Watchdogs -> {NoLeader} \cup Watchdogs]
  /\ phase \in [Watchdogs -> {"IDLE", "AWAITING_ANSWER", "AWAITING_COORDINATOR"}]
  /\ events \in [Watchdogs -> Seq(Events)]
  /\ sendq \in [Watchdogs -> [Watchdogs -> Seq(Messages \cup {Stop})]]
  /\ session \in [Watchdogs -> [Watchdogs -> {"none", "open", "ending"}]]
  /\ sender \in [Watchdogs -> [Watchdogs -> BOOLEAN]]
  /\ monitor \in [Watchdogs -> {"off", "on", "stopping"}]
  /\ responds \in [Watchdogs -> BOOLEAN]
  /\ mishap \in BOOLEAN /\ troubles \in 0 .. MaxTroubles
  /\ \A w, p \in Watchdogs : sender[w][p] => session[w][p] # "none"

Init ==
  /\ alive = [w \in Watchdogs |-> "booting"]
  /\ role = [w \in Watchdogs |-> "FOLLOWER"]
  /\ leader = [w \in Watchdogs |-> NoLeader]
  /\ phase = [w \in Watchdogs |-> "IDLE"]
  /\ events = [w \in Watchdogs |-> <<>>]
  /\ sendq = PerPair(<<>>) /\ session = PerPair("none")
  /\ sender = PerPair(FALSE)
  /\ monitor = [w \in Watchdogs |-> "off"]
  /\ responds = [w \in Watchdogs |-> FALSE]
  /\ mishap = FALSE /\ troubles = 0

Trouble == troubles < MaxTroubles /\ troubles' = troubles + 1

Live(w) == alive[w] = "running"

-----------------------------------------------------------------------------
(* The main loop: what a step does to the watchdog's own state is computed   *)
(* as a record, with the messages it queues for each peer in order.          *)

State(w) == [role |-> role[w], leader |-> leader[w], phase |-> phase[w],
             monitor |-> monitor[w], responds |-> responds[w], mishap |-> mishap,
             out |-> [p \in Watchdogs |-> <<>>]]

SendTo(s, peers, msg) ==
  [s EXCEPT !.out = [p \in Watchdogs |-> IF p \in peers THEN Append(s.out[p], msg)
                                                       ELSE s.out[p]]]

BroadcastCoordinator(w, s) == SendTo(s, Peers(w), "COORDINATOR")

\* A monitor whose thread is still alive is not started again.
MonitorStart(m) == IF m = "off" THEN "on" ELSE m
MonitorStop(m)  == IF m = "off" THEN "off"
                   ELSE IF "round" \in Mishaps THEN "stopping" ELSE "off"

NoMonitor(w, s) ==  \* mutant: the new leader only announces itself
  LET b == BroadcastCoordinator(w, s)
  IN [b EXCEPT !.role = "LEADER", !.leader = w, !.phase = "IDLE", !.responds = FALSE]

BecomeLeader(w, s) ==
  LET b == BroadcastCoordinator(w, s)
  IN [b EXCEPT !.role = "LEADER", !.leader = w, !.phase = "IDLE",
               !.monitor = MonitorStart(s.monitor), !.responds = FALSE,
               !.mishap = @ \/ s.monitor = "stopping"]

BecomeFollower(s, l) ==
  [s EXCEPT !.role = "FOLLOWER", !.leader = l, !.phase = "IDLE",
            !.monitor = MonitorStop(s.monitor), !.responds = TRUE]

StartElection(w, s) ==
  IF Higher(w) = {} THEN BecomeLeader(w, [s EXCEPT !.leader = NoLeader])
  ELSE [SendTo(s, Higher(w), "ELECTION")
          EXCEPT !.leader = NoLeader, !.phase = "AWAITING_ANSWER"]

HandleElection(w, s, peer) ==
  LET answered == SendTo(s, {peer}, "ANSWER")
  IN IF s.role = "LEADER" THEN BroadcastCoordinator(w, answered)
     ELSE StartElection(w, answered)

HandleAnswer(s) ==
  IF s.phase = "AWAITING_ANSWER" THEN [s EXCEPT !.phase = "AWAITING_COORDINATOR"] ELSE s

FollowAnyone(w, s, peer) ==  \* mutant: a lower leader is accepted
  BecomeFollower(s, peer)

HandleCoordinator(w, s, peer) ==
  IF peer < w THEN StartElection(w, s) ELSE BecomeFollower(s, peer)

IgnoreDisconnect(w, s, peer) ==  \* mutant: nobody replaces the leader
  s

HandleDisconnect(w, s, peer) ==
  IF peer = s.leader THEN StartElection(w, s) ELSE s

HandleEvent(w, s, e) ==
  CASE e.type = "ELECTION"    -> HandleElection(w, s, e.peer)
    [] e.type = "ANSWER"      -> HandleAnswer(s)
    [] e.type = "COORDINATOR" -> HandleCoordinator(w, s, e.peer)
    [] e.type = "DISCONNECT"  -> HandleDisconnect(w, s, e.peer)

Take(w, s) ==
  /\ role' = [role EXCEPT ![w] = s.role]
  /\ leader' = [leader EXCEPT ![w] = s.leader]
  /\ phase' = [phase EXCEPT ![w] = s.phase]
  /\ monitor' = [monitor EXCEPT ![w] = s.monitor]
  /\ responds' = [responds EXCEPT ![w] = s.responds]
  /\ mishap' = s.mishap
  /\ sendq' = [sendq EXCEPT ![w] = [p \in Watchdogs |-> @[p] \o s.out[p]]]

\* start: the responder, the connections, and the election that opens the
\* event loop.
Boot(w) ==
  /\ alive[w] = "booting"
  /\ alive' = [alive EXCEPT ![w] = "running"]
  /\ Take(w, StartElection(w, [State(w) EXCEPT !.responds = TRUE]))
  /\ UNCHANGED <<events, lvars, troubles>>

Handle(w) ==
  /\ Live(w) /\ events[w] # <<>>
  /\ Take(w, HandleEvent(w, State(w), Head(events[w])))
  /\ events' = [events EXCEPT ![w] = Tail(@)]
  /\ UNCHANGED <<alive, lvars, troubles>>

\* Live watchdogs are connected and no message is on its way between them.
Still ==
  \A w \in Watchdogs :
    /\ alive[w] # "booting" /\ (Live(w) => events[w] = <<>>)
    /\ \A p \in Peers(w) :
         Live(w) => IF Live(p) THEN /\ session[w][p] = "open"
                                    /\ sender[w][p] => sendq[w][p] = <<>>
                               ELSE session[w][p] = "none"

\* All timers are as long: who answered set its own before the one that now
\* waits for its coordinator did.
RunsOut(w) ==
  /\ Still /\ ~mishap
  /\ phase[w] = "AWAITING_COORDINATOR" =>
       \A p \in Watchdogs : Live(p) => phase[p] # "AWAITING_ANSWER"

\* The queue was empty until the deadline.
HandleElectionTimeout(w) ==
  /\ Live(w) /\ phase[w] # "IDLE" /\ events[w] = <<>>
  /\ IF RunsOut(w) THEN UNCHANGED troubles ELSE Trouble
  /\ Take(w, IF phase[w] = "AWAITING_ANSWER" THEN BecomeLeader(w, State(w))
                                             ELSE StartElection(w, State(w)))
  /\ UNCHANGED <<alive, events, lvars>>

-----------------------------------------------------------------------------
(* PeerHandler *)

Bend(f, w, p, x) == [f EXCEPT ![w][p] = x]

\* The lower watchdog connects and sends its id; the higher one accepts.  A
\* container takes longer to start than its peers to read the end of the old
\* connection.
Connect(lo, hi) ==
  /\ lo < hi /\ Live(lo) /\ Live(hi)
  /\ session[lo][hi] = "none" /\ session[hi][lo] = "none"
  /\ session' = Bend(Bend(session, lo, hi, "open"), hi, lo, "open")
  /\ sender' = Bend(Bend(sender, lo, hi, TRUE), hi, lo, TRUE)
  /\ UNCHANGED <<alive, nvars, events, sendq, mishap, troubles>>

PeerThere(w, p) == session[w][p] = "open" /\ session[p][w] = "open"

\* The sender ends, and with it a session that was only waiting to join it.
SenderEnds(w, p) ==
  /\ sender' = Bend(sender, w, p, FALSE)
  /\ session' = IF session[w][p] = "ending" THEN Bend(session, w, p, "none") ELSE session
  /\ UNCHANGED events

\* The sender takes the head of the queue and writes it; the peer's receiver
\* reads it (what the sockets hold between the two is as good as unsent).  A
\* write to a connection that the peer has left is lost, or fails and ends the
\* sender.
SenderStep(w, p) ==
  /\ Live(w) /\ sender[w][p] /\ sendq[w][p] # <<>>
  /\ LET data == Head(sendq[w][p])
     IN \/ data = Stop /\ SenderEnds(w, p) /\ UNCHANGED mishap
        \/ /\ data # Stop /\ PeerThere(w, p) /\ Len(events[p]) < MaxEvents
           /\ events' = [events EXCEPT ![p] = Append(@, [type |-> data, peer |-> w])]
           /\ UNCHANGED <<sender, session, mishap>>
        \/ data # Stop /\ ~PeerThere(w, p) /\ UNCHANGED <<events, sender, session, mishap>>
        \/ /\ data # Stop /\ ~PeerThere(w, p) /\ "write" \in Mishaps
           /\ SenderEnds(w, p) /\ mishap' = TRUE
  /\ sendq' = [sendq EXCEPT ![w][p] = Tail(@)]
  /\ UNCHANGED <<alive, nvars, troubles>>

NoJoin(w, p) == "none"  \* mutant: the sender is left to itself

\* _run_session joins the sender: a session that has lost its connection lasts
\* until its sender ends.
AfterLoss(w, p) == IF sender[w][p] THEN "ending" ELSE "none"

\* The receiver finds that the peer has left.
LoseConnection(w, p) ==
  /\ Live(w) /\ session[w][p] = "open" /\ session[p][w] # "open"
  /\ Len(events[w]) < MaxEvents
  /\ events' = [events EXCEPT ![w] = Append(@, [type |-> "DISCONNECT", peer |-> p])]
  /\ sendq' = [sendq EXCEPT ![w][p] = Append(@, Stop)]
  /\ session' = Bend(session, w, p, AfterLoss(w, p))
  /\ UNCHANGED <<alive, nvars, sender, mishap, troubles>>

-----------------------------------------------------------------------------
(* HealthMonitor, and crashes *)

RoundEnds(w) ==
  /\ Live(w) /\ monitor[w] = "stopping"
  /\ monitor' = [monitor EXCEPT ![w] = "off"]
  /\ UNCHANGED <<alive, role, leader, phase, responds, events, sendq, lvars,
                 mishap, troubles>>

Monitors(w) == Live(w) /\ monitor[w] # "off"

\* A watchdog dies while another one lives; with the last one nobody is left
\* to start them.
Crash(w) ==
  /\ alive[w] # "dead" /\ Trouble
  /\ \E p \in Peers(w) : Live(p)
  /\ alive' = [alive EXCEPT ![w] = "dead"]
  /\ role' = [role EXCEPT ![w] = "FOLLOWER"]
  /\ leader' = [leader EXCEPT ![w] = NoLeader]
  /\ phase' = [phase EXCEPT ![w] = "IDLE"]
  /\ monitor' = [monitor EXCEPT ![w] = "off"]
  /\ responds' = [responds EXCEPT ![w] = FALSE]
  /\ events' = [events EXCEPT ![w] = <<>>]
  /\ sendq' = [sendq EXCEPT ![w] = [p \in Watchdogs |-> <<>>]]
  /\ session' = [session EXCEPT ![w] = [p \in Watchdogs |-> "none"]]
  /\ sender' = [sender EXCEPT ![w] = [p \in Watchdogs |-> FALSE]]
  /\ UNCHANGED mishap

\* docker start, after max_retries rounds without a pong.
Revive(w) ==
  /\ alive[w] = "dead" /\ \E m \in Watchdogs : Monitors(m)
  /\ alive' = [alive EXCEPT ![w] = "booting"]
  /\ UNCHANGED <<nvars, events, sendq, lvars, mishap, troubles>>

-----------------------------------------------------------------------------
MainLoop(w)       == Boot(w) \/ Handle(w) \/ HandleElectionTimeout(w)
PeerThreads(w, p) == Connect(w, p) \/ SenderStep(w, p) \/ LoseConnection(w, p)

Progress ==
  \/ \E w \in Watchdogs : MainLoop(w) \/ RoundEnds(w) \/ Revive(w)
  \/ \E w, p \in Watchdogs : PeerThreads(w, p)

Next == Progress \/ \E w \in Watchdogs : Crash(w)

Spec == Init /\ [][Next]_vars

\* Some thread that can run does, be it a timer or a monitor's round.
Fairness == WF_vars(Progress)

FairSpec == Spec /\ Fairness

-----------------------------------------------------------------------------
\* Nothing is left to do, and no timer runs.
AtRest == Still /\ \A w \in Watchdogs : phase[w] = "IDLE"

LiveOnes == {w \in Watchdogs : Live(w)}

\* One watchdog leads and monitors.  The others monitor nothing, answer pings
\* and follow a live watchdog above them: not always the leader itself, since
\* two COORDINATOR messages of different senders may overtake each other, but
\* one whose own death or the leader's they come to know of.
LedBy(l) ==
  /\ role[l] = "LEADER" /\ leader[l] = l /\ monitor[l] = "on"
  /\ \A w \in LiveOnes \ {l} :
       /\ role[w] = "FOLLOWER" /\ monitor[w] # "on" /\ responds[w]
       /\ leader[w] \in LiveOnes /\ leader[w] > w

\* Whenever the watchdogs come to rest, the highest one alive is the only one
\* that leads, whatever crashed, and whenever timers ran out, unless a write
\* had failed or a monitor was to start in its last round.
HighestLeadsAtRest == AtRest /\ ~mishap => LedBy(Max(LiveOnes))

\* A dead watchdog is started again, with the same exceptions: somebody comes
\* to lead and to monitor.
EventuallyRevived ==
  \A w \in Watchdogs : alive[w] = "dead" ~> (mishap \/ alive[w] # "dead")

\* Once crashes stop, the watchdogs settle on one leader.
SettlesOnALeader == <>[](mishap \/ \E l \in LiveOnes : LedBy(l))

\* TP_distribuidos.md:226: the election guarantees that there is always a
\* leader in charge of monitoring and restarting the nodes.
DeadAreRevived == \A w \in Watchdogs : alive[w] = "dead" ~> alive[w] # "dead"
=============================================================================
