--------------------------- MODULE Election_proofs ---------------------------
(***************************************************************************)
(* Theorems about Election for every number of watchdogs, of troubles and  *)
(* of waiting events, and every set of mishaps.  What makes the highest    *)
(* one lead at rest is what the messages under way will still correct: a   *)
(* follower whose leader has gone will read its DISCONNECT, and of two     *)
(* that lead one has a COORDINATOR before it that nothing can lose.  All   *)
(* of it holds from the start of every watchdog (Spec) and from what an    *)
(* election leaves behind with any of them dead (SettledSpec, the start of *)
(* the run election).                                                      *)
(***************************************************************************)
EXTENDS MCElection, FiniteSetTheorems, WellFoundedInduction, TLAPS

\* A watchdog that does not run has no state and no connection.
Blank(w) ==
  /\ role[w] = "FOLLOWER" /\ leader[w] = NoLeader /\ phase[w] = "IDLE"
  /\ monitor[w] = "off" /\ ~responds[w] /\ events[w] = <<>>
  /\ \A p \in Watchdogs : sendq[w][p] = <<>> /\ session[w][p] = "none"

\* What the fields of a running watchdog have to do with each other.
Standing(w, s) ==
  /\ s.leader = w => s.role = "LEADER" /\ s.phase = "IDLE" /\ s.monitor = "on"
  /\ s.leader \notin {NoLeader, w} =>
       /\ s.leader > w /\ s.role = "FOLLOWER" /\ s.phase = "IDLE"
       /\ s.monitor # "on" /\ s.responds
  /\ s.phase = "IDLE" => s.leader # NoLeader

\* A session has its sender, which is stopped once; of two ends that are not
\* both open, one has been lost to a crash.
Linked(w, p) ==
  /\ session[w][p] # "none" => w # p /\ sender[w][p]
  /\ session[w][p] = "ending" =>
       /\ session[p][w] # "open"
       /\ \E i \in DOMAIN sendq[w][p] : sendq[w][p][i] = Stop
  /\ \A i \in DOMAIN sendq[w][p] : sendq[w][p][i] = Stop =>
       /\ session[w][p] = "ending"
       /\ \A j \in DOMAIN sendq[w][p] : sendq[w][p][j] = Stop => i = j

\* There is a DISCONNECT of p behind the n-th event of q.
Noticed(q, p, n) ==
  \E j \in DOMAIN q : j > n /\ q[j] = [type |-> "DISCONNECT", peer |-> p]

\* p is connected, or w will read its DISCONNECT behind the n-th event.
Learns(w, p, n) == session[w][p] = "open" \/ Noticed(events[w], p, n)

\* Whoever w follows, or is about to follow, does not leave unnoticed.
Follows(w) ==
  /\ leader[w] \notin {NoLeader, w} => Learns(w, leader[w], 0)
  /\ \A i \in DOMAIN events[w] :
       events[w][i].type = "COORDINATOR" => Learns(w, events[w][i].peer, i)
  /\ \A i \in DOMAIN events[w] : events[w][i].peer # w

\* w has not noticed yet that p has left it: what it writes will be lost.
Left(w, p) == session[w][p] = "open" /\ session[p][w] # "open"

Queued(w, p) == \E i \in DOMAIN sendq[w][p] : sendq[w][p][i] = "COORDINATOR"

\* A COORDINATOR of w that p will read.
Announced(w, p) ==
  \/ \E i \in DOMAIN sendq[w][p] :
       /\ sendq[w][p][i] = "COORDINATOR" /\ ~Left(w, p)
       /\ session[w][p] = "ending" => \E j \in DOMAIN sendq[w][p] :
                                        j < i /\ sendq[w][p][j] = Stop
  \/ \E i \in DOMAIN events[p] : events[p][i] = [type |-> "COORDINATOR", peer |-> w]

\* Two that lead will not both lead for long.  A leader that p takes for the
\* one that died has been started since, and keeps what it announced.
Settling(w, p) ==
  /\ leader[w] = w /\ leader[p] = p => Announced(w, p) \/ Announced(p, w)
  /\ leader[w] = w /\ Left(p, w) => Queued(w, p)

Sound ==
  /\ \A w \in Watchdogs : (Live(w) => Standing(w, State(w))) /\ Follows(w)
  /\ \A w, p \in Watchdogs : Linked(w, p) /\ (w # p => Settling(w, p))

SomebodyRuns == \E w \in Watchdogs : alive[w] # "dead"

Inductive ==
  /\ TypeOK /\ SomebodyRuns
  /\ \A w \in Watchdogs : ~Live(w) => Blank(w)
  /\ mishap \/ Sound

-----------------------------------------------------------------------------
(* Sequences, and the highest of some watchdogs *)

LEMMA TailAt ==
  ASSUME NEW S, NEW q \in Seq(S), q # <<>>
  PROVE  /\ Tail(q) \in Seq(S) /\ Head(q) \in S /\ Head(q) = q[1] /\ 1 \in DOMAIN q
         /\ \A i \in DOMAIN Tail(q) : i + 1 \in DOMAIN q /\ Tail(q)[i] = q[i + 1]
                                       /\ i \in Nat
         /\ \A i \in DOMAIN q : i # 1 => i - 1 \in DOMAIN Tail(q) /\ Tail(q)[i - 1] = q[i]
                                         /\ i \in Nat /\ i > 1
  OBVIOUS

LEMMA AppendAt ==
  ASSUME NEW S, NEW q \in Seq(S), NEW m \in S
  PROVE  /\ Append(q, m) \in Seq(S)
         /\ \A i \in DOMAIN q : i \in DOMAIN Append(q, m) /\ Append(q, m)[i] = q[i]
                                 /\ i \in Nat /\ i < Len(q) + 1
         /\ Len(q) + 1 \in DOMAIN Append(q, m) /\ Append(q, m)[Len(q) + 1] = m
         /\ Len(q) + 1 \in Nat
         /\ \A i \in DOMAIN Append(q, m) : i \in DOMAIN q \/ i = Len(q) + 1
  OBVIOUS

LEMMA ConcatAt ==
  ASSUME NEW S, NEW a \in Seq(S), NEW b \in Seq(S)
  PROVE  /\ a \o b \in Seq(S)
         /\ \A i \in DOMAIN a : i \in DOMAIN (a \o b) /\ (a \o b)[i] = a[i]
                                 /\ i \in Nat /\ i <= Len(a)
         /\ \A i \in DOMAIN b : Len(a) + i \in DOMAIN (a \o b) /\ (a \o b)[Len(a) + i] = b[i]
                                 /\ Len(a) + i \in Nat /\ Len(a) + i > Len(a)
         /\ \A i \in DOMAIN (a \o b) :
              \/ i \in DOMAIN a
              \/ \E j \in DOMAIN b : i = Len(a) + j
<1>1. a \o b \in Seq(S) /\ Len(a \o b) = Len(a) + Len(b)
  OBVIOUS
<1>2. DOMAIN a = 1 .. Len(a) /\ DOMAIN b = 1 .. Len(b)
      /\ DOMAIN (a \o b) = 1 .. Len(a) + Len(b) /\ Len(a) \in Nat /\ Len(b) \in Nat
  BY <1>1
<1>3. \A i \in DOMAIN a : i \in DOMAIN (a \o b) /\ (a \o b)[i] = a[i]
                           /\ i \in Nat /\ i <= Len(a)
  BY <1>2
<1>4. \A i \in DOMAIN b : Len(a) + i \in DOMAIN (a \o b) /\ (a \o b)[Len(a) + i] = b[i]
                           /\ Len(a) + i \in Nat /\ Len(a) + i > Len(a)
  BY <1>2
<1>5. ASSUME NEW i \in DOMAIN (a \o b), i \notin DOMAIN a
      PROVE  \E j \in DOMAIN b : i = Len(a) + j
  <2>1. i - Len(a) \in DOMAIN b /\ i = Len(a) + (i - Len(a))
    BY <1>2, <1>5
  <2>2. QED
    BY <2>1
<1>6. QED
  BY <1>1, <1>3, <1>4, <1>5

LessThan == {ss \in Nat \X Nat : ss[1] < ss[2]}

\* A non-empty set of watchdogs has a highest one.
LEMMA Highest ==
  ASSUME NEW S, S \subseteq Watchdogs, S # {}
  PROVE  Max(S) \in S /\ \A y \in S : Max(S) >= y
<1> DEFINE D == {N - x : x \in S}
<1>1. IsWellFoundedOn(LessThan, Nat)
  <2>1. LessThan = OpToRel(<, Nat)
    BY DEF LessThan, OpToRel
  <2>2. QED
    BY <2>1, NatLessThanWellFounded
<1>2. \A x \in S : N - x \in Nat /\ x \in Int
  BY ParametersAssumption DEF Watchdogs
<1>3. D \subseteq Nat
  BY <1>2
<1>4. D # {}
  OBVIOUS
<1>5. PICK d \in D : \A y \in D : ~ (<<y, d>> \in LessThan)
  BY <1>1, <1>3, <1>4, WFMin
<1>6. PICK x \in S : d = N - x
  OBVIOUS
<1>7. ASSUME NEW y \in S PROVE x >= y
  <2>1. N - y \in D /\ N - y \in Nat /\ d \in Nat
    BY <1>2, <1>3
  <2>2. ~ (N - y < d)
    BY <2>1, <1>5 DEF LessThan
  <2>3. x \in Int /\ y \in Int /\ N \in Int
    BY <1>2, ParametersAssumption
  <2>4. QED
    BY <2>2, <2>3, <1>6
<1>8. QED
  BY <1>7 DEF Max

-----------------------------------------------------------------------------
(* What the main loop computes *)

Outcomes ==
  [role : {"FOLLOWER", "LEADER"}, leader : {NoLeader} \cup Watchdogs,
   phase : {"IDLE", "AWAITING_ANSWER", "AWAITING_COORDINATOR"},
   monitor : {"off", "on", "stopping"}, responds : BOOLEAN, mishap : BOOLEAN,
   out : [Watchdogs -> Seq(Messages)]]

\* s queues a COORDINATOR for everybody else.
Announces(w, s) ==
  \A p \in Peers(w) : \E i \in DOMAIN s.out[p] : s.out[p][i] = "COORDINATOR"

\* An election leaves w to lead, and everybody is told so, or to wait.
Elected(w, b, s) ==
  /\ s \in Outcomes /\ (b.mishap => s.mishap)
  /\ s.mishap \/ Standing(w, s)
  /\ s.leader = NoLeader \/ (s.leader = w /\ Announces(w, s))

LEMMA NoLeaderIsNone == \A w \in Watchdogs : w # NoLeader /\ w \in Nat /\ w > 0
  BY ParametersAssumption DEF Watchdogs, NoLeader

LEMMA StateTyped ==
  ASSUME TypeOK, NEW w \in Watchdogs
  PROVE  State(w) \in Outcomes
<1>1. [p \in Watchdogs |-> <<>>] \in [Watchdogs -> Seq(Messages)]
  OBVIOUS
<1>2. QED
  BY <1>1 DEF TypeOK, State, Outcomes

LEMMA SendToTyped ==
  ASSUME NEW s \in Outcomes, NEW peers, NEW msg \in Messages
  PROVE  LET b == SendTo(s, peers, msg)
         IN  /\ b \in Outcomes
             /\ b.role = s.role /\ b.leader = s.leader /\ b.phase = s.phase
             /\ b.monitor = s.monitor /\ b.responds = s.responds /\ b.mishap = s.mishap
             /\ \A p \in Watchdogs \cap peers : b.out[p] = Append(s.out[p], msg)
<1> DEFINE o == [p \in Watchdogs |-> IF p \in peers THEN Append(s.out[p], msg)
                                                    ELSE s.out[p]]
           b == SendTo(s, peers, msg)
<1>1. s.out \in [Watchdogs -> Seq(Messages)]
  BY DEF Outcomes
<1>2. o \in [Watchdogs -> Seq(Messages)]
  BY <1>1
<1>3. b = [s EXCEPT !.out = o]
  BY DEF SendTo
<1>4. b.out = o /\ b \in Outcomes
  BY <1>2, <1>3 DEF Outcomes
<1>5. b.role = s.role /\ b.leader = s.leader /\ b.phase = s.phase
      /\ b.monitor = s.monitor /\ b.responds = s.responds /\ b.mishap = s.mishap
  BY <1>3 DEF Outcomes
<1>6. QED
  BY <1>4, <1>5

LEMMA BroadcastTyped ==
  ASSUME NEW s \in Outcomes, NEW w \in Watchdogs
  PROVE  LET b == BroadcastCoordinator(w, s)
         IN  /\ b \in Outcomes /\ Announces(w, b)
             /\ b.role = s.role /\ b.leader = s.leader /\ b.phase = s.phase
             /\ b.monitor = s.monitor /\ b.responds = s.responds /\ b.mishap = s.mishap
<1> DEFINE b == BroadcastCoordinator(w, s)
<1>1. b = SendTo(s, Peers(w), "COORDINATOR") /\ "COORDINATOR" \in Messages
  BY DEF BroadcastCoordinator, Messages
<1>2. \A p \in Peers(w) : p \in Watchdogs \cap Peers(w) /\ s.out[p] \in Seq(Messages)
  BY DEF Peers, Outcomes
<1>3. \A p \in Peers(w) : b.out[p] = Append(s.out[p], "COORDINATOR")
  BY <1>1, <1>2, SendToTyped
<1>4. ASSUME NEW p \in Peers(w)
      PROVE  \E i \in DOMAIN b.out[p] : b.out[p][i] = "COORDINATOR"
  <2>1. s.out[p] \in Seq(Messages) /\ b.out[p] = Append(s.out[p], "COORDINATOR")
    BY <1>2, <1>3
  <2>2. QED
    BY <2>1, <1>1, AppendAt
<1>5. QED
  BY <1>1, <1>4, SendToTyped DEF Announces

LEMMA BecomeLeaderElected ==
  ASSUME NEW s \in Outcomes, NEW w \in Watchdogs
  PROVE  Elected(w, s, BecomeLeader(w, s)) /\ BecomeLeader(w, s).leader = w
<1> DEFINE b == BroadcastCoordinator(w, s)
           r == BecomeLeader(w, s)
<1>1. b \in Outcomes /\ Announces(w, b) /\ b.mishap = s.mishap /\ s.mishap \in BOOLEAN
      /\ s.monitor \in {"off", "on", "stopping"}
  BY BroadcastTyped DEF Outcomes
<1>2. r = [b EXCEPT !.role = "LEADER", !.leader = w, !.phase = "IDLE",
                    !.monitor = MonitorStart(s.monitor), !.responds = FALSE,
                    !.mishap = b.mishap \/ s.monitor = "stopping"]
  BY <1>1 DEF BecomeLeader, Outcomes
<1>3. MonitorStart(s.monitor) \in {"on", "stopping"}
      /\ (MonitorStart(s.monitor) = "stopping" => s.monitor = "stopping")
  BY <1>1 DEF MonitorStart
<1>4. r \in Outcomes /\ r.role = "LEADER" /\ r.leader = w /\ r.phase = "IDLE"
      /\ r.monitor = MonitorStart(s.monitor) /\ r.out = b.out
      /\ r.mishap = (b.mishap \/ s.monitor = "stopping")
  BY <1>1, <1>2, <1>3 DEF Outcomes
<1>5. Announces(w, r)
  BY <1>1, <1>4 DEF Announces
<1>6. r.mishap \/ Standing(w, r)
  BY <1>3, <1>4, NoLeaderIsNone DEF Standing
<1>7. QED
  BY <1>1, <1>4, <1>5, <1>6 DEF Elected

LEMMA StartElectionElected ==
  ASSUME NEW s \in Outcomes, NEW w \in Watchdogs
  PROVE  Elected(w, s, StartElection(w, s))
<1>1. CASE Higher(w) = {}
  <2> DEFINE c == [s EXCEPT !.leader = NoLeader]
  <2>1. c \in Outcomes /\ c.mishap = s.mishap
    BY DEF Outcomes
  <2>2. Elected(w, c, BecomeLeader(w, c))
    BY <2>1, BecomeLeaderElected
  <2>3. StartElection(w, s) = BecomeLeader(w, c)
    BY <1>1 DEF StartElection
  <2>4. QED
    BY <2>1, <2>2, <2>3 DEF Elected
<1>2. CASE Higher(w) # {}
  <2> DEFINE c == SendTo(s, Higher(w), "ELECTION")
             r == [c EXCEPT !.leader = NoLeader, !.phase = "AWAITING_ANSWER"]
  <2>1. c \in Outcomes /\ c.mishap = s.mishap
    BY SendToTyped DEF Messages
  <2>2. r \in Outcomes /\ r.mishap = c.mishap /\ r.leader = NoLeader
        /\ r.phase = "AWAITING_ANSWER"
    BY <2>1 DEF Outcomes
  <2>3. Standing(w, r)
    BY <2>2, NoLeaderIsNone DEF Standing
  <2>4. StartElection(w, s) = r
    BY <1>2 DEF StartElection
  <2>5. QED
    BY <2>1, <2>2, <2>3, <2>4 DEF Elected
<1>3. QED
  BY <1>1, <1>2

\* What an event e does to the leader that w knows.
Adopts(w, e, s) ==
  \/ s.leader = NoLeader
  \/ s.leader = w /\ Announces(w, s)
  \/ /\ s.leader = leader[w] /\ (leader[w] = w => e.type # "COORDINATOR")
     /\ leader[w] # NoLeader => e # [type |-> "DISCONNECT", peer |-> leader[w]]
  \/ s.leader # w /\ e = [type |-> "COORDINATOR", peer |-> s.leader]

LEMMA SameStanding ==
  ASSUME NEW w, NEW s, NEW b, Standing(w, s),
         b.role = s.role, b.leader = s.leader, b.phase = s.phase,
         b.monitor = s.monitor, b.responds = s.responds
  PROVE  Standing(w, b)
  BY DEF Standing

LEMMA ElectedAdopts ==
  ASSUME NEW w, NEW b, NEW s, NEW e, Elected(w, b, s)
  PROVE  /\ s \in Outcomes /\ (b.mishap => s.mishap) /\ (s.mishap \/ Standing(w, s))
         /\ Adopts(w, e, s)
  BY DEF Elected, Adopts

LEMMA HandleEventAdopts ==
  ASSUME TypeOK, NEW w \in Watchdogs, mishap \/ Standing(w, State(w)),
         NEW e \in Events, mishap \/ e.peer # w
  PROVE  LET s == HandleEvent(w, State(w), e)
         IN  /\ s \in Outcomes /\ (mishap => s.mishap) /\ (s.mishap \/ Standing(w, s))
             /\ mishap \/ Adopts(w, e, s)
<1> DEFINE b == State(w)
           s == HandleEvent(w, b, e)
<1>1. /\ b \in Outcomes /\ b.mishap = mishap /\ b.role = role[w] /\ b.leader = leader[w]
      /\ b.phase = phase[w] /\ b.monitor = monitor[w] /\ b.responds = responds[w]
  BY StateTyped DEF State
<1>2. e.peer \in Watchdogs /\ e.type \in {"ELECTION", "ANSWER", "COORDINATOR", "DISCONNECT"}
      /\ e = [type |-> e.type, peer |-> e.peer]
  BY DEF Events, Messages
<1>3. CASE e.type = "ELECTION"
  <2> DEFINE a == SendTo(b, {e.peer}, "ANSWER")
             c == BroadcastCoordinator(w, a)
  <2>1. a \in Outcomes /\ a.mishap = mishap /\ a.role = b.role /\ a.leader = b.leader
        /\ a.phase = b.phase /\ a.monitor = b.monitor /\ a.responds = b.responds
    BY <1>1, SendToTyped DEF Messages
  <2>2. s = IF b.role = "LEADER" THEN c ELSE StartElection(w, a)
    BY <1>3 DEF HandleEvent, HandleElection
  <2>3. CASE b.role = "LEADER"
    <3>1. c \in Outcomes /\ c.mishap = mishap /\ c.role = b.role /\ c.leader = b.leader
          /\ c.phase = b.phase /\ c.monitor = b.monitor /\ c.responds = b.responds
      BY <2>1, BroadcastTyped
    <3>2. mishap \/ Standing(w, c)
      BY <3>1, SameStanding
    <3>3. e.type # "COORDINATOR" /\ \A l : e # [type |-> "DISCONNECT", peer |-> l]
      BY <1>3
    <3>4. Adopts(w, e, c)
      BY <3>1, <3>3, <1>1 DEF Adopts
    <3>5. QED
      BY <2>2, <2>3, <3>1, <3>2, <3>4
  <2>4. CASE b.role # "LEADER"
    <3>1. Elected(w, a, s)
      BY <2>1, <2>2, <2>4, StartElectionElected
    <3>2. QED
      BY <2>1, <3>1, ElectedAdopts
  <2>5. QED
    BY <2>3, <2>4
<1>4. CASE e.type = "ANSWER"
  <2>1. s = IF b.phase = "AWAITING_ANSWER"
            THEN [b EXCEPT !.phase = "AWAITING_COORDINATOR"] ELSE b
    BY <1>4 DEF HandleEvent, HandleAnswer
  <2>2. /\ s \in Outcomes /\ s.mishap = mishap /\ s.role = b.role /\ s.leader = b.leader
        /\ s.monitor = b.monitor /\ s.responds = b.responds
        /\ (s.phase = "IDLE" <=> b.phase = "IDLE")
    BY <1>1, <2>1 DEF Outcomes
  <2>3. mishap \/ Standing(w, s)
    BY <2>2 DEF Standing
  <2>4. e.type # "COORDINATOR" /\ \A l : e # [type |-> "DISCONNECT", peer |-> l]
    BY <1>4
  <2>5. Adopts(w, e, s)
    BY <1>1, <2>2, <2>4 DEF Adopts
  <2>6. QED
    BY <2>2, <2>3, <2>5
<1>5. CASE e.type = "COORDINATOR"
  <2>1. s = IF e.peer < w THEN StartElection(w, b) ELSE BecomeFollower(b, e.peer)
    BY <1>5 DEF HandleEvent, HandleCoordinator
  <2>2. CASE e.peer < w
    <3>1. Elected(w, b, s)
      BY <1>1, <2>1, <2>2, StartElectionElected
    <3>2. QED
      BY <1>1, <3>1, ElectedAdopts
  <2>3. CASE ~ (e.peer < w)
    <3>1. s = [b EXCEPT !.role = "FOLLOWER", !.leader = e.peer, !.phase = "IDLE",
                        !.monitor = MonitorStop(b.monitor), !.responds = TRUE]
      BY <2>1, <2>3 DEF BecomeFollower
    <3>2. MonitorStop(b.monitor) \in {"off", "stopping"}
      BY DEF MonitorStop
    <3>3. s \in Outcomes /\ s.mishap = mishap /\ s.role = "FOLLOWER" /\ s.leader = e.peer
          /\ s.phase = "IDLE" /\ s.monitor # "on" /\ s.responds
      BY <1>1, <1>2, <3>1, <3>2 DEF Outcomes
    <3>4. mishap \/ (e.peer > w /\ e.peer # w)
      BY <1>2, <2>3, NoLeaderIsNone
    <3>5. mishap \/ Standing(w, s)
      BY <1>2, <3>3, <3>4, NoLeaderIsNone DEF Standing
    <3>6. mishap \/ Adopts(w, e, s)
      BY <1>2, <1>5, <3>3, <3>4 DEF Adopts
    <3>7. QED
      BY <3>3, <3>5, <3>6
  <2>4. QED
    BY <2>2, <2>3
<1>6. CASE e.type = "DISCONNECT"
  <2>1. s = IF e.peer = b.leader THEN StartElection(w, b) ELSE b
    BY <1>6 DEF HandleEvent, HandleDisconnect
  <2>2. CASE e.peer = b.leader
    <3>1. Elected(w, b, s)
      BY <1>1, <2>1, <2>2, StartElectionElected
    <3>2. QED
      BY <1>1, <3>1, ElectedAdopts
  <2>3. CASE e.peer # b.leader
    <3>1. s = b
      BY <2>1, <2>3
    <3>2. e.type # "COORDINATOR" /\ e # [type |-> "DISCONNECT", peer |-> leader[w]]
      BY <1>1, <1>6, <2>3
    <3>3. Adopts(w, e, s)
      BY <1>1, <3>1, <3>2 DEF Adopts
    <3>4. QED
      BY <1>1, <3>1, <3>3
  <2>4. QED
    BY <2>2, <2>3
<1>7. QED
  BY <1>2, <1>3, <1>4, <1>5, <1>6

-----------------------------------------------------------------------------
(* A step of the main loop *)

\* What a step of w's main loop does, whichever it is.
Moves(w, s) ==
  /\ s \in Outcomes /\ (mishap => s.mishap) /\ (s.mishap \/ Standing(w, s))
  /\ Take(w, s) /\ UNCHANGED lvars /\ troubles' \in 0 .. MaxTroubles
  /\ alive' = [alive EXCEPT ![w] = "running"]
  /\ \/ /\ events' = events
        /\ s.leader = NoLeader \/ (s.leader = w /\ Announces(w, s))
     \/ /\ events[w] # <<>> /\ events' = [events EXCEPT ![w] = Tail(events[w])]
        /\ mishap \/ Adopts(w, Head(events[w]), s)

LEMMA MainLoopMoves ==
  ASSUME Inductive, NEW w \in Watchdogs, MainLoop(w)
  PROVE  \E s : Moves(w, s)
<1>1. /\ TypeOK /\ troubles \in 0 .. MaxTroubles /\ MaxTroubles \in Nat
      /\ (Trouble => troubles' \in 0 .. MaxTroubles)
      /\ (Live(w) => [alive EXCEPT ![w] = "running"] = alive)
      /\ (mishap \/ (Live(w) => Standing(w, State(w))))
      /\ State(w) \in Outcomes /\ State(w).mishap = mishap
  <2>1. TypeOK /\ (mishap \/ Sound)
    BY DEF Inductive
  <2>2. troubles \in 0 .. MaxTroubles /\ MaxTroubles \in Nat
        /\ alive \in [Watchdogs -> {"booting", "running", "dead"}]
    BY <2>1, ParametersAssumption DEF TypeOK
  <2>3. Trouble => troubles' \in 0 .. MaxTroubles
    BY <2>2 DEF Trouble
  <2>4. Live(w) => [alive EXCEPT ![w] = "running"] = alive
    BY <2>2 DEF Live
  <2>5. mishap \/ (Live(w) => Standing(w, State(w)))
    BY <2>1 DEF Sound
  <2>6. State(w) \in Outcomes
    BY <2>1, StateTyped
  <2>7. State(w).mishap = mishap
    BY DEF State
  <2>8. QED
    BY <2>1, <2>2, <2>3, <2>4, <2>5, <2>6, <2>7
<1>2. CASE Boot(w)
  <2> DEFINE b == [State(w) EXCEPT !.responds = TRUE]
             s == StartElection(w, b)
  <2>1. b \in Outcomes /\ b.mishap = mishap
    BY <1>1 DEF Outcomes
  <2>2. Elected(w, b, s)
    BY <2>1, StartElectionElected
  <2>3. /\ s \in Outcomes /\ (mishap => s.mishap) /\ (s.mishap \/ Standing(w, s))
        /\ s.leader = NoLeader \/ (s.leader = w /\ Announces(w, s))
    BY <2>1, <2>2 DEF Elected
  <2>4. /\ Take(w, s) /\ UNCHANGED lvars /\ troubles' = troubles /\ events' = events
        /\ alive' = [alive EXCEPT ![w] = "running"]
    BY <1>2 DEF Boot
  <2>5. Moves(w, s)
    BY <1>1, <2>3, <2>4 DEF Moves
  <2>6. QED
    BY <2>5
<1>3. CASE Handle(w)
  <2> DEFINE e == Head(events[w])
             s == HandleEvent(w, State(w), e)
  <2>1. /\ Live(w) /\ events[w] # <<>> /\ Take(w, s) /\ UNCHANGED lvars
        /\ events' = [events EXCEPT ![w] = Tail(events[w])]
        /\ alive' = alive /\ troubles' = troubles
    BY <1>3 DEF Handle
  <2>2. events[w] \in Seq(Events)
    BY <1>1 DEF TypeOK
  <2>3. e \in Events /\ e = events[w][1] /\ 1 \in DOMAIN events[w]
    BY <2>1, <2>2, TailAt
  <2>4. mishap \/ e.peer # w
    BY <2>3 DEF Inductive, Sound, Follows
  <2>5. /\ s \in Outcomes /\ (mishap => s.mishap) /\ (s.mishap \/ Standing(w, s))
        /\ mishap \/ Adopts(w, e, s)
    BY <1>1, <2>1, <2>3, <2>4, HandleEventAdopts
  <2>6. Moves(w, s)
    BY <1>1, <2>1, <2>5 DEF Moves
  <2>7. QED
    BY <2>6
<1>4. CASE HandleElectionTimeout(w)
  <2> DEFINE s == IF phase[w] = "AWAITING_ANSWER" THEN BecomeLeader(w, State(w))
                                                  ELSE StartElection(w, State(w))
  <2>1. /\ Live(w) /\ Take(w, s) /\ UNCHANGED lvars /\ events' = events /\ alive' = alive
        /\ (troubles' = troubles \/ Trouble)
    BY <1>4 DEF HandleElectionTimeout
  <2>2. Elected(w, State(w), s)
    BY <1>1, StartElectionElected, BecomeLeaderElected
  <2>3. /\ s \in Outcomes /\ (mishap => s.mishap) /\ (s.mishap \/ Standing(w, s))
        /\ s.leader = NoLeader \/ (s.leader = w /\ Announces(w, s))
    BY <1>1, <2>2 DEF Elected
  <2>4. Moves(w, s)
    BY <1>1, <2>1, <2>3 DEF Moves
  <2>5. QED
    BY <2>4
<1>5. QED
  BY <1>2, <1>3, <1>4 DEF MainLoop

LEMMA TakeQueues ==
  ASSUME TypeOK, NEW w \in Watchdogs, NEW s \in Outcomes, Take(w, s)
  PROVE  /\ sendq' \in [Watchdogs -> [Watchdogs -> Seq(Messages \cup {Stop})]]
         /\ \A p \in Watchdogs : sendq'[w][p] = sendq[w][p] \o s.out[p]
         /\ \A v \in Watchdogs \ {w} : sendq'[v] = sendq[v]
<1> DEFINE g == [p \in Watchdogs |-> sendq[w][p] \o s.out[p]]
           Q == [Watchdogs -> Seq(Messages \cup {Stop})]
<1>1. \A p \in Watchdogs : sendq[w][p] \in Seq(Messages \cup {Stop})
                           /\ s.out[p] \in Seq(Messages \cup {Stop})
  <2>1. s.out \in [Watchdogs -> Seq(Messages)]
    BY DEF Outcomes
  <2>2. QED
    BY <2>1 DEF TypeOK
<1>2. \A p \in Watchdogs : sendq[w][p] \o s.out[p] \in Seq(Messages \cup {Stop})
  BY <1>1, ConcatAt
<1>3. g \in Q /\ \A p \in Watchdogs : g[p] = sendq[w][p] \o s.out[p]
  BY <1>2
<1>4. sendq' = [sendq EXCEPT ![w] = g]
  BY DEF Take
<1>5. sendq \in [Watchdogs -> Q]
  BY DEF TypeOK
<1> HIDE DEF g, Q
<1>6. sendq' \in [Watchdogs -> Q] /\ sendq'[w] = g
      /\ \A v \in Watchdogs \ {w} : sendq'[v] = sendq[v]
  BY <1>3, <1>4, <1>5
<1>7. QED
  BY <1>3, <1>6 DEF Q

\* The variables after a step of the main loop, one by one.
LEMMA Moved ==
  ASSUME TypeOK, NEW w \in Watchdogs, NEW s, Moves(w, s)
  PROVE  /\ TypeOK' /\ mishap' = s.mishap /\ session' = session /\ sender' = sender
         /\ role'[w] = s.role /\ leader'[w] = s.leader /\ phase'[w] = s.phase
         /\ monitor'[w] = s.monitor /\ responds'[w] = s.responds /\ alive'[w] = "running"
         /\ \A p \in Watchdogs : sendq'[w][p] = sendq[w][p] \o s.out[p]
         /\ \A v \in Watchdogs \ {w} :
              /\ role'[v] = role[v] /\ leader'[v] = leader[v] /\ phase'[v] = phase[v]
              /\ monitor'[v] = monitor[v] /\ responds'[v] = responds[v]
              /\ alive'[v] = alive[v] /\ sendq'[v] = sendq[v] /\ events'[v] = events[v]
<1> USE DEF TypeOK, Moves, Take, lvars
<1>1. /\ sendq' \in [Watchdogs -> [Watchdogs -> Seq(Messages \cup {Stop})]]
      /\ \A p \in Watchdogs : sendq'[w][p] = sendq[w][p] \o s.out[p]
      /\ \A v \in Watchdogs \ {w} : sendq'[v] = sendq[v]
  BY TakeQueues
<1>2. /\ s.role \in {"FOLLOWER", "LEADER"} /\ s.leader \in {NoLeader} \cup Watchdogs
      /\ s.phase \in {"IDLE", "AWAITING_ANSWER", "AWAITING_COORDINATOR"}
      /\ s.monitor \in {"off", "on", "stopping"} /\ s.responds \in BOOLEAN
      /\ s.mishap \in BOOLEAN
  BY DEF Outcomes
<1>3. /\ events' \in [Watchdogs -> Seq(Events)]
      /\ \A v \in Watchdogs \ {w} : events'[v] = events[v]
  <2>1. CASE events' = events
    BY <2>1
  <2>2. CASE events[w] # <<>> /\ events' = [events EXCEPT ![w] = Tail(events[w])]
    <3>1. Tail(events[w]) \in Seq(Events)
      BY <2>2, TailAt
    <3>2. QED
      BY <2>2, <3>1
  <2>3. QED
    BY <2>1, <2>2
<1>4. /\ role'[w] = s.role /\ leader'[w] = s.leader /\ phase'[w] = s.phase
      /\ monitor'[w] = s.monitor /\ responds'[w] = s.responds /\ alive'[w] = "running"
      /\ mishap' = s.mishap /\ session' = session /\ sender' = sender
      /\ \A v \in Watchdogs \ {w} :
              /\ role'[v] = role[v] /\ leader'[v] = leader[v] /\ phase'[v] = phase[v]
              /\ monitor'[v] = monitor[v] /\ responds'[v] = responds[v]
              /\ alive'[v] = alive[v]
  OBVIOUS
<1>5. TypeOK'
  <2>1. /\ role' \in [Watchdogs -> {"FOLLOWER", "LEADER"}]
        /\ leader' \in [Watchdogs -> {NoLeader} \cup Watchdogs]
        /\ phase' \in [Watchdogs -> {"IDLE", "AWAITING_ANSWER", "AWAITING_COORDINATOR"}]
        /\ monitor' \in [Watchdogs -> {"off", "on", "stopping"}]
        /\ responds' \in [Watchdogs -> BOOLEAN]
        /\ alive' \in [Watchdogs -> {"booting", "running", "dead"}]
    BY <1>2
  <2>2. mishap' \in BOOLEAN /\ troubles' \in 0 .. MaxTroubles
    BY <1>2
  <2>3. /\ session' \in [Watchdogs -> [Watchdogs -> {"none", "open", "ending"}]]
        /\ sender' \in [Watchdogs -> [Watchdogs -> BOOLEAN]]
        /\ \A v, p \in Watchdogs : sender'[v][p] => session'[v][p] # "none"
    BY <1>4
  <2>4. QED
    BY <1>1, <1>3, <2>1, <2>2, <2>3
<1>6. QED
  BY <1>1, <1>3, <1>4, <1>5

-----------------------------------------------------------------------------
(* What a step of the main loop preserves *)

LEMMA StandingOf ==
  ASSUME NEW v
  PROVE  Standing(v, State(v)) <=>
           /\ leader[v] = v => role[v] = "LEADER" /\ phase[v] = "IDLE" /\ monitor[v] = "on"
           /\ leader[v] \notin {NoLeader, v} =>
                /\ leader[v] > v /\ role[v] = "FOLLOWER" /\ phase[v] = "IDLE"
                /\ monitor[v] # "on" /\ responds[v]
           /\ phase[v] = "IDLE" => leader[v] # NoLeader
  BY DEF Standing, State

LEMMA MovedElsewhere ==
  ASSUME TypeOK, NEW w \in Watchdogs, NEW s, Moves(w, s)
  PROVE  /\ session' = session
         /\ \A p \in Watchdogs : sendq'[w][p] = sendq[w][p] \o s.out[p]
         /\ \A v \in Watchdogs \ {w} : sendq'[v] = sendq[v] /\ events'[v] = events[v]
<1>1. s \in Outcomes /\ Take(w, s) /\ session' = session
      /\ (events' = events \/ events' = [events EXCEPT ![w] = Tail(events[w])])
  BY DEF Moves, lvars
<1>2. /\ \A p \in Watchdogs : sendq'[w][p] = sendq[w][p] \o s.out[p]
      /\ \A v \in Watchdogs \ {w} : sendq'[v] = sendq[v]
  BY <1>1, TakeQueues
<1>3. events \in [Watchdogs -> Seq(Events)]
  BY DEF TypeOK
<1>4. \A v \in Watchdogs \ {w} : events'[v] = events[v]
  BY <1>1, <1>3
<1>5. QED
  BY <1>1, <1>2, <1>4

\* Only what s queues is new, and it stops no sender.
LEMMA MovedQueue ==
  ASSUME TypeOK, NEW w \in Watchdogs, NEW s, Moves(w, s), NEW p \in Watchdogs
  PROVE  /\ \A i \in DOMAIN sendq[w][p] :
              i \in DOMAIN sendq'[w][p] /\ sendq'[w][p][i] = sendq[w][p][i]
         /\ \A i \in DOMAIN sendq'[w][p] : sendq'[w][p][i] = Stop =>
              i \in DOMAIN sendq[w][p] /\ sendq[w][p][i] = Stop
         /\ \A j \in DOMAIN s.out[p] : \E i \in DOMAIN sendq'[w][p] :
              /\ sendq'[w][p][i] = s.out[p][j] /\ i \in Nat
              /\ \A k \in DOMAIN sendq[w][p] : k < i
<1>1. sendq'[w][p] = sendq[w][p] \o s.out[p]
  BY MovedElsewhere
<1>2. sendq[w][p] \in Seq(Messages \cup {Stop})
  BY DEF TypeOK
<1>3. s.out[p] \in Seq(Messages)
  BY DEF Moves, Outcomes
<1>4. s.out[p] \in Seq(Messages \cup {Stop}) /\ \A j \in DOMAIN s.out[p] : s.out[p][j] # Stop
  BY <1>3 DEF Messages, Stop
<1> DEFINE a == sendq[w][p]
           b == s.out[p]
<1>5. /\ \A i \in DOMAIN a : i \in DOMAIN (a \o b) /\ (a \o b)[i] = a[i] /\ i \in Nat /\ i <= Len(a)
      /\ \A i \in DOMAIN b : Len(a) + i \in DOMAIN (a \o b) /\ (a \o b)[Len(a) + i] = b[i]
                             /\ Len(a) + i \in Nat /\ Len(a) + i > Len(a)
      /\ \A i \in DOMAIN (a \o b) : i \in DOMAIN a \/ \E j \in DOMAIN b : i = Len(a) + j
      /\ Len(a) \in Nat
  <2>1. a \in Seq(Messages \cup {Stop}) /\ b \in Seq(Messages \cup {Stop})
    BY <1>2, <1>4
  <2> HIDE DEF a, b
  <2>2. Len(a) \in Nat
    BY <2>1
  <2>3. QED
    BY <2>1, <2>2, ConcatAt
<1> HIDE DEF a, b
<1>6. \A i \in DOMAIN (a \o b) : (a \o b)[i] = Stop => i \in DOMAIN a /\ a[i] = Stop
  BY <1>4, <1>5 DEF b
<1>7. ASSUME NEW j \in DOMAIN b
      PROVE  \E i \in DOMAIN (a \o b) :
               (a \o b)[i] = b[j] /\ i \in Nat /\ \A k \in DOMAIN a : k < i
  <2>1. Len(a) + j \in DOMAIN (a \o b) /\ (a \o b)[Len(a) + j] = b[j] /\ Len(a) + j \in Nat
    BY <1>5
  <2>2. \A k \in DOMAIN a : k < Len(a) + j
    BY <1>5
  <2>3. QED
    BY <2>1, <2>2
<1>8. QED
  BY <1>1, <1>5, <1>6, <1>7 DEF a, b

LEMMA MovedStanding ==
  ASSUME Inductive, Sound, NEW w \in Watchdogs, NEW s, Moves(w, s), ~mishap',
         NEW v \in Watchdogs, Live(v)'
  PROVE  Standing(v, State(v))'
<1>1. TypeOK
  BY DEF Inductive
<1>2. CASE v = w
  <2>1. Standing(w, s)
    BY <1>1, Moved DEF Moves
  <2>2. role'[w] = s.role /\ leader'[w] = s.leader /\ phase'[w] = s.phase
        /\ monitor'[w] = s.monitor /\ responds'[w] = s.responds
    BY <1>1, Moved
  <2>3. QED
    BY <1>2, <2>1, <2>2 DEF Standing, State
<1>3. CASE v # w
  <2>1. role'[v] = role[v] /\ leader'[v] = leader[v] /\ phase'[v] = phase[v]
        /\ monitor'[v] = monitor[v] /\ responds'[v] = responds[v] /\ alive'[v] = alive[v]
    BY <1>1, <1>3, Moved
  <2>2. Standing(v, State(v))
    BY <2>1 DEF Sound, Live
  <2>3. QED
    BY <2>1, <2>2 DEF Standing, State
<1>4. QED
  BY <1>2, <1>3

LEMMA MovedFollows ==
  ASSUME Inductive, Sound, NEW w \in Watchdogs, NEW s, Moves(w, s), ~mishap',
         NEW v \in Watchdogs
  PROVE  Follows(v)'
<1>1. TypeOK /\ Follows(v) /\ session' = session /\ ~mishap
      /\ leader'[w] = s.leader /\ (v # w => leader'[v] = leader[v] /\ events'[v] = events[v])
  <2>1. TypeOK /\ Follows(v)
    BY DEF Inductive, Sound
  <2>2. QED
    BY <2>1, Moved DEF Moves
<1>2. CASE events'[v] = events[v] /\ (leader'[v] = leader[v] \/ leader'[v] \in {NoLeader, v})
  BY <1>1, <1>2 DEF Follows, Learns, Noticed
<1>3. CASE /\ v = w /\ events[w] # <<>> /\ events'[w] = Tail(events[w])
           /\ Adopts(w, Head(events[w]), s)
  <2> DEFINE q == events[w]
             r == Tail(events[w])
  <2>1. q \in Seq(Events)
    BY <1>1 DEF TypeOK
  <2>2. /\ Head(q) = q[1] /\ 1 \in DOMAIN q
        /\ \A i \in DOMAIN r : i + 1 \in DOMAIN q /\ r[i] = q[i + 1] /\ i \in Nat
        /\ \A i \in DOMAIN q : i # 1 => i - 1 \in DOMAIN r /\ r[i - 1] = q[i]
                                        /\ i \in Nat /\ i > 1
    BY <1>3, <2>1, TailAt
  <2>3. /\ leader[w] \notin {NoLeader, w} =>
             session[w][leader[w]] = "open" \/ Noticed(q, leader[w], 0)
        /\ \A i \in DOMAIN q :
             /\ q[i].peer # w
             /\ q[i].type = "COORDINATOR" =>
                  session[w][q[i].peer] = "open" \/ Noticed(q, q[i].peer, i)
    BY <1>1, <1>3 DEF Follows, Learns
  <2> HIDE DEF q, r
  <2>4. ASSUME NEW p, NEW n \in Nat, Noticed(q, p, n + 1) PROVE Noticed(r, p, n)
    <3>1. PICK j \in DOMAIN q : j > n + 1 /\ q[j] = [type |-> "DISCONNECT", peer |-> p]
      BY <2>4 DEF Noticed
    <3>2. j # 1
      BY <3>1
    <3>3. j - 1 \in DOMAIN r /\ r[j - 1] = q[j] /\ j \in Nat
      BY <2>2, <3>2
    <3>4. j - 1 > n
      BY <3>1, <3>3
    <3>5. QED
      BY <3>1, <3>3, <3>4 DEF Noticed
  <2>5. ASSUME s.leader \notin {NoLeader, w}
        PROVE  session[w][s.leader] = "open" \/ Noticed(r, s.leader, 0)
    <3>1. CASE leader[w] = s.leader
               /\ q[1] # [type |-> "DISCONNECT", peer |-> s.leader]
      <4>1. Noticed(q, s.leader, 0) => Noticed(q, s.leader, 0 + 1)
        BY <2>2, <3>1 DEF Noticed
      <4>2. QED
        BY <2>3, <2>4, <2>5, <3>1, <4>1
    <3>2. CASE q[1] = [type |-> "COORDINATOR", peer |-> s.leader]
      <4>1. q[1].type = "COORDINATOR" /\ q[1].peer = s.leader
        BY <3>2
      <4>2. session[w][s.leader] = "open" \/ Noticed(q, s.leader, 0 + 1)
        BY <2>2, <2>3, <4>1
      <4>3. QED
        BY <2>4, <4>2
    <3>3. QED
      BY <1>3, <2>2, <2>5, <3>1, <3>2 DEF Adopts, q
  <2>6. ASSUME NEW i \in DOMAIN r
        PROVE  /\ r[i].type = "COORDINATOR" =>
                    session[w][r[i].peer] = "open" \/ Noticed(r, r[i].peer, i)
               /\ r[i].peer # w
    <3>1. i + 1 \in DOMAIN q /\ r[i] = q[i + 1] /\ i \in Nat
      BY <2>2
    <3>2. QED
      BY <2>3, <2>4, <3>1
  <2>7. v = w /\ events'[w] = r /\ session' = session /\ leader'[w] = s.leader
    BY <1>1, <1>3 DEF r
  <2>8. QED
    BY <2>5, <2>6, <2>7 DEF Follows, Learns
<1>4. QED
  <2>1. \/ events' = events /\ (s.leader = NoLeader \/ s.leader = w)
        \/ /\ events[w] # <<>> /\ events' = [events EXCEPT ![w] = Tail(events[w])]
           /\ Adopts(w, Head(events[w]), s)
    BY <1>1 DEF Moves
  <2>2. events \in [Watchdogs -> Seq(Events)]
    BY <1>1 DEF TypeOK
  <2>3. QED
    BY <1>1, <1>2, <1>3, <2>1, <2>2

LEMMA MovedLinked ==
  ASSUME Inductive, Sound, NEW w \in Watchdogs, NEW s, Moves(w, s),
         NEW v \in Watchdogs, NEW p \in Watchdogs
  PROVE  Linked(v, p)'
<1>1. TypeOK /\ Linked(v, p) /\ session' = session /\ sender' = sender
      /\ (v # w => sendq'[v] = sendq[v])
  <2>1. TypeOK /\ Linked(v, p)
    BY DEF Inductive, Sound
  <2>2. QED
    BY <2>1, Moved
<1>2. CASE v # w
  BY <1>1, <1>2 DEF Linked
<1>3. CASE v = w
  <2>1. \A i \in DOMAIN sendq'[w][p] : sendq'[w][p][i] = Stop =>
              i \in DOMAIN sendq[w][p] /\ sendq[w][p][i] = Stop
    BY <1>1, MovedQueue
  <2>2. \A i \in DOMAIN sendq[w][p] :
              i \in DOMAIN sendq'[w][p] /\ sendq'[w][p][i] = sendq[w][p][i]
    BY <1>1, MovedQueue
  <2>3. QED
    BY <1>1, <1>3, <2>1, <2>2 DEF Linked
<1>4. QED
  BY <1>2, <1>3

\* Where the queues of a pair may still hold an announcement.
Awaits(w, p) ==
  \E i \in DOMAIN sendq[w][p] :
     /\ sendq[w][p][i] = "COORDINATOR" /\ ~Left(w, p)
     /\ session[w][p] = "ending" => \E j \in DOMAIN sendq[w][p] :
                                      j < i /\ sendq[w][p][j] = Stop

Heard(w, p) ==
  \E i \in DOMAIN events[p] : events[p][i] = [type |-> "COORDINATOR", peer |-> w]

LEMMA AnnouncedIs == \A w, p : Announced(w, p) <=> Awaits(w, p) \/ Heard(w, p)
  BY DEF Announced, Awaits, Heard

LEMMA MovedAnnounced ==
  ASSUME Inductive, Sound, NEW w \in Watchdogs, NEW s, Moves(w, s), ~mishap',
         NEW v \in Watchdogs, NEW p \in Watchdogs, v # p, Announced(v, p),
         p = w => \/ events' = events
                  \/ /\ events[w] # <<>> /\ events' = [events EXCEPT ![w] = Tail(events[w])]
                     /\ Head(events[w]).type # "COORDINATOR"
  PROVE  Announced(v, p)'
<1>1. TypeOK /\ session' = session
      /\ (v # w => sendq'[v] = sendq[v]) /\ (p # w => events'[p] = events[p])
  <2>1. TypeOK
    BY DEF Inductive
  <2>2. QED
    BY <2>1, MovedElsewhere
<1>2. ASSUME Awaits(v, p) PROVE Awaits(v, p)'
  <2>1. \A i \in DOMAIN sendq[v][p] :
              i \in DOMAIN sendq'[v][p] /\ sendq'[v][p][i] = sendq[v][p][i]
    BY <1>1, MovedQueue
  <2>2. PICK i \in DOMAIN sendq[v][p] :
          /\ sendq[v][p][i] = "COORDINATOR" /\ ~Left(v, p)
          /\ session[v][p] = "ending" => \E j \in DOMAIN sendq[v][p] :
                                           j < i /\ sendq[v][p][j] = Stop
    BY <1>2 DEF Awaits
  <2>3. ~Left(v, p)'
    BY <1>1, <2>2 DEF Left
  <2>4. session'[v][p] = "ending" => \E j \in DOMAIN sendq'[v][p] :
                                           j < i /\ sendq'[v][p][j] = Stop
    BY <1>1, <2>1, <2>2
  <2>5. i \in DOMAIN sendq'[v][p] /\ sendq'[v][p][i] = "COORDINATOR"
    BY <2>1, <2>2
  <2>6. QED
    BY <2>3, <2>4, <2>5 DEF Awaits
<1>3. ASSUME Heard(v, p) PROVE Heard(v, p)'
  <2>1. CASE events'[p] = events[p]
    BY <1>3, <2>1 DEF Heard
  <2>2. CASE /\ p = w /\ events[w] # <<>> /\ events' = [events EXCEPT ![w] = Tail(events[w])]
             /\ Head(events[w]).type # "COORDINATOR"
    <3>1. events[w] \in Seq(Events) /\ events'[w] = Tail(events[w])
      BY <1>1, <2>2 DEF TypeOK
    <3>2. PICK i \in DOMAIN events[w] : events[w][i] = [type |-> "COORDINATOR", peer |-> v]
      BY <1>3, <2>2 DEF Heard
    <3>3. i # 1
      BY <2>2, <3>1, <3>2, TailAt
    <3>4. i - 1 \in DOMAIN events'[w] /\ events'[w][i - 1] = events[w][i]
      <4>1. \A k \in DOMAIN events[w] : k # 1 =>
              k - 1 \in DOMAIN Tail(events[w]) /\ Tail(events[w])[k - 1] = events[w][k]
        BY <2>2, <3>1, TailAt
      <4>2. QED
        BY <3>1, <3>2, <3>3, <4>1
    <3>5. QED
      BY <2>2, <3>2, <3>4 DEF Heard
  <2>3. QED
    BY <1>1, <2>1, <2>2
<1>4. QED
  <2>1. Awaits(v, p) \/ Heard(v, p)
    BY AnnouncedIs
  <2>2. Awaits(v, p)' \/ Heard(v, p)'
    BY <1>2, <1>3, <2>1
  <2>3. QED
    BY <2>2 DEF Announced, Awaits, Heard

\* Who announces itself to a peer that leads too either is heard, or has been
\* left by a peer that has announced itself since.
LEMMA MovedAnnounces ==
  ASSUME Inductive, Sound, NEW w \in Watchdogs, NEW s, Moves(w, s), ~mishap',
         Announces(w, s), NEW p \in Peers(w)
  PROVE  /\ Queued(w, p)'
         /\ leader[p] = p => Announced(w, p)' \/ Announced(p, w)'
<1>1. /\ TypeOK /\ session' = session /\ sendq'[p] = sendq[p] /\ p \in Watchdogs /\ p # w
      /\ Linked(w, p) /\ Linked(p, w) /\ Settling(p, w)
  <2>1. TypeOK /\ p \in Watchdogs /\ p # w
    BY DEF Inductive, Peers
  <2>2. session' = session /\ sendq'[p] = sendq[p]
    BY <2>1, MovedElsewhere
  <2>3. Linked(w, p) /\ Linked(p, w) /\ Settling(p, w)
    BY <2>1 DEF Sound
  <2>4. QED
    BY <2>1, <2>2, <2>3
<1>2. PICK j \in DOMAIN s.out[p] : s.out[p][j] = "COORDINATOR"
  BY DEF Announces
<1>3. PICK i \in DOMAIN sendq'[w][p] :
              /\ sendq'[w][p][i] = "COORDINATOR"
              /\ \A k \in DOMAIN sendq[w][p] : k < i
  BY <1>1, <1>2, MovedQueue
<1>4. \A k \in DOMAIN sendq[w][p] : k \in DOMAIN sendq'[w][p]
                                    /\ sendq'[w][p][k] = sendq[w][p][k]
  BY <1>1, MovedQueue
<1>5. Queued(w, p)'
  BY <1>3 DEF Queued
<1>6. CASE ~Left(w, p)
  <2>1. session'[w][p] = "ending" => \E k \in DOMAIN sendq'[w][p] :
                                           k < i /\ sendq'[w][p][k] = Stop
    BY <1>1, <1>3, <1>4 DEF Linked
  <2>2. ~Left(w, p)'
    BY <1>1, <1>6 DEF Left
  <2>3. Awaits(w, p)'
    BY <1>3, <2>1, <2>2 DEF Awaits
  <2>4. QED
    BY <1>5, <2>3 DEF Announced, Awaits
<1>7. CASE Left(w, p) /\ leader[p] = p
  <2>1. Queued(p, w)
    BY <1>1, <1>7 DEF Settling
  <2>2. PICK k \in DOMAIN sendq'[p][w] : sendq'[p][w][k] = "COORDINATOR"
    BY <1>1, <2>1 DEF Queued
  <2>3. session'[p][w] # "open" /\ session'[p][w] # "ending"
    BY <1>1, <1>7 DEF Left, Linked
  <2>4. ~Left(p, w)'
    BY <2>3 DEF Left
  <2>5. Awaits(p, w)'
    BY <2>2, <2>3, <2>4 DEF Awaits
  <2>6. QED
    BY <1>5, <2>5 DEF Announced, Awaits
<1>8. QED
  BY <1>5, <1>6, <1>7

LEMMA MovedSettling ==
  ASSUME Inductive, Sound, NEW w \in Watchdogs, NEW s, Moves(w, s), ~mishap',
         NEW v \in Watchdogs, NEW p \in Watchdogs, v # p
  PROVE  Settling(v, p)'
<1>1. /\ TypeOK /\ session' = session /\ leader'[w] = s.leader
      /\ \A x \in Watchdogs \ {w} : leader'[x] = leader[x] /\ sendq'[x] = sendq[x]
      /\ ~mishap
  <2>1. TypeOK
    BY DEF Inductive
  <2>2. QED
    BY <2>1, Moved DEF Moves
<1>2. \/ s.leader # w
      \/ Announces(w, s)
      \/ /\ leader[w] = w
         /\ \/ events' = events
            \/ /\ events[w] # <<>> /\ events' = [events EXCEPT ![w] = Tail(events[w])]
               /\ Head(events[w]).type # "COORDINATOR"
  BY <1>1, NoLeaderIsNone DEF Moves, Adopts
<1>3. ASSUME leader'[v] = v, Left(p, v)' PROVE Queued(v, p)'
  <2>1. Left(p, v)
    BY <1>1, <1>3 DEF Left
  <2>2. CASE v = w /\ Announces(w, s)
    <3>1. p \in Peers(w)
      BY <2>2 DEF Peers
    <3>2. QED
      BY <2>2, <3>1, MovedAnnounces
  <2>3. CASE leader[v] = v
    <3>1. Queued(v, p)
      BY <2>1, <2>3 DEF Sound, Settling
    <3>2. \A k \in DOMAIN sendq[v][p] : k \in DOMAIN sendq'[v][p]
                                        /\ sendq'[v][p][k] = sendq[v][p][k]
      BY <1>1, MovedQueue
    <3>3. QED
      BY <3>1, <3>2 DEF Queued
  <2>4. QED
    BY <1>1, <1>2, <1>3, <2>2, <2>3
<1>4. ASSUME NEW x \in Peers(w), leader'[w] = w, leader'[x] = x
      PROVE  Announced(w, x)' \/ Announced(x, w)'
  <2>1. x \in Watchdogs /\ x # w /\ leader[x] = x
    BY <1>1, <1>4 DEF Peers
  <2>2. CASE Announces(w, s)
    BY <2>1, <2>2, MovedAnnounces
  <2>3. CASE /\ leader[w] = w
             /\ \/ events' = events
                \/ /\ events[w] # <<>> /\ events' = [events EXCEPT ![w] = Tail(events[w])]
                   /\ Head(events[w]).type # "COORDINATOR"
    <3>1. Announced(w, x) \/ Announced(x, w)
      BY <2>1, <2>3 DEF Sound, Settling
    <3>2. QED
      BY <2>1, <2>3, <3>1, MovedAnnounced
  <2>4. QED
    BY <1>1, <1>2, <1>4, <2>2, <2>3
<1>5. ASSUME leader'[v] = v, leader'[p] = p PROVE Announced(v, p)' \/ Announced(p, v)'
  <2>1. CASE v = w
    BY <1>4, <1>5, <2>1 DEF Peers
  <2>2. CASE p = w
    BY <1>4, <1>5, <2>2 DEF Peers
  <2>3. CASE v # w /\ p # w
    <3>1. Announced(v, p) \/ Announced(p, v)
      BY <1>1, <1>5, <2>3 DEF Sound, Settling
    <3>2. QED
      BY <2>3, <3>1, MovedAnnounced
  <2>4. QED
    BY <2>1, <2>2, <2>3
<1>6. QED
  BY <1>3, <1>5 DEF Settling

LEMMA MainLoopInductive ==
  ASSUME Inductive, NEW w \in Watchdogs, MainLoop(w)
  PROVE  Inductive'
<1>1. PICK s : Moves(w, s)
  BY MainLoopMoves
<1>2. TypeOK
  BY DEF Inductive
<1>3. TypeOK'
  BY <1>1, <1>2, Moved
<1>4. SomebodyRuns'
  <2>1. alive'[w] = "running"
    BY <1>1, <1>2, Moved
  <2>2. QED
    BY <2>1 DEF SomebodyRuns
<1>5. ASSUME NEW v \in Watchdogs, ~Live(v)' PROVE Blank(v)'
  <2>1. v # w
    BY <1>1, <1>2, <1>5, Moved DEF Live
  <2>2. /\ role'[v] = role[v] /\ leader'[v] = leader[v] /\ phase'[v] = phase[v]
        /\ monitor'[v] = monitor[v] /\ responds'[v] = responds[v]
        /\ alive'[v] = alive[v] /\ sendq'[v] = sendq[v] /\ events'[v] = events[v]
        /\ session' = session
    BY <1>1, <1>2, <2>1, Moved
  <2>3. Blank(v)
    BY <1>5, <2>2 DEF Live, Inductive
  <2>4. QED
    BY <2>2, <2>3 DEF Blank
<1>6. ASSUME ~mishap' PROVE Sound'
  <2>1. Sound
    BY <1>1, <1>2, <1>6, Moved DEF Inductive, Moves
  <2>2. \A v \in Watchdogs : (Live(v)' => Standing(v, State(v))') /\ Follows(v)'
    BY <1>1, <1>6, <2>1, MovedStanding, MovedFollows
  <2>3. \A v, p \in Watchdogs : Linked(v, p)' /\ (v # p => Settling(v, p)')
    BY <1>1, <1>6, <2>1, MovedLinked, MovedSettling
  <2>4. QED
    BY <2>2, <2>3 DEF Sound
<1>7. QED
  BY <1>3, <1>4, <1>5, <1>6 DEF Inductive

-----------------------------------------------------------------------------
(* The connections *)

\* The main loops do not take part.
Apart == UNCHANGED <<alive, nvars, troubles>>

\* A queue from which nothing is taken keeps what is in it.
Keeps(p) ==
  \A i \in DOMAIN events[p] : i \in DOMAIN events'[p] /\ events'[p][i] = events[p][i]

LEMMA ApartStanding ==
  ASSUME Sound, Apart, NEW v \in Watchdogs, Live(v)'
  PROVE  Standing(v, State(v))'
<1>1. Standing(v, State(v))
  BY DEF Sound, Apart, Live
<1>2. QED
  BY <1>1 DEF Apart, nvars, Standing, State

LEMMA AnnouncedStays ==
  ASSUME NEW v, NEW p, Keeps(p), Announced(v, p),
         sendq'[v][p] = sendq[v][p], session'[v][p] = session[v][p],
         Left(v, p)' => Left(v, p)
  PROVE  Announced(v, p)'
<1>1. CASE Awaits(v, p)
  <2>1. Awaits(v, p)'
    BY <1>1 DEF Awaits
  <2>2. QED
    BY <2>1 DEF Announced, Awaits
<1>2. CASE Heard(v, p)
  <2>1. Heard(v, p)'
    BY <1>2 DEF Heard, Keeps
  <2>2. QED
    BY <2>1 DEF Announced, Heard
<1>3. QED
  BY <1>1, <1>2, AnnouncedIs

\* Connect, field by field.
LEMMA Connected ==
  ASSUME TypeOK, NEW lo \in Watchdogs, NEW hi \in Watchdogs, Connect(lo, hi)
  PROVE  /\ TypeOK' /\ Apart /\ mishap' = mishap /\ events' = events /\ sendq' = sendq
         /\ lo # hi /\ Live(lo) /\ Live(hi)
         /\ session[lo][hi] = "none" /\ session[hi][lo] = "none"
         /\ \A a, b \in Watchdogs :
              IF <<a, b>> \in {<<lo, hi>>, <<hi, lo>>}
              THEN session'[a][b] = "open" /\ sender'[a][b]
              ELSE session'[a][b] = session[a][b] /\ sender'[a][b] = sender[a][b]
<1>1. /\ session \in [Watchdogs -> [Watchdogs -> {"none", "open", "ending"}]]
      /\ sender \in [Watchdogs -> [Watchdogs -> BOOLEAN]]
      /\ \A a, b \in Watchdogs : sender[a][b] => session[a][b] # "none"
  BY DEF TypeOK
<1>2. /\ Apart /\ mishap' = mishap /\ events' = events /\ sendq' = sendq
      /\ lo # hi /\ Live(lo) /\ Live(hi)
      /\ session[lo][hi] = "none" /\ session[hi][lo] = "none"
      /\ session' = Bend(Bend(session, lo, hi, "open"), hi, lo, "open")
      /\ sender' = Bend(Bend(sender, lo, hi, TRUE), hi, lo, TRUE)
  BY ParametersAssumption DEF Connect, Apart, Watchdogs
<1>3. /\ session' \in [Watchdogs -> [Watchdogs -> {"none", "open", "ending"}]]
      /\ \A a, b \in Watchdogs :
           session'[a][b] = IF (a = lo /\ b = hi) \/ (a = hi /\ b = lo) THEN "open"
                                                                     ELSE session[a][b]
  BY <1>1, <1>2 DEF Bend
<1>4. /\ sender' \in [Watchdogs -> [Watchdogs -> BOOLEAN]]
      /\ \A a, b \in Watchdogs :
           sender'[a][b] = IF (a = lo /\ b = hi) \/ (a = hi /\ b = lo) THEN TRUE
                                                                    ELSE sender[a][b]
  BY <1>1, <1>2 DEF Bend
<1>7. \A a, b \in Watchdogs :
              IF <<a, b>> \in {<<lo, hi>>, <<hi, lo>>}
              THEN session'[a][b] = "open" /\ sender'[a][b]
              ELSE session'[a][b] = session[a][b] /\ sender'[a][b] = sender[a][b]
  BY <1>3, <1>4
<1>8. \A a, b \in Watchdogs : sender'[a][b] => session'[a][b] # "none"
  BY <1>1, <1>7
<1>9. TypeOK'
  BY <1>2, <1>3, <1>4, <1>8 DEF TypeOK, Apart, nvars
<1>10. QED
  BY <1>2, <1>7, <1>9

LEMMA ConnectInductive ==
  ASSUME Inductive, NEW lo \in Watchdogs, NEW hi \in Watchdogs, Connect(lo, hi)
  PROVE  Inductive'
<1>1. /\ TypeOK' /\ Apart /\ mishap' = mishap /\ events' = events /\ sendq' = sendq
      /\ lo # hi /\ Live(lo) /\ Live(hi)
      /\ session[lo][hi] = "none" /\ session[hi][lo] = "none"
      /\ \A a, b \in Watchdogs :
              IF <<a, b>> \in {<<lo, hi>>, <<hi, lo>>}
              THEN session'[a][b] = "open" /\ sender'[a][b]
              ELSE session'[a][b] = session[a][b] /\ sender'[a][b] = sender[a][b]
  BY Connected DEF Inductive
<1>2. SomebodyRuns'
  BY <1>1 DEF Inductive, SomebodyRuns, Apart
<1>3. ASSUME NEW v \in Watchdogs, ~Live(v)' PROVE Blank(v)'
  <2>1. ~Live(v) /\ v # lo /\ v # hi
    BY <1>1, <1>3 DEF Apart, Live
  <2>2. Blank(v)
    BY <2>1 DEF Inductive
  <2>3. \A p \in Watchdogs : session'[v][p] = session[v][p]
    BY <1>1, <2>1
  <2>4. QED
    BY <1>1, <2>2, <2>3 DEF Blank, Apart, nvars
<1>4. ASSUME ~mishap' PROVE Sound'
  <2>1. Sound
    BY <1>1, <1>4 DEF Inductive
  <2>2. \A v \in Watchdogs : Live(v)' => Standing(v, State(v))'
    BY <1>1, <2>1, ApartStanding
  <2>3. ASSUME NEW v \in Watchdogs PROVE Follows(v)'
    <3>1. Follows(v)
      BY <2>1 DEF Sound
    <3>2. \A p \in Watchdogs : session[v][p] = "open" => session'[v][p] = "open"
      BY <1>1
    <3>3. leader \in [Watchdogs -> {NoLeader} \cup Watchdogs] /\ events[v] \in Seq(Events)
      BY DEF Inductive, TypeOK
    <3>4. \A i \in DOMAIN events[v] : events[v][i].peer \in Watchdogs
      <4>1. \A i \in DOMAIN events[v] : events[v][i] \in Events
        BY <3>3
      <4>2. QED
        BY <4>1 DEF Events
    <3>5. leader' = leader /\ events' = events
      BY <1>1 DEF Apart, nvars
    <3>6. QED
      BY <3>1, <3>2, <3>3, <3>4, <3>5 DEF Follows, Learns
  <2>4. ASSUME NEW v \in Watchdogs, NEW p \in Watchdogs PROVE Linked(v, p)'
    <3>1. Linked(v, p) /\ Linked(p, v)
      BY <2>1 DEF Sound
    <3>2. QED
      BY <1>1, <3>1 DEF Linked
  <2>5. ASSUME NEW v \in Watchdogs, NEW p \in Watchdogs, Announced(v, p)
        PROVE  Announced(v, p)'
    <3>1. Keeps(p)
      BY <1>1 DEF Keeps
    <3>2. CASE <<v, p>> \in {<<lo, hi>>, <<hi, lo>>}
      <4>1. session'[v][p] = "open" /\ session'[p][v] = "open"
        BY <1>1, <3>2
      <4>2. ~Left(v, p)'
        BY <4>1 DEF Left
      <4>3. Awaits(v, p) => Awaits(v, p)'
        BY <1>1, <4>1, <4>2 DEF Awaits
      <4>4. Heard(v, p) => Heard(v, p)'
        BY <1>1 DEF Heard
      <4>5. Awaits(v, p)' \/ Heard(v, p)'
        BY <2>5, <4>3, <4>4, AnnouncedIs
      <4>6. QED
        BY <4>5 DEF Announced, Awaits, Heard
    <3>3. CASE <<v, p>> \notin {<<lo, hi>>, <<hi, lo>>}
      <4>1. session'[v][p] = session[v][p] /\ session'[p][v] = session[p][v]
        BY <1>1, <3>3
      <4>2. QED
        BY <1>1, <2>5, <3>1, <4>1, AnnouncedStays DEF Left
    <3>4. QED
      BY <3>2, <3>3
  <2>6. ASSUME NEW v \in Watchdogs, NEW p \in Watchdogs, v # p PROVE Settling(v, p)'
    <3>1. Settling(v, p)
      BY <2>1, <2>6 DEF Sound
    <3>2. Left(p, v)' => Left(p, v)
      BY <1>1 DEF Left
    <3>3. leader' = leader /\ sendq' = sendq
      BY <1>1 DEF Apart, nvars
    <3>4. leader'[v] = v /\ leader'[p] = p => Announced(v, p)' \/ Announced(p, v)'
      BY <2>5, <3>1, <3>3 DEF Settling
    <3>5. leader'[v] = v /\ Left(p, v)' => Queued(v, p)'
      BY <3>1, <3>2, <3>3 DEF Settling, Queued
    <3>6. QED
      BY <3>4, <3>5 DEF Settling
  <2>7. QED
    BY <2>2, <2>3, <2>4, <2>6 DEF Sound
<1>5. QED
  BY <1>1, <1>2, <1>3, <1>4 DEF Inductive

\* SenderStep, field by field.
LEMMA Written ==
  ASSUME TypeOK, NEW x \in Watchdogs, NEW y \in Watchdogs, SenderStep(x, y)
  PROVE  /\ TypeOK' /\ Apart /\ (mishap => mishap') /\ Live(x) /\ sender[x][y]
         /\ sendq[x][y] # <<>> /\ sendq'[x][y] = Tail(sendq[x][y])
         /\ \A a, b \in Watchdogs : (a # x \/ b # y) =>
              /\ sendq'[a][b] = sendq[a][b] /\ session'[a][b] = session[a][b]
              /\ sender'[a][b] = sender[a][b]
         /\ \A v \in Watchdogs \ {y} : events'[v] = events[v]
         /\ session'[x][y] \in {session[x][y], "none"}
         /\ \/ /\ Head(sendq[x][y]) = Stop /\ ~sender'[x][y] /\ events' = events
               /\ (session[x][y] = "ending" => session'[x][y] = "none")
            \/ /\ session'[x][y] = session[x][y] /\ sender' = sender
               /\ Head(sendq[x][y]) \in Messages /\ PeerThere(x, y)
               /\ events'[y] = Append(events[y], [type |-> Head(sendq[x][y]), peer |-> x])
            \/ /\ session'[x][y] = session[x][y] /\ sender' = sender
               /\ Head(sendq[x][y]) # Stop /\ ~PeerThere(x, y) /\ events' = events
            \/ mishap' /\ events' = events
<1> DEFINE d == Head(sendq[x][y])
           Q == Seq(Messages \cup {Stop})
<1>1. /\ session \in [Watchdogs -> [Watchdogs -> {"none", "open", "ending"}]]
      /\ sender \in [Watchdogs -> [Watchdogs -> BOOLEAN]]
      /\ sendq \in [Watchdogs -> [Watchdogs -> Q]]
      /\ events \in [Watchdogs -> Seq(Events)] /\ mishap \in BOOLEAN
      /\ \A a, b \in Watchdogs : sender[a][b] => session[a][b] # "none"
  BY DEF TypeOK
<1>2. /\ Apart /\ Live(x) /\ sender[x][y] /\ sendq[x][y] # <<>>
      /\ sendq' = Bend(sendq, x, y, Tail(sendq[x][y]))
  BY <1>1 DEF SenderStep, Apart, Bend
<1>3. sendq[x][y] \in Q /\ Tail(sendq[x][y]) \in Q /\ d \in Messages \cup {Stop}
  <2>1. sendq[x][y] \in Seq(Messages \cup {Stop})
    BY <1>1
  <2>2. QED
    BY <1>2, <2>1, TailAt
<1> HIDE DEF Q
<1>4. /\ sendq' \in [Watchdogs -> [Watchdogs -> Q]] /\ sendq'[x][y] = Tail(sendq[x][y])
      /\ \A a, b \in Watchdogs : (a # x \/ b # y) => sendq'[a][b] = sendq[a][b]
  BY <1>1, <1>2, <1>3 DEF Bend
<1>5. ASSUME SenderEnds(x, y)
      PROVE  /\ session' \in [Watchdogs -> [Watchdogs -> {"none", "open", "ending"}]]
             /\ sender' \in [Watchdogs -> [Watchdogs -> BOOLEAN]] /\ events' = events
             /\ \A a, b \in Watchdogs : (a # x \/ b # y) =>
                  session'[a][b] = session[a][b] /\ sender'[a][b] = sender[a][b]
             /\ ~sender'[x][y] /\ session'[x][y] \in {session[x][y], "none"}
             /\ (session[x][y] = "ending" => session'[x][y] = "none")
  <2>1. /\ sender' = Bend(sender, x, y, FALSE) /\ events' = events
        /\ session' = IF session[x][y] = "ending" THEN Bend(session, x, y, "none")
                      ELSE session
    BY <1>5 DEF SenderEnds
  <2>2. /\ sender' \in [Watchdogs -> [Watchdogs -> BOOLEAN]] /\ ~sender'[x][y]
        /\ \A a, b \in Watchdogs : (a # x \/ b # y) => sender'[a][b] = sender[a][b]
    BY <1>1, <2>1 DEF Bend
  <2>3. CASE session[x][y] = "ending"
    <3>1. session' = Bend(session, x, y, "none")
      BY <2>1, <2>3
    <3>2. /\ session' \in [Watchdogs -> [Watchdogs -> {"none", "open", "ending"}]]
          /\ session'[x][y] = "none"
          /\ \A a, b \in Watchdogs : (a # x \/ b # y) => session'[a][b] = session[a][b]
      BY <1>1, <3>1 DEF Bend
    <3>3. QED
      BY <2>1, <2>2, <3>2
  <2>4. CASE session[x][y] # "ending"
    BY <1>1, <2>1, <2>2, <2>4
  <2>5. QED
    BY <2>3, <2>4
<1>6. \/ d = Stop /\ SenderEnds(x, y) /\ mishap' = mishap
      \/ /\ d # Stop /\ PeerThere(x, y) /\ UNCHANGED <<sender, session, mishap>>
         /\ events' = [events EXCEPT ![y] = Append(events[y], [type |-> d, peer |-> x])]
      \/ d # Stop /\ ~PeerThere(x, y) /\ UNCHANGED <<events, sender, session, mishap>>
      \/ SenderEnds(x, y) /\ mishap'
  BY DEF SenderStep
<1>7. CASE SenderEnds(x, y) /\ mishap' \in BOOLEAN /\ (mishap' \/ (d = Stop /\ mishap' = mishap))
  <2>1. ASSUME NEW a \in Watchdogs, NEW b \in Watchdogs, sender'[a][b]
        PROVE  session'[a][b] # "none"
    <3>1. a # x \/ b # y
      BY <1>5, <1>7, <2>1
    <3>2. sender'[a][b] = sender[a][b] /\ session'[a][b] = session[a][b]
      BY <1>5, <1>7, <3>1
    <3>3. QED
      BY <1>1, <2>1, <3>2
  <2>2. TypeOK'
    BY <1>1, <1>2, <1>4, <1>5, <1>7, <2>1 DEF TypeOK, Apart, nvars, Q
  <2>3. QED
    BY <1>2, <1>4, <1>5, <1>7, <2>2
<1>8. CASE /\ d # Stop /\ PeerThere(x, y) /\ UNCHANGED <<sender, session, mishap>>
           /\ events' = [events EXCEPT ![y] = Append(events[y], [type |-> d, peer |-> x])]
  <2>1. d \in Messages /\ [type |-> d, peer |-> x] \in Events
    BY <1>3, <1>8 DEF Events
  <2>2. Append(events[y], [type |-> d, peer |-> x]) \in Seq(Events)
    <3>1. events[y] \in Seq(Events)
      BY <1>1
    <3>2. QED
      BY <2>1, <3>1, AppendAt
  <2>3. /\ events' \in [Watchdogs -> Seq(Events)]
        /\ events'[y] = Append(events[y], [type |-> d, peer |-> x])
        /\ \A v \in Watchdogs \ {y} : events'[v] = events[v]
    BY <1>1, <1>8, <2>2
  <2>4. session' = session /\ sender' = sender /\ mishap' = mishap
    BY <1>8
  <2>5. TypeOK'
    BY <1>1, <1>2, <1>4, <2>3, <2>4 DEF TypeOK, Apart, nvars, Q
  <2>6. QED
    BY <1>2, <1>4, <1>8, <2>1, <2>3, <2>4, <2>5
<1>9. CASE d # Stop /\ ~PeerThere(x, y) /\ UNCHANGED <<events, sender, session, mishap>>
  <2>1. TypeOK'
    BY <1>1, <1>2, <1>4, <1>9 DEF TypeOK, Apart, nvars, Q
  <2>2. QED
    BY <1>2, <1>4, <1>9, <2>1
<1>10. QED
  <2>1. mishap' \in BOOLEAN
    BY <1>1, <1>6 DEF SenderStep
  <2>2. QED
    BY <1>1, <1>6, <1>7, <1>8, <1>9, <2>1

\* LoseConnection, field by field.
LEMMA Lost ==
  ASSUME TypeOK, NEW x \in Watchdogs, NEW y \in Watchdogs, LoseConnection(x, y)
  PROVE  /\ TypeOK' /\ Apart /\ mishap' = mishap /\ sender' = sender /\ Live(x)
         /\ session[x][y] = "open" /\ session[y][x] # "open"
         /\ sendq'[x][y] = Append(sendq[x][y], Stop)
         /\ \A a, b \in Watchdogs : (a # x \/ b # y) =>
              sendq'[a][b] = sendq[a][b] /\ session'[a][b] = session[a][b]
         /\ events'[x] = Append(events[x], [type |-> "DISCONNECT", peer |-> y])
         /\ \A v \in Watchdogs \ {x} : events'[v] = events[v]
         /\ session'[x][y] = (IF sender[x][y] THEN "ending" ELSE "none")
<1> DEFINE Q == Seq(Messages \cup {Stop})
           e == [type |-> "DISCONNECT", peer |-> y]
<1>1. /\ session \in [Watchdogs -> [Watchdogs -> {"none", "open", "ending"}]]
      /\ sender \in [Watchdogs -> [Watchdogs -> BOOLEAN]]
      /\ sendq \in [Watchdogs -> [Watchdogs -> Q]]
      /\ events \in [Watchdogs -> Seq(Events)]
      /\ \A a, b \in Watchdogs : sender[a][b] => session[a][b] # "none"
  BY DEF TypeOK
<1>2. /\ Apart /\ mishap' = mishap /\ sender' = sender /\ Live(x)
      /\ session[x][y] = "open" /\ session[y][x] # "open"
      /\ events' = [events EXCEPT ![x] = Append(events[x], e)]
      /\ sendq' = Bend(sendq, x, y, Append(sendq[x][y], Stop))
      /\ session' = Bend(session, x, y, IF sender[x][y] THEN "ending" ELSE "none")
  BY <1>1 DEF LoseConnection, Apart, AfterLoss, Bend
<1>3. sendq[x][y] \in Q /\ Append(sendq[x][y], Stop) \in Q
  <2>1. sendq[x][y] \in Seq(Messages \cup {Stop}) /\ Stop \in Messages \cup {Stop}
    BY <1>1
  <2>2. QED
    BY <2>1, AppendAt
<1>4. Append(events[x], e) \in Seq(Events)
  <2>1. events[x] \in Seq(Events) /\ e \in Events
    BY <1>1 DEF Events
  <2>2. QED
    BY <2>1, AppendAt
<1> HIDE DEF Q, e
<1>5. /\ sendq' \in [Watchdogs -> [Watchdogs -> Q]]
      /\ sendq'[x][y] = Append(sendq[x][y], Stop)
      /\ \A a, b \in Watchdogs : (a # x \/ b # y) => sendq'[a][b] = sendq[a][b]
  BY <1>1, <1>2, <1>3 DEF Bend
<1>6. /\ events' \in [Watchdogs -> Seq(Events)] /\ events'[x] = Append(events[x], e)
      /\ \A v \in Watchdogs \ {x} : events'[v] = events[v]
  BY <1>1, <1>2, <1>4
<1>7. /\ session' \in [Watchdogs -> [Watchdogs -> {"none", "open", "ending"}]]
      /\ session'[x][y] = (IF sender[x][y] THEN "ending" ELSE "none")
      /\ \A a, b \in Watchdogs : (a # x \/ b # y) => session'[a][b] = session[a][b]
  BY <1>1, <1>2 DEF Bend
<1>8. ASSUME NEW a \in Watchdogs, NEW b \in Watchdogs, sender'[a][b]
      PROVE  session'[a][b] # "none"
  <2>1. sender[a][b] /\ session[a][b] # "none"
    BY <1>1, <1>2, <1>8
  <2>2. QED
    BY <1>7, <2>1
<1>9. TypeOK'
  BY <1>2, <1>5, <1>6, <1>7, <1>8 DEF TypeOK, Apart, nvars, Q
<1>10. QED
  BY <1>2, <1>5, <1>6, <1>7, <1>9 DEF e

LEMMA PeersTyped ==
  ASSUME TypeOK, NEW v \in Watchdogs
  PROVE  /\ leader[v] \in {NoLeader} \cup Watchdogs /\ events[v] \in Seq(Events)
         /\ \A i \in DOMAIN events[v] : events[v][i].peer \in Watchdogs
<1>1. leader[v] \in {NoLeader} \cup Watchdogs /\ events[v] \in Seq(Events)
  BY DEF TypeOK
<1>2. \A i \in DOMAIN events[v] : events[v][i] \in Events
  BY <1>1
<1>3. QED
  BY <1>1, <1>2 DEF Events

LEMMA FollowsStays ==
  ASSUME TypeOK, NEW v \in Watchdogs, Follows(v),
         leader' = leader, events'[v] = events[v],
         \A p \in Watchdogs : session[v][p] = "open" => session'[v][p] = "open"
  PROVE  Follows(v)'
  BY PeersTyped DEF Follows, Learns

\* One more event: the DISCONNECT of the only connection that is lost, or a
\* message of a peer that is connected.
LEMMA FollowsGrows ==
  ASSUME TypeOK, NEW v \in Watchdogs, Follows(v), leader' = leader,
         NEW e \in Events, events'[v] = Append(events[v], e), e.peer # v,
         e.type = "COORDINATOR" => session'[v][e.peer] = "open",
         \A p \in Watchdogs : session[v][p] = "open" =>
            session'[v][p] = "open" \/ e = [type |-> "DISCONNECT", peer |-> p]
  PROVE  Follows(v)'
<1> DEFINE q == events[v]
           r == Append(events[v], e)
<1>1. /\ leader[v] \in {NoLeader} \cup Watchdogs /\ q \in Seq(Events)
      /\ \A i \in DOMAIN q : q[i].peer \in Watchdogs
  BY PeersTyped
<1>2. /\ \A i \in DOMAIN q : i \in DOMAIN r /\ r[i] = q[i] /\ i \in Nat /\ i < Len(q) + 1
      /\ Len(q) + 1 \in DOMAIN r /\ r[Len(q) + 1] = e /\ Len(q) + 1 \in Nat /\ Len(q) + 1 > 0
      /\ \A i \in DOMAIN r : i \in DOMAIN q \/ i = Len(q) + 1
  <2>1. Len(q) + 1 > 0
    BY <1>1
  <2>2. QED
    BY <1>1, <2>1, AppendAt
<1>3. /\ leader[v] \notin {NoLeader, v} =>
           session[v][leader[v]] = "open" \/ Noticed(q, leader[v], 0)
      /\ \A i \in DOMAIN q :
           /\ q[i].peer # v
           /\ q[i].type = "COORDINATOR" =>
                session[v][q[i].peer] = "open" \/ Noticed(q, q[i].peer, i)
  BY DEF Follows, Learns
<1> HIDE DEF q, r
<1>4. ASSUME NEW p \in Watchdogs, NEW n \in {0} \cup DOMAIN q,
             session[v][p] = "open" \/ Noticed(q, p, n)
      PROVE  session'[v][p] = "open" \/ Noticed(r, p, n)
  <2>1. CASE session[v][p] = "open"
    BY <1>2, <2>1 DEF Noticed
  <2>2. CASE Noticed(q, p, n)
    BY <1>2, <2>2 DEF Noticed
  <2>3. QED
    BY <1>4, <2>1, <2>2
<1>5. leader[v] \notin {NoLeader, v} =>
         session'[v][leader[v]] = "open" \/ Noticed(r, leader[v], 0)
  BY <1>1, <1>3, <1>4
<1>6. ASSUME NEW i \in DOMAIN r
      PROVE  /\ r[i].peer # v
             /\ r[i].type = "COORDINATOR" =>
                  session'[v][r[i].peer] = "open" \/ Noticed(r, r[i].peer, i)
  <2>1. CASE i \in DOMAIN q
    BY <1>1, <1>2, <1>3, <1>4, <2>1
  <2>2. CASE i = Len(q) + 1
    BY <1>2, <2>2
  <2>3. QED
    BY <1>2, <2>1, <2>2
<1>7. events'[v] = r
  BY DEF r
<1>8. QED
  BY <1>5, <1>6, <1>7 DEF Follows, Learns

LEMMA SettlingStays ==
  ASSUME NEW v, NEW p, Settling(v, p), leader' = leader,
         Left(p, v)' => Left(p, v),
         Left(p, v) /\ Queued(v, p) => Queued(v, p)',
         Announced(v, p) => Announced(v, p)', Announced(p, v) => Announced(p, v)'
  PROVE  Settling(v, p)'
<1>1. leader'[v] = v /\ leader'[p] = p => Announced(v, p)' \/ Announced(p, v)'
  BY DEF Settling
<1>2. leader'[v] = v /\ Left(p, v)' => Queued(v, p)'
  BY DEF Settling
<1>3. QED
  BY <1>1, <1>2 DEF Settling

LEMMA BlankStays ==
  ASSUME Apart, NEW v \in Watchdogs, Blank(v), events'[v] = events[v],
         \A p \in Watchdogs : sendq'[v][p] = sendq[v][p] /\ session'[v][p] = session[v][p]
  PROVE  Blank(v)'
  BY DEF Blank, Apart, nvars

LEMMA SenderStepSound ==
  ASSUME Inductive, Sound, NEW x \in Watchdogs, NEW y \in Watchdogs, SenderStep(x, y),
         ~mishap'
  PROVE  Sound'
<1> DEFINE d == Head(sendq[x][y])
           e == [type |-> d, peer |-> x]
           m == sendq[x][y]
<1>1. /\ TypeOK /\ Apart /\ Live(x) /\ sender[x][y] /\ leader' = leader
      /\ sendq[x][y] # <<>> /\ sendq'[x][y] = Tail(m)
      /\ \A a, b \in Watchdogs : (a # x \/ b # y) =>
              /\ sendq'[a][b] = sendq[a][b] /\ session'[a][b] = session[a][b]
              /\ sender'[a][b] = sender[a][b]
      /\ \A v \in Watchdogs \ {y} : events'[v] = events[v]
      /\ \/ /\ d = Stop /\ ~sender'[x][y] /\ events' = events
            /\ (session[x][y] = "ending" => session'[x][y] = "none")
         \/ /\ session'[x][y] = session[x][y] /\ sender' = sender
            /\ d \in Messages /\ PeerThere(x, y)
            /\ events'[y] = Append(events[y], e)
         \/ /\ session'[x][y] = session[x][y] /\ sender' = sender
            /\ d # Stop /\ ~PeerThere(x, y) /\ events' = events
  BY Written DEF Inductive, Apart, nvars
<1>2. /\ m \in Seq(Messages \cup {Stop}) /\ d = m[1] /\ 1 \in DOMAIN m
      /\ \A i \in DOMAIN Tail(m) : i + 1 \in DOMAIN m /\ Tail(m)[i] = m[i + 1] /\ i \in Nat
      /\ \A i \in DOMAIN m : i # 1 => i - 1 \in DOMAIN Tail(m) /\ Tail(m)[i - 1] = m[i]
                                       /\ i \in Nat /\ i > 1
  <2>1. m \in Seq(Messages \cup {Stop})
    BY <1>1 DEF TypeOK
  <2>2. QED
    BY <1>1, <2>1, TailAt
<1>3. /\ session[x][y] \in {"open", "ending"} /\ x # y
      /\ Linked(x, y) /\ Linked(y, x)
      /\ (session[x][y] = "ending" => session[y][x] # "open")
      /\ (d = Stop => session[x][y] = "ending" /\ \A i \in DOMAIN m : m[i] = Stop => i = 1)
  <2>1. session[x][y] \in {"none", "open", "ending"} /\ session[x][y] # "none"
    BY <1>1 DEF TypeOK
  <2>2. Linked(x, y) /\ Linked(y, x)
    BY DEF Sound
  <2>3. d = Stop => session[x][y] = "ending" /\ \A i \in DOMAIN m : m[i] = Stop => i = 1
    BY <1>2, <2>2 DEF Linked
  <2>4. QED
    BY <2>1, <2>2, <2>3 DEF Linked
<1> HIDE DEF d, m
<1>4. \A p, v \in Watchdogs : Left(p, v)' => Left(p, v)
  BY <1>1, <1>3 DEF Left
<1>5. \A v, p \in Watchdogs : session[v][p] = "open" => session'[v][p] = "open"
  BY <1>1, <1>3
<1>6. ASSUME NEW v \in Watchdogs PROVE Follows(v)' /\ Keeps(v)
  <2>1. Follows(v)
    BY DEF Sound
  <2>2. CASE events'[v] = events[v]
    BY <1>1, <1>5, <2>1, <2>2, FollowsStays DEF Keeps
  <2>3. CASE v = y /\ d \in Messages /\ PeerThere(x, y) /\ events'[y] = Append(events[y], e)
    <3>1. e \in Events /\ e.peer = x
      BY <2>3 DEF Events
    <3>2. session'[y][x] = "open"
      BY <1>5, <2>3 DEF PeerThere
    <3>3. Keeps(v)
      <4>1. events[y] \in Seq(Events)
        BY <1>1, PeersTyped
      <4>2. QED
        BY <2>3, <3>1, <4>1, AppendAt DEF Keeps
    <3> HIDE DEF e
    <3>4. Follows(v)'
      BY <1>1, <1>3, <1>5, <2>1, <2>3, <3>1, <3>2, FollowsGrows
    <3>5. QED
      BY <3>3, <3>4
  <2>4. QED
    BY <1>1, <2>2, <2>3
<1>7. Linked(x, y)'
  <2>1. CASE d = Stop
    <3>1. session'[x][y] = "none"
      BY <1>1, <1>3, <2>1 DEF Messages, Stop
    <3>2. \A i \in DOMAIN Tail(m) : Tail(m)[i] # Stop
      BY <1>2, <1>3, <2>1
    <3>3. QED
      BY <1>1, <3>1, <3>2 DEF Linked
  <2>2. CASE d # Stop
    <3>1. session'[x][y] = session[x][y] /\ sender' = sender /\ session'[y][x] = session[y][x]
      BY <1>1, <1>3, <2>2
    <3>2. /\ session[x][y] = "ending" => \E i \in DOMAIN m : m[i] = Stop
          /\ \A i \in DOMAIN m : m[i] = Stop =>
               /\ session[x][y] = "ending"
               /\ \A j \in DOMAIN m : m[j] = Stop => i = j
      BY <1>3 DEF Linked, m
    <3>3. session[x][y] = "ending" => \E i \in DOMAIN Tail(m) : Tail(m)[i] = Stop
      BY <1>2, <2>2, <3>2
    <3>4. ASSUME NEW i \in DOMAIN Tail(m), Tail(m)[i] = Stop
          PROVE  /\ session[x][y] = "ending"
                 /\ \A j \in DOMAIN Tail(m) : Tail(m)[j] = Stop => i = j
      <4>1. i + 1 \in DOMAIN m /\ m[i + 1] = Stop /\ i \in Nat
        BY <1>2, <3>4
      <4>2. ASSUME NEW j \in DOMAIN Tail(m), Tail(m)[j] = Stop PROVE i = j
        <5>1. j + 1 \in DOMAIN m /\ m[j + 1] = Stop /\ j \in Nat
          BY <1>2, <4>2
        <5>2. i + 1 = j + 1
          BY <3>2, <4>1, <5>1
        <5>3. QED
          BY <4>1, <5>1, <5>2
      <4>3. QED
        BY <3>2, <4>1, <4>2
    <3>5. QED
      BY <1>1, <1>3, <3>1, <3>3, <3>4 DEF Linked
  <2>3. QED
    BY <2>1, <2>2
<1>8. ASSUME NEW v \in Watchdogs, NEW p \in Watchdogs PROVE Linked(v, p)'
  <2>1. Linked(v, p)
    BY DEF Sound
  <2>2. CASE v # x \/ p # y
    <3>1. sendq'[v][p] = sendq[v][p] /\ session'[v][p] = session[v][p]
          /\ sender'[v][p] = sender[v][p]
      BY <1>1, <2>2
    <3>2. session'[p][v] = "open" => session[p][v] = "open"
      BY <1>1, <1>3
    <3>3. QED
      BY <2>1, <3>1, <3>2 DEF Linked
  <2>3. QED
    BY <1>7, <2>2
<1>9. ASSUME Announced(x, y) PROVE Announced(x, y)'
  <2>1. Heard(x, y) => Heard(x, y)'
    BY <1>6 DEF Heard, Keeps
  <2>2. ASSUME NEW i \in DOMAIN m, m[i] = "COORDINATOR", ~Left(x, y),
               session[x][y] = "ending" => \E j \in DOMAIN m : j < i /\ m[j] = Stop
        PROVE  Awaits(x, y)' \/ Heard(x, y)'
    <3>1. ~Left(x, y)'
      BY <1>4, <2>2
    <3>2. CASE i = 1
      <4>1. d = "COORDINATOR" /\ d # Stop
        BY <1>2, <2>2, <3>2 DEF Stop
      <4>2. session[x][y] # "ending"
        BY <1>2, <2>2, <3>2
      <4>3. PeerThere(x, y)
        BY <1>3, <2>2, <4>2 DEF Left, PeerThere
      <4>4. events'[y] = Append(events[y], e)
        BY <1>1, <4>1, <4>3
      <4>5. events[y] \in Seq(Events) /\ e \in Events
            /\ e = [type |-> "COORDINATOR", peer |-> x]
        BY <1>1, <4>1, PeersTyped DEF Events, Messages
      <4>6. Heard(x, y)'
        BY <4>4, <4>5, AppendAt DEF Heard
      <4>7. QED
        BY <4>6
    <3>3. CASE i # 1
      <4>1. i - 1 \in DOMAIN Tail(m) /\ Tail(m)[i - 1] = "COORDINATOR"
        BY <1>2, <2>2, <3>3
      <4>2. session'[x][y] = "ending" =>
              \E j \in DOMAIN Tail(m) : j < i - 1 /\ Tail(m)[j] = Stop
        <5>1. CASE d = Stop
          BY <1>1, <1>3, <5>1 DEF Messages, Stop
        <5>2. CASE d # Stop
          <6> SUFFICES ASSUME session'[x][y] = "ending"
                       PROVE  \E j \in DOMAIN Tail(m) : j < i - 1 /\ Tail(m)[j] = Stop
            OBVIOUS
          <6>1. PICK j \in DOMAIN m : j < i /\ m[j] = Stop
            BY <1>1, <2>2, <5>2
          <6>2. j # 1
            BY <1>2, <5>2, <6>1
          <6>3. j - 1 \in DOMAIN Tail(m) /\ Tail(m)[j - 1] = Stop /\ j - 1 < i - 1
            BY <1>2, <3>3, <6>1, <6>2
          <6>4. QED
            BY <6>3
        <5>3. QED
          BY <5>1, <5>2
      <4>3. QED
        BY <1>1, <3>1, <4>1, <4>2 DEF Awaits
    <3>4. QED
      BY <3>2, <3>3
  <2>3. Awaits(x, y) => Awaits(x, y)' \/ Heard(x, y)'
    BY <2>2 DEF Awaits, m
  <2>4. Awaits(x, y)' \/ Heard(x, y)'
    BY <1>9, <2>1, <2>3, AnnouncedIs
  <2>5. QED
    BY <2>4 DEF Announced, Awaits, Heard
<1>10. ASSUME NEW v \in Watchdogs, NEW p \in Watchdogs, Announced(v, p)
       PROVE  Announced(v, p)'
  <2>1. CASE v # x \/ p # y
    <3>1. sendq'[v][p] = sendq[v][p] /\ session'[v][p] = session[v][p]
      BY <1>1, <2>1
    <3>2. QED
      BY <1>4, <1>6, <1>10, <3>1, AnnouncedStays
  <2>2. QED
    BY <1>9, <1>10, <2>1
<1>11. ASSUME NEW v \in Watchdogs, NEW p \in Watchdogs, v # p PROVE Settling(v, p)'
  <2>1. Settling(v, p)
    BY <1>11 DEF Sound
  <2>2. Left(p, v) /\ Queued(v, p) => Queued(v, p)'
    <3>1. CASE v = x /\ p = y
      BY <1>3, <3>1 DEF Left
    <3>2. CASE v # x \/ p # y
      BY <1>1, <3>2 DEF Queued
    <3>3. QED
      BY <3>1, <3>2
  <2>3. QED
    BY <1>1, <1>4, <1>10, <2>1, <2>2, SettlingStays
<1>12. \A v \in Watchdogs : Live(v)' => Standing(v, State(v))'
  BY <1>1, ApartStanding
<1>13. QED
  BY <1>6, <1>8, <1>11, <1>12 DEF Sound

LEMMA SenderStepInductive ==
  ASSUME Inductive, NEW x \in Watchdogs, NEW y \in Watchdogs, SenderStep(x, y)
  PROVE  Inductive'
<1>1. /\ TypeOK' /\ Apart /\ (mishap => mishap') /\ Live(x)
      /\ \A a, b \in Watchdogs : (a # x \/ b # y) =>
              /\ sendq'[a][b] = sendq[a][b] /\ session'[a][b] = session[a][b]
              /\ sender'[a][b] = sender[a][b]
      /\ \A v \in Watchdogs \ {y} : events'[v] = events[v]
      /\ \/ /\ Head(sendq[x][y]) = Stop /\ ~sender'[x][y] /\ events' = events
            /\ (session[x][y] = "ending" => session'[x][y] = "none")
         \/ /\ session'[x][y] = session[x][y] /\ sender' = sender
            /\ Head(sendq[x][y]) \in Messages /\ PeerThere(x, y)
            /\ events'[y] = Append(events[y], [type |-> Head(sendq[x][y]), peer |-> x])
         \/ /\ session'[x][y] = session[x][y] /\ sender' = sender
            /\ Head(sendq[x][y]) # Stop /\ ~PeerThere(x, y) /\ events' = events
         \/ mishap' /\ events' = events
  BY Written DEF Inductive
<1>2. SomebodyRuns'
  BY <1>1 DEF Inductive, SomebodyRuns, Apart
<1>3. ASSUME NEW v \in Watchdogs, ~Live(v)' PROVE Blank(v)'
  <2>1. ~Live(v) /\ v # x
    BY <1>1, <1>3 DEF Apart, Live
  <2>2. Blank(v)
    BY <2>1 DEF Inductive
  <2>3. events'[v] = events[v]
    BY <1>1, <2>2 DEF Blank, PeerThere
  <2>4. QED
    BY <1>1, <2>1, <2>2, <2>3, BlankStays
<1>4. mishap' \/ Sound'
  BY <1>1, SenderStepSound DEF Inductive
<1>5. QED
  BY <1>1, <1>2, <1>3, <1>4 DEF Inductive

LEMMA LoseConnectionSound ==
  ASSUME Inductive, Sound, NEW x \in Watchdogs, NEW y \in Watchdogs, LoseConnection(x, y)
  PROVE  Sound'
<1> DEFINE e == [type |-> "DISCONNECT", peer |-> y]
           m == sendq[x][y]
<1>1. /\ TypeOK /\ Apart /\ sender' = sender /\ leader' = leader
      /\ session[x][y] = "open" /\ session[y][x] # "open"
      /\ sendq'[x][y] = Append(m, Stop)
      /\ \A a, b \in Watchdogs : (a # x \/ b # y) =>
              sendq'[a][b] = sendq[a][b] /\ session'[a][b] = session[a][b]
      /\ events'[x] = Append(events[x], e)
      /\ \A v \in Watchdogs \ {x} : events'[v] = events[v]
      /\ session'[x][y] = (IF sender[x][y] THEN "ending" ELSE "none")
  BY Lost DEF Inductive, Apart, nvars
<1>2. x # y /\ sender[x][y] /\ session'[x][y] = "ending" /\ Linked(x, y)
  <2>1. Linked(x, y)
    BY DEF Sound
  <2>2. QED
    BY <1>1, <2>1 DEF Linked
<1>3. /\ \A i \in DOMAIN m : i \in DOMAIN Append(m, Stop) /\ Append(m, Stop)[i] = m[i]
      /\ Len(m) + 1 \in DOMAIN Append(m, Stop) /\ Append(m, Stop)[Len(m) + 1] = Stop
      /\ \A i \in DOMAIN Append(m, Stop) : i \in DOMAIN m \/ i = Len(m) + 1
  <2>1. m \in Seq(Messages \cup {Stop}) /\ Stop \in Messages \cup {Stop}
    BY <1>1 DEF TypeOK
  <2>2. QED
    BY <2>1, AppendAt
<1>4. e \in Events /\ e.peer = y /\ e.type = "DISCONNECT"
  BY DEF Events
<1> HIDE DEF m, e
<1>5. ASSUME NEW v \in Watchdogs PROVE Follows(v)' /\ Keeps(v)
  <2>1. Follows(v)
    BY DEF Sound
  <2>2. CASE v # x
    BY <1>1, <2>1, <2>2, FollowsStays DEF Keeps
  <2>3. CASE v = x
    <3>1. \A p \in Watchdogs : session[x][p] = "open" =>
            session'[x][p] = "open" \/ e = [type |-> "DISCONNECT", peer |-> p]
      BY <1>1 DEF e
    <3>2. Keeps(v)
      <4>1. events[x] \in Seq(Events)
        BY <1>1, PeersTyped
      <4>2. QED
        BY <1>1, <1>4, <2>3, <4>1, AppendAt DEF Keeps
    <3>3. QED
      BY <1>1, <1>2, <1>4, <2>1, <2>3, <3>1, <3>2, FollowsGrows
  <2>4. QED
    BY <2>2, <2>3
<1>6. Linked(x, y)'
  <2>1. \A i \in DOMAIN m : m[i] # Stop
    BY <1>1, <1>2 DEF Linked, m
  <2>2. session'[y][x] # "open"
    BY <1>1, <1>2
  <2>3. \A i \in DOMAIN Append(m, Stop) : Append(m, Stop)[i] = Stop => i = Len(m) + 1
    BY <1>3, <2>1
  <2>4. QED
    BY <1>1, <1>2, <1>3, <2>2, <2>3 DEF Linked
<1>7. ASSUME NEW v \in Watchdogs, NEW p \in Watchdogs PROVE Linked(v, p)'
  <2>1. Linked(v, p)
    BY DEF Sound
  <2>2. CASE v # x \/ p # y
    <3>1. sendq'[v][p] = sendq[v][p] /\ session'[v][p] = session[v][p]
          /\ sender'[v][p] = sender[v][p]
      BY <1>1, <2>2
    <3>2. session'[p][v] = "open" => session[p][v] = "open"
      BY <1>1, <1>2
    <3>3. QED
      BY <2>1, <3>1, <3>2 DEF Linked
  <2>3. QED
    BY <1>6, <2>2
<1>8. \A p, v \in Watchdogs : Left(p, v)' => Left(p, v)
  BY <1>1, <1>2 DEF Left
<1>9. ASSUME NEW v \in Watchdogs, NEW p \in Watchdogs, Announced(v, p)
      PROVE  Announced(v, p)'
  <2>1. CASE v # x \/ p # y
    <3>1. sendq'[v][p] = sendq[v][p] /\ session'[v][p] = session[v][p]
      BY <1>1, <2>1
    <3>2. QED
      BY <1>5, <1>8, <1>9, <3>1, AnnouncedStays
  <2>2. CASE v = x /\ p = y
    <3>1. Left(v, p)
      BY <1>1, <2>2 DEF Left
    <3>2. Heard(v, p)
      BY <1>9, <3>1, AnnouncedIs DEF Awaits
    <3>3. Heard(v, p)'
      BY <1>5, <3>2 DEF Heard, Keeps
    <3>4. QED
      BY <3>3 DEF Announced, Heard
  <2>3. QED
    BY <2>1, <2>2
<1>10. ASSUME NEW v \in Watchdogs, NEW p \in Watchdogs, v # p PROVE Settling(v, p)'
  <2>1. Settling(v, p)
    BY <1>10 DEF Sound
  <2>2. Left(p, v) /\ Queued(v, p) => Queued(v, p)'
    <3>1. CASE v = x /\ p = y
      BY <1>1, <3>1 DEF Left
    <3>2. CASE v # x \/ p # y
      BY <1>1, <3>2 DEF Queued
    <3>3. QED
      BY <3>1, <3>2
  <2>3. QED
    BY <1>1, <1>8, <1>9, <2>1, <2>2, SettlingStays
<1>11. \A v \in Watchdogs : Live(v)' => Standing(v, State(v))'
  BY <1>1, ApartStanding
<1>12. QED
  BY <1>5, <1>7, <1>10, <1>11 DEF Sound

LEMMA LoseConnectionInductive ==
  ASSUME Inductive, NEW x \in Watchdogs, NEW y \in Watchdogs, LoseConnection(x, y)
  PROVE  Inductive'
<1>1. /\ TypeOK' /\ Apart /\ mishap' = mishap /\ sender' = sender /\ Live(x)
      /\ sendq'[x][y] = Append(sendq[x][y], Stop)
      /\ \A a, b \in Watchdogs : (a # x \/ b # y) =>
              sendq'[a][b] = sendq[a][b] /\ session'[a][b] = session[a][b]
      /\ events'[x] = Append(events[x], [type |-> "DISCONNECT", peer |-> y])
      /\ \A v \in Watchdogs \ {x} : events'[v] = events[v]
      /\ session'[x][y] = (IF sender[x][y] THEN "ending" ELSE "none")
  BY Lost DEF Inductive
<1>2. SomebodyRuns'
  BY <1>1 DEF Inductive, SomebodyRuns, Apart
<1>3. ASSUME NEW v \in Watchdogs, ~Live(v)' PROVE Blank(v)'
  <2>1. ~Live(v) /\ v # x
    BY <1>1, <1>3 DEF Apart, Live
  <2>2. Blank(v)
    BY <2>1 DEF Inductive
  <2>3. QED
    BY <1>1, <2>1, <2>2, BlankStays
<1>4. mishap' \/ Sound'
  BY <1>1, LoseConnectionSound DEF Inductive
<1>5. QED
  BY <1>1, <1>2, <1>3, <1>4 DEF Inductive

-----------------------------------------------------------------------------
(* Monitors, crashes, and the theorems *)

LEMMA SettlingUnchanged ==
  ASSUME UNCHANGED <<leader, events, sendq, session>>, NEW v, NEW p, Settling(v, p)
  PROVE  Settling(v, p)'
<1>1. Keeps(v) /\ Keeps(p)
  BY DEF Keeps
<1>2. (Left(v, p)' => Left(v, p)) /\ (Left(p, v)' => Left(p, v))
  BY DEF Left
<1>3. (Announced(v, p) => Announced(v, p)') /\ (Announced(p, v) => Announced(p, v)')
  BY <1>1, <1>2, AnnouncedStays
<1>4. Queued(v, p) => Queued(v, p)'
  BY DEF Queued
<1>5. QED
  BY <1>2, <1>3, <1>4, SettlingStays

LEMMA RoundEndsInductive ==
  ASSUME Inductive, NEW w \in Watchdogs, RoundEnds(w)
  PROVE  Inductive'
<1>1. /\ TypeOK /\ Live(w) /\ monitor[w] = "stopping"
      /\ monitor' = [monitor EXCEPT ![w] = "off"]
      /\ UNCHANGED <<alive, role, leader, phase, responds, events, sendq, session, sender,
                     mishap, troubles>>
      /\ monitor \in [Watchdogs -> {"off", "on", "stopping"}]
  BY DEF Inductive, RoundEnds, lvars, TypeOK
<1>2. TypeOK'
  BY <1>1 DEF TypeOK
<1>3. SomebodyRuns'
  BY <1>1 DEF Inductive, SomebodyRuns
<1>4. ASSUME NEW v \in Watchdogs, ~Live(v)' PROVE Blank(v)'
  <2>1. ~Live(v) /\ v # w
    BY <1>1, <1>4 DEF Live
  <2>2. Blank(v)
    BY <2>1 DEF Inductive
  <2>3. QED
    BY <1>1, <2>1, <2>2 DEF Blank
<1>5. ASSUME Sound PROVE Sound'
  <2>1. ASSUME NEW v \in Watchdogs, Live(v)' PROVE Standing(v, State(v))'
    <3>1. Standing(v, State(v))
      BY <1>1, <1>5, <2>1 DEF Sound, Live
    <3>2. /\ role'[v] = role[v] /\ leader'[v] = leader[v] /\ phase'[v] = phase[v]
          /\ responds'[v] = responds[v]
          /\ monitor'[v] = monitor[v] \/ (monitor[v] = "stopping" /\ monitor'[v] = "off")
      BY <1>1
    <3>3. QED
      BY <3>1, <3>2 DEF Standing, State
  <2>2. \A v \in Watchdogs : Follows(v)'
    BY <1>1, <1>5 DEF Sound, Follows, Learns
  <2>3. \A v, p \in Watchdogs : Linked(v, p)'
    BY <1>1, <1>5 DEF Sound, Linked
  <2>4. \A v, p \in Watchdogs : v # p => Settling(v, p)'
    BY <1>1, <1>5, SettlingUnchanged DEF Sound
  <2>5. QED
    BY <2>1, <2>2, <2>3, <2>4 DEF Sound
<1>6. QED
  BY <1>1, <1>2, <1>3, <1>4, <1>5 DEF Inductive

LEMMA ReviveInductive ==
  ASSUME Inductive, NEW w \in Watchdogs, Revive(w)
  PROVE  Inductive'
<1>1. /\ TypeOK /\ alive[w] = "dead" /\ alive' = [alive EXCEPT ![w] = "booting"]
      /\ UNCHANGED <<role, leader, phase, monitor, responds, events, sendq, session, sender,
                     mishap, troubles>>
      /\ alive \in [Watchdogs -> {"booting", "running", "dead"}]
  BY DEF Inductive, Revive, nvars, lvars, TypeOK
<1>2. TypeOK'
  BY <1>1 DEF TypeOK
<1>3. SomebodyRuns'
  BY <1>1 DEF SomebodyRuns
<1>4. \A v \in Watchdogs : Live(v)' <=> Live(v)
  BY <1>1 DEF Live
<1>5. ASSUME NEW v \in Watchdogs, ~Live(v)' PROVE Blank(v)'
  <2>1. Blank(v)
    BY <1>4, <1>5 DEF Inductive
  <2>2. QED
    BY <1>1, <2>1 DEF Blank
<1>6. ASSUME Sound PROVE Sound'
  <2>1. \A v \in Watchdogs : Live(v)' => Standing(v, State(v))'
    BY <1>1, <1>4, <1>6 DEF Sound, Standing, State
  <2>2. \A v \in Watchdogs : Follows(v)'
    BY <1>1, <1>6 DEF Sound, Follows, Learns
  <2>3. \A v, p \in Watchdogs : Linked(v, p)'
    BY <1>1, <1>6 DEF Sound, Linked
  <2>4. \A v, p \in Watchdogs : v # p => Settling(v, p)'
    BY <1>1, <1>6, SettlingUnchanged DEF Sound
  <2>5. QED
    BY <2>1, <2>2, <2>3, <2>4 DEF Sound
<1>7. QED
  BY <1>1, <1>2, <1>3, <1>5, <1>6 DEF Inductive

LEMMA CrashedQueues ==
  ASSUME TypeOK, NEW w \in Watchdogs, Crash(w)
  PROVE  /\ sendq' \in [Watchdogs -> [Watchdogs -> Seq(Messages \cup {Stop})]]
         /\ \A p \in Watchdogs : sendq'[w][p] = <<>>
         /\ \A v \in Watchdogs \ {w} : sendq'[v] = sendq[v]
<1> DEFINE g == [p \in Watchdogs |-> <<>>]
           Q == [Watchdogs -> Seq(Messages \cup {Stop})]
<1>1. g \in Q /\ \A p \in Watchdogs : g[p] = <<>>
  OBVIOUS
<1>2. sendq \in [Watchdogs -> Q]
  BY DEF TypeOK
<1>3. sendq' = [sendq EXCEPT ![w] = g]
  BY DEF Crash
<1> HIDE DEF g, Q
<1>4. sendq' \in [Watchdogs -> Q] /\ sendq'[w] = g
      /\ \A v \in Watchdogs \ {w} : sendq'[v] = sendq[v]
  BY <1>1, <1>2, <1>3
<1>5. QED
  BY <1>1, <1>4 DEF Q

\* A crash, field by field.
LEMMA Crashed ==
  ASSUME TypeOK, NEW w \in Watchdogs, Crash(w)
  PROVE  /\ TypeOK' /\ SomebodyRuns' /\ mishap' = mishap /\ alive'[w] = "dead" /\ Blank(w)'
         /\ \A p \in Watchdogs : ~sender'[w][p]
         /\ \A v \in Watchdogs \ {w} :
              /\ role'[v] = role[v] /\ leader'[v] = leader[v] /\ phase'[v] = phase[v]
              /\ monitor'[v] = monitor[v] /\ responds'[v] = responds[v]
              /\ alive'[v] = alive[v] /\ sendq'[v] = sendq[v] /\ events'[v] = events[v]
              /\ session'[v] = session[v] /\ sender'[v] = sender[v]
<1> USE DEF TypeOK, Crash
<1>1. /\ role' \in [Watchdogs -> {"FOLLOWER", "LEADER"}] /\ role'[w] = "FOLLOWER"
      /\ leader' \in [Watchdogs -> {NoLeader} \cup Watchdogs] /\ leader'[w] = NoLeader
      /\ phase' \in [Watchdogs -> {"IDLE", "AWAITING_ANSWER", "AWAITING_COORDINATOR"}]
      /\ phase'[w] = "IDLE"
      /\ monitor' \in [Watchdogs -> {"off", "on", "stopping"}] /\ monitor'[w] = "off"
      /\ responds' \in [Watchdogs -> BOOLEAN] /\ ~responds'[w]
      /\ alive' \in [Watchdogs -> {"booting", "running", "dead"}] /\ alive'[w] = "dead"
      /\ \A v \in Watchdogs \ {w} :
           /\ role'[v] = role[v] /\ leader'[v] = leader[v] /\ phase'[v] = phase[v]
           /\ monitor'[v] = monitor[v] /\ responds'[v] = responds[v] /\ alive'[v] = alive[v]
  OBVIOUS
<1>2. /\ events' \in [Watchdogs -> Seq(Events)] /\ events'[w] = <<>>
      /\ \A v \in Watchdogs \ {w} : events'[v] = events[v]
  <2>1. events \in [Watchdogs -> Seq(Events)] /\ events' = [events EXCEPT ![w] = <<>>]
        /\ <<>> \in Seq(Events)
    OBVIOUS
  <2>2. QED
    BY <2>1
<1>3. /\ sendq' \in [Watchdogs -> [Watchdogs -> Seq(Messages \cup {Stop})]]
      /\ \A p \in Watchdogs : sendq'[w][p] = <<>>
      /\ \A v \in Watchdogs \ {w} : sendq'[v] = sendq[v]
  BY CrashedQueues
<1>4. /\ session' \in [Watchdogs -> [Watchdogs -> {"none", "open", "ending"}]]
      /\ \A p \in Watchdogs : session'[w][p] = "none"
      /\ \A v \in Watchdogs \ {w} : session'[v] = session[v]
  OBVIOUS
<1>5. /\ sender' \in [Watchdogs -> [Watchdogs -> BOOLEAN]]
      /\ \A p \in Watchdogs : ~sender'[w][p]
      /\ \A v \in Watchdogs \ {w} : sender'[v] = sender[v]
  OBVIOUS
<1>6. mishap' = mishap /\ mishap' \in BOOLEAN /\ troubles' \in 0 .. MaxTroubles
  BY ParametersAssumption DEF Trouble
<1>7. \A v, p \in Watchdogs : sender'[v][p] => session'[v][p] # "none"
  BY <1>4, <1>5
<1>8. TypeOK'
  BY <1>1, <1>2, <1>3, <1>4, <1>5, <1>6, <1>7
<1>9. SomebodyRuns'
  <2>1. PICK p \in Peers(w) : Live(p)
    OBVIOUS
  <2>2. p \in Watchdogs /\ alive'[p] = "running"
    BY <1>1, <2>1 DEF Peers, Live
  <2>3. QED
    BY <2>2 DEF SomebodyRuns
<1>10. Blank(w)'
  BY <1>1, <1>2, <1>3, <1>4 DEF Blank
<1>11. QED
  BY <1>1, <1>2, <1>3, <1>4, <1>5, <1>6, <1>8, <1>9, <1>10

LEMMA CrashInductive ==
  ASSUME Inductive, NEW w \in Watchdogs, Crash(w)
  PROVE  Inductive'
<1>1. /\ TypeOK' /\ SomebodyRuns' /\ mishap' = mishap /\ alive'[w] = "dead" /\ Blank(w)'
      /\ \A p \in Watchdogs : ~sender'[w][p]
      /\ \A v \in Watchdogs \ {w} :
              /\ role'[v] = role[v] /\ leader'[v] = leader[v] /\ phase'[v] = phase[v]
              /\ monitor'[v] = monitor[v] /\ responds'[v] = responds[v]
              /\ alive'[v] = alive[v] /\ sendq'[v] = sendq[v] /\ events'[v] = events[v]
              /\ session'[v] = session[v] /\ sender'[v] = sender[v]
  BY Crashed DEF Inductive
<1>2. ASSUME NEW v \in Watchdogs, ~Live(v)' PROVE Blank(v)'
  <2>1. CASE v = w
    BY <1>1, <2>1
  <2>2. CASE v # w
    <3>1. Blank(v)
      BY <1>1, <1>2, <2>2 DEF Inductive, Live
    <3>2. QED
      BY <1>1, <2>2, <3>1 DEF Blank
  <2>3. QED
    BY <2>1, <2>2
<1>3. ASSUME Sound PROVE Sound'
  <2>1. /\ leader'[w] = NoLeader /\ events'[w] = <<>>
        /\ \A p \in Watchdogs : sendq'[w][p] = <<>> /\ session'[w][p] = "none"
    BY <1>1 DEF Blank
  <2>2. ASSUME NEW v \in Watchdogs, Live(v)' PROVE Standing(v, State(v))'
    <3>1. v # w
      BY <1>1, <2>2 DEF Live
    <3>2. Standing(v, State(v))
      BY <1>1, <1>3, <2>2, <3>1 DEF Sound, Live
    <3>3. QED
      BY <1>1, <3>1, <3>2 DEF Standing, State
  <2>3. ASSUME NEW v \in Watchdogs PROVE Follows(v)'
    <3>1. CASE v = w
      BY <2>1, <3>1 DEF Follows
    <3>2. CASE v # w
      <4>1. Follows(v)
        BY <1>3 DEF Sound
      <4>2. leader'[v] = leader[v] /\ events'[v] = events[v] /\ session'[v] = session[v]
        BY <1>1, <3>2
      <4>3. QED
        BY <4>1, <4>2 DEF Follows, Learns
    <3>3. QED
      BY <3>1, <3>2
  <2>4. ASSUME NEW v \in Watchdogs, NEW p \in Watchdogs PROVE Linked(v, p)'
    <3>1. CASE v = w
      BY <2>1, <3>1 DEF Linked
    <3>2. CASE v # w
      <4>1. Linked(v, p)
        BY <1>3 DEF Sound
      <4>2. sendq'[v] = sendq[v] /\ session'[v] = session[v] /\ sender'[v] = sender[v]
        BY <1>1, <3>2
      <4>3. session'[p][v] = "open" => session[p][v] = "open"
        BY <1>1, <2>1
      <4>4. QED
        BY <4>1, <4>2, <4>3 DEF Linked
    <3>3. QED
      BY <3>1, <3>2
  <2>5. ASSUME NEW v \in Watchdogs, NEW p \in Watchdogs, v # w, p # w, v # p
        PROVE  /\ Announced(v, p) => Announced(v, p)'
               /\ Left(p, v)' => Left(p, v)
    <3>1. /\ sendq'[v] = sendq[v] /\ session'[v] = session[v] /\ session'[p] = session[p]
          /\ events'[p] = events[p]
      BY <1>1, <2>5
    <3>2. QED
      BY <3>1, AnnouncedStays DEF Left, Keeps
  <2>6. ASSUME NEW v \in Watchdogs, NEW p \in Watchdogs, v # p PROVE Settling(v, p)'
    <3>1. CASE v = w \/ p = w
      <4>1. w # NoLeader
        BY NoLeaderIsNone
      <4>2. p = w => ~Left(p, v)'
        BY <2>1 DEF Left
      <4>3. QED
        BY <2>1, <3>1, <4>1, <4>2 DEF Settling
    <3>2. CASE v # w /\ p # w
      <4>1. Settling(v, p)
        BY <1>3, <2>6 DEF Sound
      <4>2. leader'[v] = leader[v] /\ leader'[p] = leader[p] /\ sendq'[v] = sendq[v]
        BY <1>1, <3>2
      <4>3. /\ Announced(v, p) => Announced(v, p)'
            /\ Announced(p, v) => Announced(p, v)'
            /\ Left(p, v)' => Left(p, v)
        BY <2>5, <2>6, <3>2
      <4>4. leader'[v] = v /\ leader'[p] = p => Announced(v, p)' \/ Announced(p, v)'
        BY <4>1, <4>2, <4>3 DEF Settling
      <4>5. leader'[v] = v /\ Left(p, v)' => Queued(v, p)'
        BY <4>1, <4>2, <4>3 DEF Settling, Queued
      <4>6. QED
        BY <4>4, <4>5 DEF Settling
    <3>3. QED
      BY <3>1, <3>2
  <2>7. QED
    BY <2>2, <2>3, <2>4, <2>6 DEF Sound
<1>4. QED
  BY <1>1, <1>2, <1>3 DEF Inductive

\* When all the watchdogs boot nothing is under way.
LEMMA Initial == Init => Inductive
<1> SUFFICES ASSUME Init PROVE Inductive
  OBVIOUS
<1>1. N \in Nat /\ N > 0 /\ MaxTroubles \in Nat
  BY ParametersAssumption
<1>2. /\ \A w \in Watchdogs :
           /\ alive[w] = "booting" /\ role[w] = "FOLLOWER" /\ leader[w] = NoLeader
           /\ phase[w] = "IDLE" /\ monitor[w] = "off" /\ ~responds[w] /\ events[w] = <<>>
      /\ \A w, p \in Watchdogs : sendq[w][p] = <<>> /\ session[w][p] = "none" /\ ~sender[w][p]
  BY DEF Init, PerPair
<1>3. TypeOK
  <2>1. /\ alive \in [Watchdogs -> {"booting", "running", "dead"}]
        /\ role \in [Watchdogs -> {"FOLLOWER", "LEADER"}]
        /\ leader \in [Watchdogs -> {NoLeader} \cup Watchdogs]
        /\ phase \in [Watchdogs -> {"IDLE", "AWAITING_ANSWER", "AWAITING_COORDINATOR"}]
        /\ monitor \in [Watchdogs -> {"off", "on", "stopping"}]
    BY DEF Init
  <2>6. responds \in [Watchdogs -> BOOLEAN]
    BY DEF Init
  <2>7. mishap \in BOOLEAN /\ troubles \in 0 .. MaxTroubles
    <3>1. mishap = FALSE /\ troubles = 0
      BY DEF Init
    <3>2. mishap \in BOOLEAN
      BY <3>1
    <3>3. troubles \in 0 .. MaxTroubles
      BY <1>1, <3>1
    <3>4. QED
      BY <3>2, <3>3
  <2>2. events \in [Watchdogs -> Seq(Events)]
    BY DEF Init
  <2>3. sendq \in [Watchdogs -> [Watchdogs -> Seq(Messages \cup {Stop})]]
    BY DEF Init, PerPair
  <2>4. /\ session \in [Watchdogs -> [Watchdogs -> {"none", "open", "ending"}]]
        /\ sender \in [Watchdogs -> [Watchdogs -> BOOLEAN]]
    BY DEF Init, PerPair
  <2>5. QED
    BY <1>2, <2>1, <2>2, <2>3, <2>4, <2>6, <2>7 DEF TypeOK
<1>4. SomebodyRuns
  <2>1. 1 \in Watchdogs
    BY <1>1 DEF Watchdogs
  <2>2. QED
    BY <1>2, <2>1 DEF SomebodyRuns
<1>5. \A w \in Watchdogs : Blank(w) /\ ~Live(w)
  BY <1>2 DEF Blank, Live
<1>6. \A w \in Watchdogs : Follows(w)
  BY <1>2 DEF Follows
<1>7. \A w, p \in Watchdogs : Linked(w, p)
  BY <1>2 DEF Linked
<1>8. \A w, p \in Watchdogs : Settling(w, p)
  BY <1>2, NoLeaderIsNone DEF Settling
<1>9. QED
  BY <1>3, <1>4, <1>5, <1>6, <1>7, <1>8 DEF Inductive, Sound

\* Survivors of any number of deaths, connected and led by the highest.
LEMMA SettledInitial ==
  ASSUME NEW S \in SUBSET Watchdogs, S # {}, SettledOn(S)
  PROVE  Inductive
<1> DEFINE l == Max(S)
<1>1. N \in Nat /\ N > 0 /\ MaxTroubles \in Nat
  BY ParametersAssumption
<1>2. l \in S /\ l \in Watchdogs /\ \A y \in S : l >= y
  BY Highest
<1>3. troubles \in 0 .. MaxTroubles
  <2>1. IsFiniteSet(Watchdogs) /\ Cardinality(Watchdogs) = N
    BY <1>1, FS_Interval DEF Watchdogs
  <2>2. IsFiniteSet(S) /\ Cardinality(S) <= N
    BY <2>1, FS_Subset
  <2>3. Cardinality(S) \in Nat
    BY <2>2, FS_CardinalityType
  <2> DEFINE d == N - Cardinality(S)
  <2>4. d \in Nat
    BY <1>1, <2>2, <2>3
  <2>5. troubles = Min({MaxTroubles, d})
    BY DEF SettledOn
  <2> HIDE DEF d
  <2>6. \E x \in {MaxTroubles, d} : \A y \in {MaxTroubles, d} : x <= y
    BY <1>1, <2>4
  <2>7. troubles \in {MaxTroubles, d} /\ \A y \in {MaxTroubles, d} : troubles <= y
    BY <2>5, <2>6 DEF Min
  <2>8. QED
    BY <1>1, <2>4, <2>7
<1>4. /\ \A w \in Watchdogs :
           /\ alive[w] = IF w \in S THEN "running" ELSE "dead"
           /\ role[w] = IF w = l THEN "LEADER" ELSE "FOLLOWER"
           /\ leader[w] = IF w \in S THEN l ELSE NoLeader
           /\ phase[w] = "IDLE" /\ events[w] = <<>>
           /\ monitor[w] = IF w = l THEN "on" ELSE "off"
           /\ responds[w] = (w \in S \ {l})
      /\ \A w, p \in Watchdogs :
           /\ sendq[w][p] = <<>>
           /\ session[w][p] = IF p # w /\ w \in S /\ p \in S THEN "open" ELSE "none"
           /\ sender[w][p] = (session[w][p] = "open")
  BY DEF SettledOn, PerPair
<1>5. TypeOK
  <2>1. /\ alive \in [Watchdogs -> {"booting", "running", "dead"}]
        /\ role \in [Watchdogs -> {"FOLLOWER", "LEADER"}]
        /\ phase \in [Watchdogs -> {"IDLE", "AWAITING_ANSWER", "AWAITING_COORDINATOR"}]
        /\ monitor \in [Watchdogs -> {"off", "on", "stopping"}]
    BY DEF SettledOn
  <2>2. leader \in [Watchdogs -> {NoLeader} \cup Watchdogs]
    BY <1>2 DEF SettledOn
  <2>3. responds \in [Watchdogs -> BOOLEAN]
    BY DEF SettledOn
  <2>4. events \in [Watchdogs -> Seq(Events)]
    BY DEF SettledOn
  <2>5. sendq \in [Watchdogs -> [Watchdogs -> Seq(Messages \cup {Stop})]]
    BY DEF SettledOn, PerPair
  <2>6. session \in [Watchdogs -> [Watchdogs -> {"none", "open", "ending"}]]
    BY DEF SettledOn
  <2>7. sender \in [Watchdogs -> [Watchdogs -> BOOLEAN]]
    BY DEF SettledOn
  <2>8. mishap \in BOOLEAN
    BY DEF SettledOn
  <2>9. \A w, p \in Watchdogs : sender[w][p] => session[w][p] # "none"
    BY <1>4
  <2>10. QED
    BY <1>3, <2>1, <2>2, <2>3, <2>4, <2>5, <2>6, <2>7, <2>8, <2>9 DEF TypeOK
<1> HIDE DEF l
<1>6. SomebodyRuns
  BY <1>2, <1>4 DEF SomebodyRuns
<1>7. \A w \in Watchdogs : Live(w) <=> w \in S
  BY <1>4 DEF Live
<1>8. ASSUME NEW w \in Watchdogs, ~Live(w) PROVE Blank(w)
  <2>1. w \notin S /\ w # l
    BY <1>2, <1>7, <1>8
  <2>2. role[w] = "FOLLOWER" /\ leader[w] = NoLeader /\ phase[w] = "IDLE"
        /\ monitor[w] = "off" /\ events[w] = <<>>
    BY <1>4, <2>1
  <2>3. ~responds[w]
    <3>1. responds[w] = (w \in S \ {l})
      BY <1>4
    <3>2. QED
      BY <2>1, <3>1
  <2>4. \A p \in Watchdogs : sendq[w][p] = <<>> /\ session[w][p] = "none"
    BY <1>4, <2>1
  <2>5. QED
    BY <2>2, <2>3, <2>4 DEF Blank
<1>9. ASSUME NEW w \in Watchdogs, Live(w) PROVE Standing(w, State(w))
  <2>1. leader[w] = l /\ phase[w] = "IDLE" /\ w \in S /\ w \in Nat /\ l \in Nat
    BY <1>1, <1>2, <1>4, <1>7, <1>9 DEF Watchdogs
  <2>2. ASSUME w # l
        PROVE  l > w /\ role[w] = "FOLLOWER" /\ monitor[w] # "on" /\ responds[w]
    <3>1. l >= w
      BY <1>2, <2>1
    <3>2. role[w] = "FOLLOWER" /\ monitor[w] = "off"
      BY <1>4, <2>2
    <3>3. responds[w] = (w \in S \ {l})
      BY <1>4
    <3>4. responds[w]
      BY <2>1, <2>2, <3>3
    <3>5. l > w
      BY <2>1, <2>2, <3>1
    <3>6. QED
      BY <3>2, <3>4, <3>5
  <2>3. w = l => role[w] = "LEADER" /\ monitor[w] = "on"
    BY <1>4
  <2>4. l # NoLeader
    BY <1>2, NoLeaderIsNone
  <2>5. QED
    BY <2>1, <2>2, <2>3, <2>4, StandingOf
<1>10. ASSUME NEW w \in Watchdogs PROVE Follows(w)
  <2>1. events[w] = <<>>
    BY <1>4
  <2>2. leader[w] \notin {NoLeader, w} => session[w][leader[w]] = "open"
    BY <1>2, <1>4
  <2>3. QED
    BY <2>1, <2>2 DEF Follows, Learns
<1>11. ASSUME NEW w \in Watchdogs, NEW p \in Watchdogs PROVE Linked(w, p)
  <2>1. sendq[w][p] = <<>> /\ DOMAIN sendq[w][p] = {}
    BY <1>4
  <2>2. session[w][p] \in {"none", "open"} /\ (session[w][p] = "open" => w # p)
    BY <1>4
  <2>3. session[w][p] = "open" => sender[w][p]
    <3>1. sender[w][p] = (session[w][p] = "open")
      BY <1>4
    <3>2. QED
      BY <3>1
  <2>4. QED
    BY <2>1, <2>2, <2>3 DEF Linked
<1>12. ASSUME NEW w \in Watchdogs, NEW p \in Watchdogs, w # p PROVE Settling(w, p)
  <2>1. ~Left(p, w)
    BY <1>4 DEF Left
  <2>2. ~(leader[w] = w /\ leader[p] = p)
    BY <1>4, <1>12, NoLeaderIsNone
  <2>3. QED
    BY <2>1, <2>2 DEF Settling
<1>13. QED
  BY <1>5, <1>6, <1>8, <1>9, <1>10, <1>11, <1>12 DEF Inductive, Sound

LEMMA StutterInductive == Inductive /\ UNCHANGED vars => Inductive'
<1> SUFFICES ASSUME Inductive, UNCHANGED vars PROVE Inductive'
  OBVIOUS
<1>1. /\ TypeOK /\ Apart /\ mishap' = mishap
      /\ events' = events /\ sendq' = sendq /\ session' = session /\ sender' = sender
      /\ leader' = leader
  BY DEF Inductive, vars, nvars, lvars, Apart
<1>2. TypeOK'
  BY <1>1 DEF TypeOK, Apart, nvars
<1>3. SomebodyRuns' /\ \A v \in Watchdogs : ~Live(v)' => Blank(v)'
  BY <1>1 DEF Inductive, SomebodyRuns, Apart, nvars, Live, Blank
<1>4. ASSUME Sound PROVE Sound'
  <2>1. \A v \in Watchdogs : Live(v)' => Standing(v, State(v))'
    BY <1>1, <1>4, ApartStanding
  <2>2. \A v \in Watchdogs : Follows(v)'
    BY <1>1, <1>4 DEF Sound, Follows, Learns
  <2>3. \A v, p \in Watchdogs : Linked(v, p)'
    BY <1>1, <1>4 DEF Sound, Linked
  <2>4. \A v, p \in Watchdogs : v # p => Settling(v, p)'
    BY <1>1, <1>4, SettlingUnchanged DEF Sound
  <2>5. QED
    BY <2>1, <2>2, <2>3, <2>4 DEF Sound
<1>5. QED
  BY <1>1, <1>2, <1>3, <1>4 DEF Inductive

LEMMA StepInductive == Inductive /\ [Next]_vars => Inductive'
<1> SUFFICES ASSUME Inductive, [Next]_vars PROVE Inductive'
  OBVIOUS
<1>1. CASE UNCHANGED vars
  BY <1>1, StutterInductive
<1>2. ASSUME NEW w \in Watchdogs, MainLoop(w) PROVE Inductive'
  BY <1>2, MainLoopInductive
<1>3. ASSUME NEW w \in Watchdogs, RoundEnds(w) PROVE Inductive'
  BY <1>3, RoundEndsInductive
<1>4. ASSUME NEW w \in Watchdogs, Revive(w) PROVE Inductive'
  BY <1>4, ReviveInductive
<1>5. ASSUME NEW w \in Watchdogs, NEW p \in Watchdogs, PeerThreads(w, p) PROVE Inductive'
  BY <1>5, ConnectInductive, SenderStepInductive, LoseConnectionInductive DEF PeerThreads
<1>6. ASSUME NEW w \in Watchdogs, Crash(w) PROVE Inductive'
  BY <1>6, CrashInductive
<1>7. QED
  BY <1>1, <1>2, <1>3, <1>4, <1>5, <1>6 DEF Next, Progress

\* Every running watchdog knows of a leader or elects one, whom it follows
\* does not leave unnoticed, and no two lead but one of them is about to read
\* that the other does: of the fields of Watchdog and of the queues and
\* sessions of PeerHandler, as long as no write failed and no leader found its
\* monitor's last round still going on.
THEOREM InductiveInvariant == Spec \/ SettledSpec => []Inductive
<1>1. Init \/ Settled => Inductive
  BY Initial, SettledInitial DEF Settled
<1>2. Inductive /\ [Next]_vars => Inductive'
  BY StepInductive
<1>3. QED
  BY <1>1, <1>2, PTL DEF Spec, SettledSpec

\* Every field of a Watchdog, its queues and its threads keep their types.
THEOREM TypeCorrect == Spec \/ SettledSpec => []TypeOK
<1>1. Inductive => TypeOK
  BY DEF Inductive
<1>2. QED
  BY InductiveInvariant, <1>1, PTL

LEMMA AtRestLed ==
  ASSUME Inductive, AtRest, ~mishap
  PROVE  LedBy(Max(LiveOnes))
<1>1. TypeOK /\ Sound /\ Still
  BY DEF Inductive, AtRest
<1>2. LiveOnes \subseteq Watchdogs /\ LiveOnes # {}
  <2>1. PICK w \in Watchdogs : alive[w] # "dead"
    BY DEF Inductive, SomebodyRuns
  <2>2. alive[w] \in {"booting", "running", "dead"} /\ alive[w] # "booting"
    BY <1>1 DEF TypeOK, Still
  <2>3. w \in LiveOnes
    BY <2>1, <2>2 DEF LiveOnes, Live
  <2>4. QED
    BY <2>3 DEF LiveOnes
<1> DEFINE l == Max(LiveOnes)
<1>3. l \in LiveOnes /\ \A y \in LiveOnes : l >= y
  BY <1>2, Highest
<1> HIDE DEF l
<1>4. ASSUME NEW w \in LiveOnes
      PROVE  /\ w \in Watchdogs /\ w \in Nat /\ events[w] = <<>>
             /\ leader[w] \in Watchdogs
             /\ leader[w] = w => role[w] = "LEADER" /\ monitor[w] = "on"
             /\ leader[w] # w =>
                  /\ leader[w] > w /\ leader[w] \in LiveOnes
                  /\ role[w] = "FOLLOWER" /\ monitor[w] # "on" /\ responds[w]
  <2>1. w \in Watchdogs /\ Live(w) /\ w \in Nat
    BY NoLeaderIsNone DEF LiveOnes
  <2>2. events[w] = <<>> /\ phase[w] = "IDLE"
    BY <1>1, <2>1 DEF Still, AtRest
  <2>3. /\ leader[w] = w => role[w] = "LEADER" /\ phase[w] = "IDLE" /\ monitor[w] = "on"
        /\ leader[w] \notin {NoLeader, w} =>
             /\ leader[w] > w /\ role[w] = "FOLLOWER" /\ phase[w] = "IDLE"
             /\ monitor[w] # "on" /\ responds[w]
        /\ phase[w] = "IDLE" => leader[w] # NoLeader
    <3>1. Standing(w, State(w))
      BY <1>1, <2>1 DEF Sound
    <3>2. QED
      BY <3>1, StandingOf
  <2>4. leader[w] \in Watchdogs
    BY <1>1, <2>1, <2>2, <2>3 DEF TypeOK
  <2>5. ASSUME leader[w] # w PROVE leader[w] \in LiveOnes
    <3>1. leader[w] \notin {NoLeader, w}
      BY <2>2, <2>3, <2>5
    <3>2. Learns(w, leader[w], 0)
      BY <1>1, <2>1, <3>1 DEF Sound, Follows
    <3>3. session[w][leader[w]] = "open"
      BY <2>2, <3>2 DEF Learns, Noticed
    <3>4. leader[w] \in Peers(w)
      BY <2>4, <2>5 DEF Peers
    <3>5. Live(leader[w])
      BY <1>1, <2>1, <3>3, <3>4 DEF Still
    <3>6. QED
      BY <2>4, <3>5 DEF LiveOnes
  <2>6. QED
    BY <2>1, <2>2, <2>3, <2>4, <2>5
<1>5. leader[l] = l
  BY <1>3, <1>4
<1>6. ASSUME NEW w \in LiveOnes, NEW p \in LiveOnes, w # p PROVE ~Announced(w, p)
  <2>1. w \in Watchdogs /\ p \in Watchdogs /\ Live(w) /\ Live(p) /\ p \in Peers(w)
    BY <1>4, <1>6 DEF LiveOnes, Peers
  <2>2. session[w][p] = "open" /\ (sender[w][p] => sendq[w][p] = <<>>)
    BY <1>1, <2>1 DEF Still
  <2>3. sender[w][p]
    BY <1>1, <2>1, <2>2 DEF Sound, Linked
  <2>4. sendq[w][p] = <<>> /\ events[p] = <<>>
    BY <1>4, <2>2, <2>3
  <2>5. QED
    BY <2>4 DEF Announced
<1>7. ASSUME NEW w \in LiveOnes \ {l} PROVE leader[w] # w
  <2>1. w \in Watchdogs /\ l \in Watchdogs /\ w # l
    BY <1>3, <1>4, <1>7
  <2>2. Settling(w, l)
    BY <1>1, <2>1 DEF Sound
  <2>3. ~Announced(w, l) /\ ~Announced(l, w)
    BY <1>3, <1>6, <1>7
  <2>4. QED
    BY <1>5, <2>2, <2>3 DEF Settling
<1>8. role[l] = "LEADER" /\ monitor[l] = "on"
  BY <1>3, <1>4, <1>5
<1>9. \A w \in LiveOnes \ {l} :
        /\ role[w] = "FOLLOWER" /\ monitor[w] # "on" /\ responds[w]
        /\ leader[w] \in LiveOnes /\ leader[w] > w
  BY <1>4, <1>7
<1>10. LedBy(l)
  BY <1>5, <1>8, <1>9 DEF LedBy
<1>11. QED
  BY <1>10 DEF l

\* Whatever crashes and whenever timers run out: when no message is under way
\* and no timer runs, the highest watchdog alive leads and monitors, alone,
\* and each of the others follows a live one above it.
THEOREM HighestLeadsAtRestHolds == Spec \/ SettledSpec => []HighestLeadsAtRest
<1>1. Inductive => HighestLeadsAtRest
  BY AtRestLed DEF HighestLeadsAtRest
<1>2. QED
  BY InductiveInvariant, <1>1, PTL
=============================================================================
