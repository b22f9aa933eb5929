---------------------------- MODULE MCElection ----------------------------
(* Election with the instances of the configurations. *)
EXTENDS Election

AnyMishap  == {"write", "round"}
LongRounds == {"round"}

\* What an election leaves behind when only those of S are alive: all of S
\* connected, the highest leads; each dead one is a trouble that has happened.
SettledOn(S) ==
  LET l == Max(S)
  IN /\ alive = [w \in Watchdogs |-> IF w \in S THEN "running" ELSE "dead"]
     /\ role = [w \in Watchdogs |-> IF w = l THEN "LEADER" ELSE "FOLLOWER"]
     /\ leader = [w \in Watchdogs |-> IF w \in S THEN l ELSE NoLeader]
     /\ phase = [w \in Watchdogs |-> "IDLE"]
     /\ events = [w \in Watchdogs |-> <<>>]
     /\ sendq = PerPair(<<>>)
     /\ session = [w \in Watchdogs |-> [p \in Watchdogs |->
                     IF p # w /\ {w, p} \subseteq S THEN "open" ELSE "none"]]
     /\ sender = [w \in Watchdogs |-> [p \in Watchdogs |-> session[w][p] = "open"]]
     /\ monitor = [w \in Watchdogs |-> IF w = l THEN "on" ELSE "off"]
     /\ responds = [w \in Watchdogs |-> w \in S \ {l}]
     /\ mishap = FALSE /\ troubles = Min({MaxTroubles, N - Cardinality(S)})

Settled == \E S \in SUBSET Watchdogs : S # {} /\ SettledOn(S)

SettledSpec     == Settled /\ [][Next]_vars
SettledFairSpec == SettledSpec /\ Fairness
=============================================================================
