------------------------------- MODULE NodeId -------------------------------
(***************************************************************************)
(* Node ids, net/node_id.js.  An id is its place on a ring of Ring places; *)
(* the code keeps the same place as a fraction of the ring.  The distance  *)
(* that is left to a destination is counted in bits, log2 of the distance, *)
(* here the table Bits over the distances of the ring, scaled to integers. *)
(***************************************************************************)
EXTENDS Integers, FiniteSets

CONSTANTS Ring,   \* number of places
          Bits,   \* Bits[d] is what dist_bits gives for the distance d
          Node    \* the nodes of the network, by their ids

ASSUME RingAssumption == Ring \in Nat \ {0}
ASSUME BitsAssumption ==
    /\ Bits \in [0 .. Ring \div 2 -> Nat]
    /\ Bits[0] = 0
    /\ \A d, e \in DOMAIN Bits : d <= e => Bits[d] <= Bits[e]

Id == 0 .. Ring - 1

ASSUME NodeAssumption == Node \subseteq Id /\ IsFiniteSet(Node)

Dist(a, b) == LET d == IF a < b THEN b - a ELSE a - b
              IN  IF 2 * d >= Ring THEN Ring - d ELSE d

DistBits(a, b) == Bits[Dist(a, b)]

(* A range is open at both ends; one that starts at or after its end goes
   round the ring. *)
InRange(x, range) == IF range.min >= range.max
                     THEN x > range.min \/ x < range.max
                     ELSE x > range.min /\ x < range.max

(* What a route to via costs on the way to dst: its round-trip time for each
   bit of distance that it saves.  A cost is a fraction, [good, rtt, bits].  A
   via that is no closer to dst is not good, unless it is as close and lies
   between the two. *)
NotGood == [good |-> FALSE, rtt |-> 0, bits |-> 1]

Cost(rtt, bits) == [good |-> TRUE, rtt |-> IF bits = 0 THEN 1000000 ELSE rtt,
                    bits |-> IF bits = 0 THEN 1 ELSE bits]

(* A round-trip time that is not known makes the cost NaN, which is neither
   less nor more than another. *)
NoRtt == -1

Cheaper(a, b) == a.rtt # NoRtt /\ b.rtt # NoRtt /\ a.rtt * b.bits < b.rtt * a.bits

RttPbVia(src, dst, via, rtt) ==
    IF \/ Dist(src, dst) > Dist(via, dst)
       \/ /\ Dist(src, dst) = Dist(via, dst)
          /\ (src < via /\ via < dst) \/ (dst < via /\ via < src)
    THEN Cost(rtt, DistBits(dst, src) - DistBits(dst, via))
    ELSE NotGood

(* The same for a message to whoever is nearest to dst: a via that is farther
   away than src is good too, and its bits count from the size of the ring. *)
RttPbViaFuzzy(src, dst, via, rtt) ==
    CASE src = via -> NotGood
      [] src # via /\ Dist(src, dst) > Dist(via, dst) /\ src # dst ->
            RttPbVia(src, dst, via, rtt)
      [] OTHER -> Cost(rtt, Bits[Ring \div 2] - DistBits(dst, via))
=============================================================================
