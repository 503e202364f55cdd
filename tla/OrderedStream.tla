--------------------------- MODULE OrderedStream ---------------------------
(***************************************************************************)
(* What one direction of a request promises the application that reads it: *)
(* messages are numbered as they are sent, arrive in any order or not at   *)
(* all, and the application has always been handed exactly the longest     *)
(* gapless prefix of those that arrived, each one once.                    *)
(***************************************************************************)
EXTENDS Naturals

CONSTANT MaxSeq      \* bound: messages sent

VARIABLES sent,      \* how many messages were sent
          arrived,   \* the numbers that reached the other side
          delivered  \* how many the application was handed, in order

\* The application may be handed the first k messages and no more.
LongestPrefix(k, S) == 0 .. k - 1 \subseteq S /\ k \notin S

Init ==
  /\ sent = 0
  /\ arrived = {}
  /\ delivered = 0

SendNext ==
  /\ sent < MaxSeq
  /\ sent' = sent + 1
  /\ UNCHANGED <<arrived, delivered>>

Arrive(s) ==
  /\ arrived' = arrived \cup {s}
  /\ delivered' \in 0 .. sent
  /\ LongestPrefix(delivered', arrived')
  /\ UNCHANGED sent

Next == SendNext \/ \E s \in 0 .. sent - 1 : Arrive(s)

Spec == Init /\ [][Next]_<<sent, arrived, delivered>>
=============================================================================
