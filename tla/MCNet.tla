------------------------------- MODULE MCNet -------------------------------
EXTENDS Net, TLC

CONSTANTS s1, s2, q1, q2, q3

MCNode == {1, 5, 7}
MCBits == [d \in 0 .. 8 |-> <<0, 490, 500, 506, 510, 513, 516, 518, 520>>[d + 1]]
MCDelay == [p \in Pairs |-> CASE p = {5, 7} -> 1 [] p = {1, 5} -> 20 [] OTHER -> 100]

(* Three nodes in a line, 5 - 7 - 1, on a ring of 16.  5 is nearer to 1 than 7
   is, and much faster to reach from 7: each of 5 and 7 would send a request
   for 1 to the other. *)
Line == [links  |-> ({5, 7} :> s1) @@ ({1, 7} :> s2), down |-> {}, events |-> 1,
         plan   |-> {Message(7, 1, "req", "app", q1, 0, FALSE, <<>>),
                     Message(1, 5, "req", "app", q2, 0, FALSE, <<>>),
                     Message(5, 15, "req", "ring_join", q3, 0, TRUE, <<>>)}]

(* Two nodes that are not connected yet and may each dial the other. *)
Pair == [links  |-> <<>>, down |-> {1}, events |-> 2,
         plan   |-> {Message(5, 7, "req", "app", q1, 0, FALSE, <<>>),
                     Message(7, 5, "res", "", q1, 0, FALSE, <<0>>)}]

MCScenarios == {Line, Pair}
=============================================================================
