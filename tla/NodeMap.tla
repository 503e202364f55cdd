------------------------------ MODULE NodeMap ------------------------------
(***************************************************************************)
(* The routing table of one node, net/node_map.js: the connections it has  *)
(* heard of with their round-trip times, and the graph of routes over      *)
(* them.  The table of node n is a record                                  *)
(*   conn   round-trip time of each pair of nodes, NoConn if not known     *)
(*   graph  for each node, the route: its time and the nodes on it         *)
(*   timer  build_rtt_graph is scheduled                                   *)
(***************************************************************************)
EXTENDS NodeId, Sequences

NoConn == 0
Infinite == 100000                    \* the time of a route that is not there
NoRoute == [rtt |-> NoRtt, path |-> <<>>]
Pairs == {{x, y} : x, y \in Node}

EmptyMap == [conn |-> [p \in Pairs |-> NoConn],
             graph |-> [x \in Node |-> NoRoute], timer |-> FALSE]

(* The nodes in the table besides n itself, whose own node is not in the
   tree. *)
Others(n, map) == {x \in Node \ {n} : \E y \in Node \ {x} : map.conn[{x, y}] # NoConn}

(* NodeMap.update_conn.  A time only ever goes down.  A connection of n itself
   makes the direct route the route of the other end, whatever it was; fresh
   says that the channel is a new one. *)
UpdateConn(n, map, x, y, rtt, fresh) ==
    LET old == map.conn[{x, y}]
        now == IF old # NoConn /\ old < rtt THEN old ELSE rtt
        other == IF x = n THEN y ELSE x
    IN  IF rtt = old /\ ~fresh THEN map
        ELSE [conn |-> [map.conn EXCEPT ![{x, y}] = now],
              graph |-> IF n \in {x, y}
                        THEN [map.graph EXCEPT ![other] = [rtt |-> now, path |-> <<other>>]]
                        ELSE map.graph,
              timer |-> TRUE]

(* Faulty variant: the time of a route is that of its last connection. *)
BuildRttGraphLastHop(n, map) ==
    LET all == Others(n, map) \cup {n}
        start == [x \in Node |-> CASE x = n -> [rtt |-> 0, path |-> <<>>]
                                   [] x \in all \ {n} -> [rtt |-> Infinite, path |-> <<>>]
                                   [] OTHER -> NoRoute]
        settle[k \in 0 .. Cardinality(all)] ==
            IF k = 0 THEN [queue |-> all, graph |-> start]
            ELSE LET q == settle[k - 1].queue
                     g == settle[k - 1].graph
                     next == CHOOSE x \in q : \A y \in q : g[x].rtt <= g[y].rtt
                     Shorter(x) == /\ x # next /\ map.conn[{next, x}] # NoConn
                                   /\ map.conn[{next, x}] < g[x].rtt
                 IN  [queue |-> q \ {next},
                      graph |-> [x \in Node |->
                          IF x \in all /\ Shorter(x)
                          THEN [rtt |-> map.conn[{next, x}], path |-> Append(g[next].path, x)]
                          ELSE g[x]]]
    IN  [map EXCEPT !.graph = settle[Cardinality(all)].graph, !.timer = FALSE]

(* build_rtt_graph: the shortest routes from n, by taking the nearest node that
   is left and shortening the routes of its neighbours.  settle[k] is the
   graph after k nodes. *)
BuildRttGraph(n, map) ==
    LET all == Others(n, map) \cup {n}
        start == [x \in Node |-> CASE x = n -> [rtt |-> 0, path |-> <<>>]
                                   [] x \in all \ {n} -> [rtt |-> Infinite, path |-> <<>>]
                                   [] OTHER -> NoRoute]
        settle[k \in 0 .. Cardinality(all)] ==
            IF k = 0 THEN [queue |-> all, graph |-> start]
            ELSE LET q == settle[k - 1].queue
                     g == settle[k - 1].graph
                     next == CHOOSE x \in q : \A y \in q : g[x].rtt <= g[y].rtt
                     Alt(x) == g[next].rtt + map.conn[{next, x}]
                     Shorter(x) == /\ x # next /\ map.conn[{next, x}] # NoConn
                                   /\ Alt(x) < g[x].rtt
                 IN  [queue |-> q \ {next},
                      graph |-> [x \in Node |->
                          IF x \in all /\ Shorter(x)
                          THEN [rtt |-> Alt(x), path |-> Append(g[next].path, x)]
                          ELSE g[x]]]
    IN  [map EXCEPT !.graph = settle[Cardinality(all)].graph, !.timer = FALSE]

(* NodeItr: the nodes of a set from the nearest to the farthest, walking the
   ring from start both ways, n forward and p back. *)
Forward(x, y) == (y - x + Ring) % Ring
FindNext(ids, x) ==
    CHOOSE y \in ids : \A z \in ids : (Forward(x, y) - 1) % Ring <= (Forward(x, z) - 1) % Ring
FindPrev(ids, x) ==
    CHOOSE y \in ids : \A z \in ids : (Forward(y, x) - 1) % Ring <= (Forward(z, x) - 1) % Ring

NodeItr(ids, start) ==
    LET size == Cardinality(ids)
        at[k \in 0 .. size] ==
            IF k = 0
            THEN LET n == FindNext(ids, start) IN [n |-> n, p |-> FindPrev(ids, n), seq |-> <<>>]
            ELSE LET n == at[k - 1].n
                     p == at[k - 1].p
                     seq == at[k - 1].seq
                 IN  IF n = p THEN [n |-> n, p |-> p, seq |-> Append(seq, p)]
                     ELSE IF Dist(n, start) < Dist(p, start)
                     THEN [n |-> FindNext(ids, n), p |-> p, seq |-> Append(seq, n)]
                     ELSE [n |-> n, p |-> FindPrev(ids, p), seq |-> Append(seq, p)]
    IN  IF ids = {} THEN <<>> ELSE at[size].seq

(* The first of the cheapest good candidates.  A cost that is NaN is taken
   when it comes first and is then never given up.  The code looks at 16 good
   ones at most; there are fewer nodes here. *)
Best(map, seq, costs) ==
    LET best[k \in 0 .. Len(seq)] ==
            IF k = 0 THEN [cost |-> NotGood, path |-> <<>>]
            ELSE LET cost == costs[seq[k]]
                     b == best[k - 1]
                 IN  IF cost.good /\ (~b.cost.good \/ Cheaper(cost, b.cost))
                     THEN [cost |-> cost, path |-> map.graph[seq[k]].path]
                     ELSE b
    IN  best[Len(seq)]

GetBestRoute(n, map, dst) ==
    Best(map, NodeItr(Others(n, map), dst),
         [via \in Node |-> RttPbVia(n, dst, via, map.graph[via].rtt)])

(* range is NoRange at the first node.  A node that is excluded or not in the
   range is passed over. *)
NoRange == [min |-> -1, max |-> -1]

GetRouteByRange(n, map, dst, exclude, range) ==
    LET Eligible(x) == x \notin exclude /\ (range # NoRange => InRange(x, range))
    IN  Best(map, NodeItr(Others(n, map), dst),
             [via \in Node |-> IF Eligible(via)
                               THEN RttPbViaFuzzy(n, dst, via, map.graph[via].rtt)
                               ELSE NotGood])
=============================================================================
