-------------------------- MODULE NetRoutesProofs --------------------------
(***************************************************************************)
(* How messages find their way, for every set of nodes and every ring: the *)
(* routing table that build_rtt_graph makes has the shortest routes, and a *)
(* message to whoever is nearest to an id never loses that id.             *)
(***************************************************************************)
EXTENDS NetProofs, FiniteSetTheorems

-----------------------------------------------------------------------------
(* The types of the routing tables and of messages on their way.  A route to
   a node ends there; and what is left of the route of a message to the
   nearest node ends in the range where that node is looked for.             *)

RouteTo(path, x) == path # <<>> => path[Len(path)] = x

Tables ==
    {map \in [conn : [Pairs -> Nat], graph : [Node -> [rtt : Int, path : Seq(Node)]],
              timer : BOOLEAN] :
        \A x \in Node : RouteTo(map.graph[x].path, x)}

Layers == [from : Node, to : Node, rtt : Nat]

\* The range holds the destination, and the node that the route is for.
Aimed(to, range, rt) ==
    /\ range # NoRange => range.min \in Int /\ range.max \in Int /\ InRange(to, range)
    /\ rt # <<>> => /\ rt[Len(rt)] # to
                    /\ range # NoRange => InRange(rt[Len(rt)], range)

MessageOK(m) ==
    /\ DOMAIN m = Fields /\ m.from \in Node /\ m.to \in Id
    /\ m.hops \in Seq(Layers)
    /\ m.rt \in Seq(Node) /\ m.rtts \in Seq(Nat) /\ Len(m.rtts) = Len(m.rt)
    /\ m.type # "ack" => IsSeq(m.acks)
    /\ m.fuzzy => Aimed(m.to, m.range, m.rt)

\* A message of n that no node has passed on.
OwnMessage(n, m) == MessageOK(m) /\ m.from = n /\ m.hops = <<>>

\* A message on its way to a node.
SentMessage(m) == MessageOK(m) /\ To0(m) \in Node

\* One end of each tracked message is n, or the other end is a node.
SeqOK(n, s) == DOMAIN s = SeqFields /\ (s.src = n \/ s.dst \in Node)

RouterOK(n, r) ==
    /\ DOMAIN r = {"map", "rtt", "queue", "seqs", "reqs"}
    /\ r.map \in Tables /\ r.rtt \in [Node -> Nat]
    /\ \A key \in DOMAIN r.seqs : SeqOK(n, r.seqs[key])
    /\ IsSeq(r.queue) /\ \A m \in Listed(r.queue) : OwnMessage(n, m)

FrameOK(f) == f \in {Hello, Bye} \/ \E m : f = Data(m) /\ SentMessage(m)

RouteInv ==
    /\ \A n \in Node : RouterOK(n, router[n])
    /\ \A s \in Socket, x \in Node : \A f \in Listed(wire[s][x]) : FrameOK(f)
    /\ \A m \in todo, n \in Node : m.from = n => OwnMessage(n, m)

-----------------------------------------------------------------------------
\* Recursive definitions over 0 .. K.

LEMMA UpTo ==
  ASSUME NEW K \in Nat, NEW T, 0 \in T, \A k \in 1 .. K : k - 1 \in T => k \in T
  PROVE  \A k \in 0 .. K : k \in T
  <1> DEFINE Bad == {k \in 0 .. K : k \notin T}
  <1>1. SUFFICES ASSUME Bad # {} PROVE FALSE
    BY <1>1
  <1>2. PICK k \in Bad : \A i \in Bad : k <= i
    <2>1. Bad \subseteq Nat
      OBVIOUS
    <2> HIDE DEF Bad
    <2> QED
      BY <1>1, <2>1, LeastNat
  <1>3. k \in 0 .. K /\ k \notin T /\ k # 0
    OBVIOUS
  <1>4. k - 1 \in 0 .. K /\ k - 1 \notin Bad /\ k \in 1 .. K
    BY <1>2, <1>3
  <1> QED
    BY <1>3, <1>4

\* G gives the value of each number from that of the one before.
Steps(K, V) == [(1 .. K) \X V -> V]
Unrolled(f, V, base, K, G) ==
    /\ f \in [0 .. K -> V] /\ f[0] = base
    /\ \A k \in 1 .. K : f[k] = G[<<k, f[k - 1]>>]

LEMMA Recursion ==
  ASSUME NEW V, NEW base \in V, NEW K \in Nat, NEW G \in Steps(K, V)
  PROVE  \E f : Unrolled(f, V, base, K, G)
  <1>0. G \in [(1 .. K) \X V -> V]
    BY DEF Steps
  <1> DEFINE Is(f, j) == /\ f \in [0 .. j -> V] /\ f[0] = base
                         /\ \A k \in 1 .. j : f[k] = G[<<k, f[k - 1]>>]
             T == {j \in 0 .. K : \E f : Is(f, j)}
  <1>1. 0 \in T
    <2> DEFINE f == [k \in 0 .. 0 |-> base]
    <2>1. Is(f, 0)
      OBVIOUS
    <2>2. 0 \in 0 .. K
      OBVIOUS
    <2> HIDE DEF Is
    <2> QED
      BY <2>1, <2>2
  <1>2. ASSUME NEW j \in 1 .. K, j - 1 \in T PROVE j \in T
    <2>1. PICK f : Is(f, j - 1)
      BY <1>2
    <2>2. j \in Nat /\ j # 0 /\ j - 1 \in Nat
      OBVIOUS
    <2>3. f[j - 1] \in V
      BY <2>1, <2>2
    <2> DEFINE v == G[<<j, f[j - 1]>>]
               g == [k \in 0 .. j |-> IF k = j THEN v ELSE f[k]]
    <2>4. v \in V
      BY <1>0, <2>3
    <2> HIDE DEF v
    <2>5. g \in [0 .. j -> V]
      <3>1. \A k \in 0 .. j : k = j \/ k \in 0 .. j - 1
        BY <2>2
      <3> QED
        BY <2>1, <2>4, <3>1
    <2>6. g[0] = base /\ g[j] = v /\ \A k \in 0 .. j - 1 : g[k] = f[k]
      BY <2>1, <2>2
    <2> HIDE DEF g
    <2>7. ASSUME NEW k \in 1 .. j PROVE g[k] = G[<<k, g[k - 1]>>]
      <3>1. k - 1 \in 0 .. j - 1
        BY <2>2
      <3>2. g[k - 1] = f[k - 1]
        BY <2>6, <3>1
      <3>3. CASE k = j
        BY <2>6, <3>2, <3>3 DEF v
      <3>4. CASE k # j
        <4>1. k \in 1 .. j - 1 /\ k \in 0 .. j - 1
          BY <2>2, <3>4
        <4> QED
          BY <2>1, <2>6, <3>2, <4>1
      <3> QED
        BY <3>3, <3>4
    <2>8. Is(g, j)
      BY <2>5, <2>6, <2>7
    <2> HIDE DEF Is
    <2>9. j \in 0 .. K
      OBVIOUS
    <2> QED
      BY <2>8, <2>9
  <1>3. K \in 0 .. K
    OBVIOUS
  <1>4. K \in T
    <2> HIDE DEF T
    <2> QED
      BY <1>1, <1>2, <1>3, UpTo
  <1> QED
    BY <1>4 DEF Unrolled

-----------------------------------------------------------------------------
\* The routing table.

LEMMA PairOf ==
  ASSUME NEW x \in Node, NEW y \in Node
  PROVE  {x, y} \in Pairs
  BY DEF Pairs

LEMMA NewTable ==
  ASSUME NEW conn \in [Pairs -> Nat], NEW graph, NEW timer \in BOOLEAN,
         graph \in [Node -> [rtt : Int, path : Seq(Node)]],
         \A x \in Node : RouteTo(graph[x].path, x)
  PROVE  [conn |-> conn, graph |-> graph, timer |-> timer] \in Tables
  BY DEF Tables

LEMMA TableFields ==
  ASSUME NEW map \in Tables
  PROVE  /\ map.conn \in [Pairs -> Nat] /\ map.timer \in BOOLEAN
         /\ map.graph \in [Node -> [rtt : Int, path : Seq(Node)]]
         /\ \A x \in Node : RouteTo(map.graph[x].path, x)
         /\ map = [conn |-> map.conn, graph |-> map.graph, timer |-> map.timer]
  BY DEF Tables

\* A route to a node of the table is replaced by another one.
LEMMA NewRoute ==
  ASSUME NEW graph \in [Node -> [rtt : Int, path : Seq(Node)]],
         \A x \in Node : RouteTo(graph[x].path, x),
         NEW y \in Node, NEW rtt \in Int, NEW path \in Seq(Node), RouteTo(path, y)
  PROVE  LET g == [graph EXCEPT ![y] = [rtt |-> rtt, path |-> path]]
         IN  /\ g \in [Node -> [rtt : Int, path : Seq(Node)]]
             /\ \A x \in Node : RouteTo(g[x].path, x)
  <1> DEFINE new == [rtt |-> rtt, path |-> path]
             g == [graph EXCEPT ![y] = new]
  <1>1. new \in [rtt : Int, path : Seq(Node)] /\ new.path = path
    OBVIOUS
  <1> HIDE DEF new
  <1>2. /\ g \in [Node -> [rtt : Int, path : Seq(Node)]]
        /\ \A x \in Node : g[x] = IF x = y THEN new ELSE graph[x]
    BY <1>1
  <1> HIDE DEF g
  <1>3. \A x \in Node : RouteTo(g[x].path, x)
    BY <1>1, <1>2
  <1> QED
    BY <1>2, <1>3 DEF g, new

LEMMA UpdateConnOK ==
  ASSUME NEW n \in Node, NEW map \in Tables, NEW x \in Node, NEW y \in Node,
         NEW rtt \in Nat, NEW fresh
  PROVE  UpdateConn(n, map, x, y, rtt, fresh) \in Tables
  <1> DEFINE old == map.conn[{x, y}]
             now == IF old # NoConn /\ old < rtt THEN old ELSE rtt
             other == IF x = n THEN y ELSE x
             conn == [map.conn EXCEPT ![{x, y}] = now]
             graph == [map.graph EXCEPT ![other] = [rtt |-> now, path |-> <<other>>]]
  <1>1. UpdateConn(n, map, x, y, rtt, fresh) =
            IF rtt = old /\ ~fresh THEN map
            ELSE [conn |-> conn, graph |-> IF n \in {x, y} THEN graph ELSE map.graph,
                  timer |-> TRUE]
    BY DEF UpdateConn
  <1>2. /\ map.conn \in [Pairs -> Nat]
        /\ map.graph \in [Node -> [rtt : Int, path : Seq(Node)]]
        /\ \A z \in Node : RouteTo(map.graph[z].path, z)
    BY TableFields
  <1>3. old \in Nat
    BY <1>2, PairOf
  <1> HIDE DEF old
  <1>4. now \in Nat /\ now \in Int
    BY <1>3
  <1>5. other \in Node /\ <<other>> \in Seq(Node) /\ RouteTo(<<other>>, other)
    BY DEF RouteTo
  <1> HIDE DEF now, other
  <1>6. conn \in [Pairs -> Nat]
    BY <1>2, <1>4
  <1>7. /\ graph \in [Node -> [rtt : Int, path : Seq(Node)]]
        /\ \A z \in Node : RouteTo(graph[z].path, z)
    BY <1>2, <1>4, <1>5, NewRoute
  <1> HIDE DEF conn, graph
  <1>8. /\ [conn |-> conn, graph |-> graph, timer |-> TRUE] \in Tables
        /\ [conn |-> conn, graph |-> map.graph, timer |-> TRUE] \in Tables
    BY <1>2, <1>6, <1>7, NewTable
  <1> QED
    BY <1>1, <1>8

\* path_fold: what is left of a path ends where the path ends.
Folds(fold, path) ==
    fold = [k \in 0 .. Len(path) |->
            IF k = 0 THEN <<>>
            ELSE LET f == fold[k - 1]
                     again == {i \in DOMAIN f : f[i] = path[k]}
                 IN  IF again = {} THEN Append(f, path[k])
                     ELSE SubSeq(f, 1, CHOOSE i \in again : TRUE)]

LEMMA PathFoldOK ==
  ASSUME NEW path \in Seq(Node)
  PROVE  /\ PathFold(path) \in Seq(Node)
         /\ path # <<>> => RouteTo(PathFold(path), path[Len(path)])
  <1> DEFINE K == Len(path)
             Again(k, f) == {i \in DOMAIN f : f[i] = path[k]}
             Step(k, f) == IF Again(k, f) = {} THEN Append(f, path[k])
                           ELSE SubSeq(f, 1, CHOOSE i \in Again(k, f) : TRUE)
  <1>1. K \in Nat /\ \A k \in 1 .. K : path[k] \in Node
    OBVIOUS
  <1>2. ASSUME NEW k \in 1 .. K, NEW f \in Seq(Node)
        PROVE  Step(k, f) \in Seq(Node) /\ RouteTo(Step(k, f), path[k])
    <2>1. path[k] \in Node
      BY <1>1
    <2>2. CASE Again(k, f) = {}
      <3>1. Step(k, f) = Append(f, path[k])
        BY <2>2
      <3> HIDE DEF Step, Again
      <3> QED
        BY <2>1, <3>1 DEF RouteTo
    <2>3. CASE Again(k, f) # {}
      <3> DEFINE i == CHOOSE i \in Again(k, f) : TRUE
      <3>1. Step(k, f) = SubSeq(f, 1, i)
        BY <2>3
      <3>2. i \in Again(k, f)
        BY <2>3
      <3>3. i \in 1 .. Len(f) /\ f[i] = path[k]
        BY <3>2
      <3> HIDE DEF Step, Again, i
      <3>4. SubSeq(f, 1, i) \in Seq(Node) /\ Len(SubSeq(f, 1, i)) = i /\ SubSeq(f, 1, i)[i] = f[i]
        BY <3>3
      <3> QED
        BY <3>1, <3>3, <3>4 DEF RouteTo
    <2> QED
      BY <2>2, <2>3
  <1> DEFINE G == [z \in (1 .. K) \X Seq(Node) |-> Step(z[1], z[2])]
  <1> HIDE DEF Step, Again
  <1>3. G \in Steps(K, Seq(Node))
    BY <1>2 DEF Steps
  <1>4. \A k \in 1 .. K, f \in Seq(Node) : G[<<k, f>>] = Step(k, f)
    OBVIOUS
  <1>5. <<>> \in Seq(Node)
    OBVIOUS
  <1> HIDE DEF G, K
  <1>6. PICK g : Unrolled(g, Seq(Node), <<>>, K, G)
    BY <1>1, <1>3, <1>5, Recursion
  <1>7. Folds(g, path)
    <2>1. ASSUME NEW k \in 0 .. K PROVE g[k] = IF k = 0 THEN <<>> ELSE Step(k, g[k - 1])
      <3>1. CASE k = 0
        BY <1>6, <3>1 DEF Unrolled
      <3>2. CASE k # 0
        <4>1. k \in 1 .. K /\ k - 1 \in 0 .. K
          BY <1>1, <3>2
        <4> QED
          BY <1>4, <1>6, <3>2, <4>1 DEF Unrolled
      <3> QED
        BY <3>1, <3>2
    <2>2. g = [k \in 0 .. K |-> IF k = 0 THEN <<>> ELSE Step(k, g[k - 1])]
      BY <1>6, <2>1 DEF Unrolled
    <2> QED
      BY <2>2 DEF Folds, Step, Again, K
  <1> DEFINE fold == CHOOSE f : Folds(f, path)
  <1>8. Folds(fold, path)
    BY <1>7
  <1>9. PathFold(path) = fold[K]
    BY DEF PathFold, Folds, K
  <1> HIDE DEF fold
  <1>10. fold[0] = <<>> /\ \A k \in 1 .. K : fold[k] = Step(k, fold[k - 1])
    <2>1. fold = [k \in 0 .. K |-> IF k = 0 THEN <<>> ELSE Step(k, fold[k - 1])]
      BY <1>8 DEF Folds, Step, Again, K
    <2> QED
      BY <1>1, <2>1
  <1> DEFINE T == {k \in 0 .. K : fold[k] \in Seq(Node)}
  <1>11. \A k \in 0 .. K : k \in T
    <2>1. 0 \in T
      <3>1. 0 \in 0 .. K
        BY <1>1
      <3>2. fold[0] \in Seq(Node)
        BY <1>5, <1>10
      <3> QED
        BY <3>1, <3>2
    <2>2. ASSUME NEW k \in 1 .. K, k - 1 \in T PROVE k \in T
      BY <1>2, <1>10, <2>2
    <2> HIDE DEF T
    <2> QED
      BY <1>1, <2>1, <2>2, UpTo
  <1>12. fold[K] \in Seq(Node)
    BY <1>1, <1>11
  <1>13. path # <<>> => RouteTo(fold[K], path[K])
    <2>1. SUFFICES ASSUME path # <<>> PROVE RouteTo(fold[K], path[K])
      OBVIOUS
    <2>2. K \in 1 .. K /\ K - 1 \in 0 .. K
      BY <1>1, <2>1 DEF K
    <2> QED
      BY <1>2, <1>10, <1>11, <2>2
  <1> QED
    BY <1>9, <1>12, <1>13 DEF K

-----------------------------------------------------------------------------
\* The length of a walk over the connections.

LEMMA ConnRttOK ==
  ASSUME NEW map \in Tables, NEW x \in Node, NEW y \in Node
  PROVE  ConnRtt(map, x, y) \in Nat
  BY PairOf, TableFields, RouterAssumption DEF ConnRtt

Sums(sum, n, map, path) ==
    sum = [k \in 0 .. Len(path) |->
            IF k = 0 THEN 0
            ELSE sum[k - 1] + ConnRtt(map, IF k = 1 THEN n ELSE path[k - 1], path[k])]

LEMMA CalcSum ==
  ASSUME NEW n \in Node, NEW map \in Tables, NEW path \in Seq(Node)
  PROVE  \E sum : /\ Sums(sum, n, map, path) /\ sum \in [0 .. Len(path) -> Nat]
                  /\ CalcPathRtt(n, map, path) = sum[Len(path)]
  <1> DEFINE K == Len(path)
             Step(k, v) == v + ConnRtt(map, IF k = 1 THEN n ELSE path[k - 1], path[k])
  <1>1. K \in Nat /\ \A k \in 1 .. K : path[k] \in Node
    OBVIOUS
  <1>2. ASSUME NEW k \in 1 .. K, NEW v \in Nat PROVE Step(k, v) \in Nat
    <2>1. path[k] \in Node /\ (k # 1 => path[k - 1] \in Node)
      <3>1. k # 1 => k - 1 \in 1 .. K
        BY <1>1
      <3> QED
        BY <1>1, <3>1
    <2> DEFINE x == IF k = 1 THEN n ELSE path[k - 1]
    <2>2. x \in Node
      BY <2>1
    <2> HIDE DEF x
    <2>3. ConnRtt(map, x, path[k]) \in Nat
      BY <2>1, <2>2, ConnRttOK
    <2>4. v + ConnRtt(map, x, path[k]) \in Nat
      BY <2>3
    <2> QED
      BY <2>4 DEF x
  <1>3. 0 \in Nat
    OBVIOUS
  <1> DEFINE G == [z \in (1 .. K) \X Nat |-> Step(z[1], z[2])]
  <1> HIDE DEF Step
  <1>4. G \in Steps(K, Nat)
    BY <1>2 DEF Steps
  <1>5. \A k \in 1 .. K, v \in Nat : G[<<k, v>>] = Step(k, v)
    OBVIOUS
  <1> HIDE DEF G, K
  <1>6. PICK g : Unrolled(g, Nat, 0, K, G)
    BY <1>1, <1>3, <1>4, Recursion
  <1>7. Sums(g, n, map, path)
    <2>1. ASSUME NEW k \in 0 .. K PROVE g[k] = IF k = 0 THEN 0 ELSE Step(k, g[k - 1])
      <3>1. CASE k = 0
        BY <1>6, <3>1 DEF Unrolled
      <3>2. CASE k # 0
        <4>1. k \in 1 .. K /\ k - 1 \in 0 .. K
          BY <1>1, <3>2
        <4> QED
          BY <1>5, <1>6, <3>2, <4>1 DEF Unrolled
      <3> QED
        BY <3>1, <3>2
    <2>2. g = [k \in 0 .. K |-> IF k = 0 THEN 0 ELSE Step(k, g[k - 1])]
      BY <1>6, <2>1 DEF Unrolled
    <2> QED
      BY <2>2 DEF Sums, Step, K
  <1> DEFINE sum == CHOOSE f : Sums(f, n, map, path)
  <1>8. Sums(sum, n, map, path)
    BY <1>7
  <1>9. CalcPathRtt(n, map, path) = sum[K]
    BY DEF CalcPathRtt, Sums, K
  <1> HIDE DEF sum
  <1>10. sum[0] = 0 /\ \A k \in 1 .. K : sum[k] = Step(k, sum[k - 1])
    <2>1. sum = [k \in 0 .. K |-> IF k = 0 THEN 0 ELSE Step(k, sum[k - 1])]
      BY <1>8 DEF Sums, Step, K
    <2> QED
      BY <1>1, <2>1
  <1> DEFINE T == {k \in 0 .. K : sum[k] \in Nat}
  <1>11. \A k \in 0 .. K : k \in T
    <2>1. 0 \in T
      <3>1. 0 \in 0 .. K
        BY <1>1
      <3>2. sum[0] \in Nat
        BY <1>3, <1>10
      <3> QED
        BY <3>1, <3>2
    <2>2. ASSUME NEW k \in 1 .. K, k - 1 \in T PROVE k \in T
      <3>1. sum[k - 1] \in Nat
        BY <2>2
      <3>2. Step(k, sum[k - 1]) \in Nat
        BY <1>2, <3>1
      <3>3. sum[k] \in Nat
        BY <1>10, <3>2
      <3>4. k \in 0 .. K
        BY <1>1
      <3> QED
        BY <3>3, <3>4
    <2> HIDE DEF T
    <2> QED
      BY <1>1, <2>1, <2>2, UpTo
  <1>12. sum[K] \in Nat
    BY <1>1, <1>11
  <1>13. sum \in [0 .. K -> Nat]
    <2>1. sum = [k \in 0 .. K |-> sum[k]]
      BY <1>8 DEF Sums, K
    <2>2. \A k \in 0 .. K : sum[k] \in Nat
      BY <1>11
    <2> HIDE DEF T
    <2> QED
      BY <2>1, <2>2
  <1> QED
    BY <1>8, <1>9, <1>13 DEF K

LEMMA CalcPathRttOK ==
  ASSUME NEW n \in Node, NEW map \in Tables, NEW path \in Seq(Node)
  PROVE  CalcPathRtt(n, map, path) \in Nat
  <1>1. PICK sum : /\ sum \in [0 .. Len(path) -> Nat]
                   /\ CalcPathRtt(n, map, path) = sum[Len(path)]
    BY CalcSum
  <1>2. Len(path) \in 0 .. Len(path)
    OBVIOUS
  <1> QED
    BY <1>1, <1>2

\* One connection more.
LEMMA CalcPathRttAppend ==
  ASSUME NEW n \in Node, NEW map \in Tables, NEW path \in Seq(Node), NEW x \in Node
  PROVE  CalcPathRtt(n, map, Append(path, x)) =
             CalcPathRtt(n, map, path)
                 + ConnRtt(map, IF path = <<>> THEN n ELSE path[Len(path)], x)
  <1> DEFINE K == Len(path)
             more == Append(path, x)
             Add(p, k) == ConnRtt(map, IF k = 1 THEN n ELSE p[k - 1], p[k])
  <1>1. /\ K \in Nat /\ more \in Seq(Node) /\ Len(more) = K + 1 /\ more[K + 1] = x
        /\ \A k \in 1 .. K : more[k] = path[k]
        /\ path = <<>> <=> K = 0
    OBVIOUS
  <1> HIDE DEF more
  <1>2. PICK f : /\ Sums(f, n, map, path) /\ f \in [0 .. K -> Nat]
                 /\ CalcPathRtt(n, map, path) = f[K]
    BY CalcSum
  <1>3. PICK g : /\ Sums(g, n, map, more) /\ g \in [0 .. Len(more) -> Nat]
                 /\ CalcPathRtt(n, map, more) = g[Len(more)]
    BY <1>1, CalcSum
  <1>4. f = [k \in 0 .. K |-> IF k = 0 THEN 0 ELSE f[k - 1] + Add(path, k)]
    BY <1>2 DEF Sums
  <1>5. g = [k \in 0 .. K + 1 |-> IF k = 0 THEN 0 ELSE g[k - 1] + Add(more, k)]
    BY <1>1, <1>3 DEF Sums
  <1>6. ASSUME NEW k \in 1 .. K PROVE Add(more, k) = Add(path, k)
    <2>1. k # 1 => k - 1 \in 1 .. K
      BY <1>1
    <2> QED
      BY <1>1, <2>1
  <1>7. Add(more, K + 1) = ConnRtt(map, IF path = <<>> THEN n ELSE path[K], x)
    <2>1. K # 0 => K \in 1 .. K
      BY <1>1
    <2>2. K + 1 - 1 = K /\ (K + 1 = 1 <=> K = 0)
      BY <1>1
    <2> QED
      BY <1>1, <2>1, <2>2
  <1> HIDE DEF Add, K
  <1>8. f[0] = 0 /\ g[0] = 0 /\ \A k \in 1 .. K : f[k] = f[k - 1] + Add(path, k)
    BY <1>1, <1>4, <1>5
  <1>9. \A k \in 1 .. K + 1 : g[k] = g[k - 1] + Add(more, k)
    BY <1>1, <1>5
  <1> DEFINE T == {k \in 0 .. K : f[k] = g[k]}
  <1>10. \A k \in 0 .. K : k \in T
    <2>1. 0 \in T
      BY <1>1, <1>8
    <2>2. ASSUME NEW k \in 1 .. K, k - 1 \in T PROVE k \in T
      <3>1. k \in 1 .. K + 1
        BY <1>1
      <3> QED
        BY <1>6, <1>8, <1>9, <2>2, <3>1
    <2> HIDE DEF T
    <2> QED
      BY <1>1, <2>1, <2>2, UpTo
  <1>11. f[K] = g[K]
    BY <1>1, <1>10
  <1>12. K + 1 \in 1 .. K + 1 /\ K + 1 - 1 = K
    BY <1>1
  <1>13. g[K + 1] = g[K] + Add(more, K + 1)
    <2>1. PICK j : j = K + 1
      OBVIOUS
    <2>2. j \in 1 .. K + 1 /\ j - 1 = K
      BY <1>1, <1>12, <2>1
    <2>3. g[j] = g[K] + Add(more, j)
      BY <1>9, <2>2
    <2> QED
      BY <2>1, <2>3
  <1>14. CalcPathRtt(n, map, more) = f[K] + Add(more, K + 1)
    BY <1>1, <1>3, <1>11, <1>13
  <1>15. CalcPathRtt(n, map, more) = CalcPathRtt(n, map, path) + Add(more, K + 1)
    BY <1>2, <1>14
  <1> QED
    BY <1>7, <1>15 DEF more, K

LEMMA BuildRttArrayOK ==
  ASSUME NEW n \in Node, NEW map \in Tables, NEW path \in Seq(Node)
  PROVE  /\ BuildRttArray(n, map, path) \in Seq(Nat)
         /\ Len(BuildRttArray(n, map, path)) = Len(path)
  <1> DEFINE K == Len(path)
             Time(k) == ConnRtt(map, IF k = 1 THEN n ELSE path[k - 1], path[k])
  <1>1. K \in Nat /\ DOMAIN path = 1 .. K /\ \A k \in 1 .. K : path[k] \in Node
    OBVIOUS
  <1>2. BuildRttArray(n, map, path) = [k \in 1 .. K |-> Time(k)]
    BY <1>1 DEF BuildRttArray
  <1>3. ASSUME NEW k \in 1 .. K PROVE Time(k) \in Nat
    <2> DEFINE x == IF k = 1 THEN n ELSE path[k - 1]
    <2>1. x \in Node
      <3>1. k # 1 => k - 1 \in 1 .. K
        BY <1>1
      <3> QED
        BY <1>1, <3>1
    <2> HIDE DEF x
    <2>2. ConnRtt(map, x, path[k]) \in Nat
      BY <1>1, <2>1, ConnRttOK
    <2> QED
      BY <2>2 DEF x
  <1> HIDE DEF Time, K
  <1>4. [k \in 1 .. K |-> Time(k)] \in Seq(Nat) /\ Len([k \in 1 .. K |-> Time(k)]) = K
    BY <1>1, <1>3
  <1> QED
    BY <1>2, <1>4 DEF K

\* update_conn_from_fwd and update_conn_from_path.
LEMMA RouteSet ==
  ASSUME NEW map \in Tables, NEW y \in Node, NEW rtt \in Int, NEW path \in Seq(Node),
         RouteTo(path, y)
  PROVE  [map EXCEPT !.graph[y] = [rtt |-> rtt, path |-> path]] \in Tables
  <1> DEFINE graph == [map.graph EXCEPT ![y] = [rtt |-> rtt, path |-> path]]
  <1>1. /\ map.conn \in [Pairs -> Nat] /\ map.timer \in BOOLEAN
        /\ map.graph \in [Node -> [rtt : Int, path : Seq(Node)]]
        /\ \A x \in Node : RouteTo(map.graph[x].path, x)
        /\ map = [conn |-> map.conn, graph |-> map.graph, timer |-> map.timer]
    BY TableFields
  <1>2. /\ graph \in [Node -> [rtt : Int, path : Seq(Node)]]
        /\ \A x \in Node : RouteTo(graph[x].path, x)
    BY <1>1, NewRoute
  <1>3. [map EXCEPT !.graph[y] = [rtt |-> rtt, path |-> path]] = [map EXCEPT !.graph = graph]
    OBVIOUS
  <1> HIDE DEF graph
  <1>4. [map EXCEPT !.graph = graph] \in Tables
    BY <1>2 DEF Tables
  <1> QED
    BY <1>3, <1>4

Ways == [map : Tables, path : Seq(Node), rtt : Nat]

WayStep(n, hops, k, v) ==
    LET h == hops[Len(hops) + 1 - k]
        path == Append(v.path, h.from)
        fold == PathFold(path)
        map == IF n \in {h.from, h.to} THEN v.map
               ELSE UpdateConn(n, v.map, h.from, h.to, h.rtt, FALSE)
        rtt == IF fold = path THEN v.rtt + h.rtt ELSE CalcPathRtt(n, map, fold)
        known == map.graph[h.from].rtt
    IN  [map |-> IF known = NoRtt \/ known > rtt
                 THEN [map EXCEPT !.graph[h.from] = [rtt |-> rtt, path |-> fold]]
                 ELSE map,
         path |-> path, rtt |-> rtt]

WaysBack(at, n, map0, hops) ==
    at = [k \in 0 .. Len(hops) |->
            IF k = 0 THEN [map |-> map0, path |-> <<>>, rtt |-> 0]
            ELSE WayStep(n, hops, k, at[k - 1])]

LEMMA WayStepOK ==
  ASSUME NEW n \in Node, NEW hops \in Seq(Layers), NEW k \in 1 .. Len(hops), NEW v \in Ways
  PROVE  WayStep(n, hops, k, v) \in Ways
  <1> DEFINE h == hops[Len(hops) + 1 - k]
             path == Append(v.path, h.from)
             fold == PathFold(path)
             map == IF n \in {h.from, h.to} THEN v.map
                    ELSE UpdateConn(n, v.map, h.from, h.to, h.rtt, FALSE)
             rtt == IF fold = path THEN v.rtt + h.rtt ELSE CalcPathRtt(n, map, fold)
             known == map.graph[h.from].rtt
             new == [map EXCEPT !.graph[h.from] = [rtt |-> rtt, path |-> fold]]
             next == IF known = NoRtt \/ known > rtt THEN new ELSE map
  <1>1. h \in Layers
    <2>1. Len(hops) + 1 - k \in 1 .. Len(hops)
      OBVIOUS
    <2> QED
      BY <2>1
  <1>2. WayStep(n, hops, k, v) = [map |-> next, path |-> path, rtt |-> rtt]
    BY DEF WayStep
  <1> HIDE DEF h
  <1>3. h.from \in Node /\ h.to \in Node /\ h.rtt \in Nat
    BY <1>1 DEF Layers
  <1>4. v.map \in Tables /\ v.path \in Seq(Node) /\ v.rtt \in Nat
    BY DEF Ways
  <1>5. path \in Seq(Node) /\ path # <<>> /\ path[Len(path)] = h.from
    BY <1>3, <1>4
  <1> HIDE DEF path
  <1>6. fold \in Seq(Node) /\ RouteTo(fold, h.from)
    BY <1>5, PathFoldOK
  <1> HIDE DEF fold
  <1>7. map \in Tables
    BY <1>3, <1>4, UpdateConnOK
  <1> HIDE DEF map
  <1>8. rtt \in Nat
    <2>1. CalcPathRtt(n, map, fold) \in Nat
      BY <1>6, <1>7, CalcPathRttOK
    <2>2. v.rtt + h.rtt \in Nat
      BY <1>3, <1>4
    <2> QED
      BY <2>1, <2>2
  <1> HIDE DEF rtt
  <1>9. new \in Tables
    BY <1>3, <1>6, <1>7, <1>8, RouteSet
  <1> HIDE DEF new
  <1>10. next \in Tables
    BY <1>7, <1>9
  <1> HIDE DEF next
  <1> QED
    BY <1>2, <1>5, <1>8, <1>10 DEF Ways

LEMMA FromFwdOK ==
  ASSUME NEW n \in Node, NEW map \in Tables, NEW hops \in Seq(Layers)
  PROVE  UpdateConnFromFwd(n, map, hops) \in Tables
  <1> DEFINE K == Len(hops)
             base == [map |-> map, path |-> <<>>, rtt |-> 0]
             Step(k, v) == WayStep(n, hops, k, v)
  <1>1. K \in Nat
    OBVIOUS
  <1>2. base \in Ways
    BY DEF Ways
  <1>3. ASSUME NEW k \in 1 .. K, NEW v \in Ways PROVE Step(k, v) \in Ways
    BY WayStepOK
  <1> HIDE DEF base
  <1> DEFINE G == [z \in (1 .. K) \X Ways |-> Step(z[1], z[2])]
  <1> HIDE DEF Step
  <1>4. G \in Steps(K, Ways)
    BY <1>3 DEF Steps
  <1>5. \A k \in 1 .. K, v \in Ways : G[<<k, v>>] = Step(k, v)
    OBVIOUS
  <1> HIDE DEF G, K
  <1>6. PICK g : Unrolled(g, Ways, base, K, G)
    BY <1>1, <1>2, <1>4, Recursion
  <1>7. WaysBack(g, n, map, hops)
    <2>1. ASSUME NEW k \in 0 .. K PROVE g[k] = IF k = 0 THEN base ELSE Step(k, g[k - 1])
      <3>1. CASE k = 0
        BY <1>6, <3>1 DEF Unrolled
      <3>2. CASE k # 0
        <4>1. k \in 1 .. K /\ k - 1 \in 0 .. K
          BY <1>1, <3>2
        <4> QED
          BY <1>5, <1>6, <3>2, <4>1 DEF Unrolled
      <3> QED
        BY <3>1, <3>2
    <2>2. g = [k \in 0 .. K |-> IF k = 0 THEN base ELSE Step(k, g[k - 1])]
      BY <1>6, <2>1 DEF Unrolled
    <2> QED
      BY <2>2 DEF WaysBack, Step, K, base
  <1> DEFINE at == CHOOSE f : WaysBack(f, n, map, hops)
  <1>8. WaysBack(at, n, map, hops)
    BY <1>7
  <1>9. UpdateConnFromFwd(n, map, hops) = at[K].map
    BY DEF UpdateConnFromFwd, WaysBack, WayStep, K
  <1> HIDE DEF at
  <1>10. at[0] = base /\ \A k \in 1 .. K : at[k] = Step(k, at[k - 1])
    <2>1. at = [k \in 0 .. K |-> IF k = 0 THEN base ELSE Step(k, at[k - 1])]
      BY <1>8 DEF WaysBack, Step, K, base
    <2> QED
      BY <1>1, <2>1
  <1> DEFINE T == {k \in 0 .. K : at[k] \in Ways}
  <1>11. \A k \in 0 .. K : k \in T
    <2>1. 0 \in T
      <3>1. 0 \in 0 .. K
        BY <1>1
      <3>2. at[0] \in Ways
        BY <1>2, <1>10
      <3> QED
        BY <3>1, <3>2
    <2>2. ASSUME NEW k \in 1 .. K, k - 1 \in T PROVE k \in T
      <3>1. at[k - 1] \in Ways
        BY <2>2
      <3>2. Step(k, at[k - 1]) \in Ways
        BY <1>3, <3>1
      <3>3. at[k] \in Ways
        BY <1>10, <3>2
      <3>4. k \in 0 .. K
        BY <1>1
      <3> QED
        BY <3>3, <3>4
    <2> HIDE DEF T
    <2> QED
      BY <1>1, <2>1, <2>2, UpTo
  <1>12. at[K] \in Ways
    BY <1>1, <1>11
  <1> QED
    BY <1>9, <1>12 DEF Ways

Paths(at, n, map0, rt, rtts) ==
    at = [k \in 0 .. Len(rt) |->
            IF k = 0 THEN map0
            ELSE LET prev == IF k = 1 THEN n ELSE rt[k - 1]
                 IN  IF n \in {prev, rt[k]} THEN at[k - 1]
                     ELSE UpdateConn(n, at[k - 1], prev, rt[k], rtts[k], FALSE)]

LEMMA FromPathOK ==
  ASSUME NEW n \in Node, NEW map \in Tables, NEW rt \in Seq(Node), NEW rtts \in Seq(Nat),
         Len(rtts) = Len(rt)
  PROVE  UpdateConnFromPath(n, map, rt, rtts) \in Tables
  <1> DEFINE K == Len(rt)
             Prev(k) == IF k = 1 THEN n ELSE rt[k - 1]
             Step(k, v) == IF n \in {Prev(k), rt[k]} THEN v
                           ELSE UpdateConn(n, v, Prev(k), rt[k], rtts[k], FALSE)
  <1>1. K \in Nat /\ \A k \in 1 .. K : rt[k] \in Node /\ rtts[k] \in Nat
    OBVIOUS
  <1>2. map \in Tables
    OBVIOUS
  <1>3. ASSUME NEW k \in 1 .. K, NEW v \in Tables PROVE Step(k, v) \in Tables
    <2>1. Prev(k) \in Node
      <3>1. k # 1 => k - 1 \in 1 .. K
        BY <1>1
      <3> QED
        BY <1>1, <3>1
    <2> HIDE DEF Prev
    <2>2. UpdateConn(n, v, Prev(k), rt[k], rtts[k], FALSE) \in Tables
      BY <1>1, <2>1, UpdateConnOK
    <2> QED
      BY <2>2
  <1> DEFINE G == [z \in (1 .. K) \X Tables |-> Step(z[1], z[2])]
  <1> HIDE DEF Step, Prev
  <1>4. G \in Steps(K, Tables)
    BY <1>3 DEF Steps
  <1>5. \A k \in 1 .. K, v \in Tables : G[<<k, v>>] = Step(k, v)
    OBVIOUS
  <1> HIDE DEF G, K
  <1>6. PICK g : Unrolled(g, Tables, map, K, G)
    BY <1>1, <1>2, <1>4, Recursion
  <1>7. Paths(g, n, map, rt, rtts)
    <2>1. ASSUME NEW k \in 0 .. K PROVE g[k] = IF k = 0 THEN map ELSE Step(k, g[k - 1])
      <3>1. CASE k = 0
        BY <1>6, <3>1 DEF Unrolled
      <3>2. CASE k # 0
        <4>1. k \in 1 .. K /\ k - 1 \in 0 .. K
          BY <1>1, <3>2
        <4> QED
          BY <1>5, <1>6, <3>2, <4>1 DEF Unrolled
      <3> QED
        BY <3>1, <3>2
    <2>2. g = [k \in 0 .. K |-> IF k = 0 THEN map ELSE Step(k, g[k - 1])]
      BY <1>6, <2>1 DEF Unrolled
    <2> QED
      BY <2>2 DEF Paths, Step, Prev, K
  <1> DEFINE at == CHOOSE f : Paths(f, n, map, rt, rtts)
  <1>8. Paths(at, n, map, rt, rtts)
    BY <1>7
  <1>9. UpdateConnFromPath(n, map, rt, rtts) = at[K]
    BY DEF UpdateConnFromPath, Paths, K
  <1> HIDE DEF at
  <1>10. at[0] = map /\ \A k \in 1 .. K : at[k] = Step(k, at[k - 1])
    <2>1. at = [k \in 0 .. K |-> IF k = 0 THEN map ELSE Step(k, at[k - 1])]
      BY <1>8 DEF Paths, Step, Prev, K
    <2> QED
      BY <1>1, <2>1
  <1> DEFINE T == {k \in 0 .. K : at[k] \in Tables}
  <1>11. \A k \in 0 .. K : k \in T
    <2>1. 0 \in T
      <3>1. 0 \in 0 .. K
        BY <1>1
      <3>2. at[0] \in Tables
        BY <1>2, <1>10
      <3> QED
        BY <3>1, <3>2
    <2>2. ASSUME NEW k \in 1 .. K, k - 1 \in T PROVE k \in T
      <3>1. at[k - 1] \in Tables
        BY <2>2
      <3>2. Step(k, at[k - 1]) \in Tables
        BY <1>3, <3>1
      <3>3. at[k] \in Tables
        BY <1>10, <3>2
      <3>4. k \in 0 .. K
        BY <1>1
      <3> QED
        BY <3>3, <3>4
    <2> HIDE DEF T
    <2> QED
      BY <1>1, <2>1, <2>2, UpTo
  <1>12. at[K] \in Tables
    BY <1>1, <1>11
  <1> QED
    BY <1>9, <1>12

-----------------------------------------------------------------------------
\* What a router learns from the messages.

LEMMA LearnOK ==
  ASSUME NEW n \in Node, NEW r, NEW m, RouterOK(n, r), MessageOK(m)
  PROVE  RouterOK(n, LearnConn(n, r, m))
  <1> DEFINE map == UpdateConnFromPath(n, UpdateConnFromFwd(n, r.map, m.hops), m.rt, m.rtts)
             R == LearnConn(n, r, m)
  <1>1. DOMAIN r = {"map", "rtt", "queue", "seqs", "reqs"} /\ r.map \in Tables
    BY DEF RouterOK
  <1>2. map \in Tables
    <2>1. UpdateConnFromFwd(n, r.map, m.hops) \in Tables
      BY <1>1, FromFwdOK DEF MessageOK
    <2> QED
      BY <2>1, FromPathOK DEF MessageOK
  <1>3. R = [r EXCEPT !.map = map]
    BY DEF LearnConn
  <1> HIDE DEF map, R
  <1>4. /\ DOMAIN R = DOMAIN r /\ R.map = map /\ R.rtt = r.rtt /\ R.queue = r.queue
        /\ R.seqs = r.seqs
    BY <1>1, <1>3
  <1>5. RouterOK(n, R)
    BY <1>2, <1>4 DEF RouterOK
  <1> QED
    BY <1>5 DEF R

LEMMA RttOK ==
  ASSUME NEW n \in Node, NEW r, NEW P \in SUBSET Node, NEW key, NEW from \in Node, NEW direct,
         RouterOK(n, r), key \in DOMAIN r.seqs
  PROVE  RouterOK(n, UpdateRttFromAck(n, r, P, key, from, direct))
  <1> DEFINE s == r.seqs[key]
             other == IF s.src = n THEN s.dst ELSE s.src
             map == UpdateConn(n, r.map, s.src, s.dst, Delay[{n, from}], FALSE)
             seen == [r EXCEPT !.seqs[key].measured = TRUE]
             took == [r EXCEPT !.seqs[key].measured = TRUE, !.map = map,
                               !.rtt[other] = map.conn[{s.src, s.dst}]]
             seqs == [r.seqs EXCEPT ![key].measured = TRUE]
  <1>1. UpdateRttFromAck(n, r, P, key, from, direct) =
            IF from = n \/ ~direct \/ s.measured THEN r
            ELSE IF other \notin P THEN seen ELSE took
    BY DEF UpdateRttFromAck
  <1>2. /\ DOMAIN r = {"map", "rtt", "queue", "seqs", "reqs"} /\ r.map \in Tables
        /\ r.rtt \in [Node -> Nat] /\ \A k \in DOMAIN r.seqs : SeqOK(n, r.seqs[k])
    BY DEF RouterOK
  <1>3. \A k \in DOMAIN seqs : SeqOK(n, seqs[k])
    <2>1. /\ DOMAIN seqs = DOMAIN r.seqs
          /\ \A k \in DOMAIN r.seqs : k # key => seqs[k] = r.seqs[k]
          /\ seqs[key] = [s EXCEPT !.measured = TRUE]
      OBVIOUS
    <2>2. SeqOK(n, s)
      BY <1>2
    <2> HIDE DEF s, seqs
    <2>3. SeqOK(n, [s EXCEPT !.measured = TRUE])
      BY <2>2 DEF SeqOK, SeqFields
    <2> QED
      BY <1>2, <2>1, <2>3
  <1>4. RouterOK(n, seen)
    <2>1. /\ DOMAIN seen = DOMAIN r /\ seen.map = r.map /\ seen.rtt = r.rtt
          /\ seen.queue = r.queue /\ seen.seqs = seqs
      BY <1>2
    <2> HIDE DEF seen, seqs, took
    <2> QED
      BY <1>2, <1>3, <2>1 DEF RouterOK
  <1>5. ASSUME other \in P PROVE RouterOK(n, took)
    <2>1. s.src \in Node /\ s.dst \in Node
      <3>1. s.src = n \/ s.dst \in Node
        BY <1>2 DEF SeqOK
      <3>2. other \in Node
        BY <1>5
      <3> QED
        BY <3>1, <3>2
    <2>2. Delay[{n, from}] \in Nat
      BY PairOf, RouterAssumption
    <2> HIDE DEF s
    <2>3. map \in Tables
      BY <1>2, <2>1, <2>2, UpdateConnOK
    <2> HIDE DEF map
    <2>4. map.conn[{s.src, s.dst}] \in Nat
      BY <2>1, <2>3, PairOf, TableFields
    <2> HIDE DEF other
    <2>5. [r.rtt EXCEPT ![other] = map.conn[{s.src, s.dst}]] \in [Node -> Nat]
      BY <1>2, <2>4
    <2>6. /\ DOMAIN took = DOMAIN r /\ took.map = map /\ took.queue = r.queue
          /\ took.rtt = [r.rtt EXCEPT ![other] = map.conn[{s.src, s.dst}]]
          /\ took.seqs = seqs
      BY <1>2
    <2> HIDE DEF took, seqs, seen
    <2> QED
      BY <1>2, <1>3, <2>3, <2>5, <2>6 DEF RouterOK
  <1> HIDE DEF seen, took, other, s
  <1> QED
    BY <1>1, <1>4, <1>5

LEMMA TrackAckOK ==
  ASSUME NEW n \in Node, NEW r, NEW P \in SUBSET Node, NEW from \in Node, NEW key, NEW vv,
         NEW direct, RouterOK(n, r)
  PROVE  RouterOK(n, TrackAck(n, r, P, from, key, vv, direct))
  <1> DEFINE s == SeqOf(r, key)
             state == IF vv THEN "done" ELSE "ack"
             req == CASE vv /\ s.type \in LastTypes -> "close"
                      [] vv /\ s.type \notin LastTypes /\ key[2] = ">" -> "open"
                      [] OTHER -> ReqOf(r, key[1])
             R == [r EXCEPT !.seqs[key].state = state, !.reqs[key[1]] = req]
             seqs == [r.seqs EXCEPT ![key].state = state]
  <1>1. TrackAck(n, r, P, from, key, vv, direct) =
            IF s.state = None THEN r ELSE UpdateRttFromAck(n, R, P, key, from, direct)
    BY DEF TrackAck
  <1>2. CASE s.state = None
    BY <1>1, <1>2
  <1>3. CASE s.state # None
    <2>1. key \in DOMAIN r.seqs /\ s = r.seqs[key]
      BY <1>3 DEF SeqOf, Untracked
    <2>2. /\ DOMAIN r = {"map", "rtt", "queue", "seqs", "reqs"}
          /\ \A k \in DOMAIN r.seqs : SeqOK(n, r.seqs[k])
      BY DEF RouterOK
    <2> HIDE DEF s, state, req
    <2>3. /\ DOMAIN R = DOMAIN r /\ R.map = r.map /\ R.rtt = r.rtt
          /\ R.queue = r.queue /\ R.seqs = seqs
      BY <2>2
    <2> HIDE DEF R
    <2>4. /\ DOMAIN seqs = DOMAIN r.seqs
          /\ \A k \in DOMAIN r.seqs : k # key => seqs[k] = r.seqs[k]
          /\ seqs[key] = [s EXCEPT !.state = state]
      BY <2>1
    <2> HIDE DEF seqs
    <2>5. SeqOK(n, [s EXCEPT !.state = state])
      BY <2>1, <2>2 DEF SeqOK, SeqFields
    <2>6. \A k \in DOMAIN seqs : SeqOK(n, seqs[k])
      BY <2>2, <2>4, <2>5
    <2>7. RouterOK(n, R) /\ key \in DOMAIN R.seqs
      BY <2>1, <2>2, <2>3, <2>4, <2>6 DEF RouterOK
    <2> QED
      BY <1>1, <1>3, <2>7, RttOK
  <1> QED
    BY <1>2, <1>3

LEMMA TrackAcksOK ==
  ASSUME NEW n \in Node, NEW r, NEW P \in SUBSET Node, NEW m, RouterOK(n, r),
         MessageOK(m), IsSeq(m.acks)
  PROVE  RouterOK(n, TrackAcks(n, r, P, m))
  <1> DEFINE K == Len(m.acks)
             at == CHOOSE g : Tracks(g, K, n, r, P, m)
  <1>1. K \in Nat
    BY DEF IsSeq
  <1>2. Tracks(at, K, n, r, P, m)
    BY <1>1, TracksExist
  <1>3. TrackAcks(n, r, P, m) = at[K]
    BY DEF TrackAcks, Tracks
  <1> HIDE DEF at, K
  <1> DEFINE T == {k \in 0 .. K : RouterOK(n, at[k])}
  <1>4. 0 \in T
    <2>1. 0 \in 0 .. K
      BY <1>1
    <2>2. at[0] = r
      BY <1>2, <2>1 DEF Tracks
    <2> QED
      BY <2>1, <2>2
  <1>5. ASSUME NEW k \in 1 .. K, k - 1 \in T PROVE k \in T
    <2>1. k \in 0 .. K /\ k # 0
      BY <1>1
    <2> DEFINE key == <<m.req, TypeToRdir(m.type), m.acks[k]>>
               direct == From0(m) = m.from
    <2>2. at[k] = TrackAck(n, at[k - 1], P, m.from, key, TRUE, direct)
      BY <1>2, <2>1 DEF Tracks
    <2>3. RouterOK(n, at[k - 1])
      BY <1>5
    <2>4. m.from \in Node
      BY DEF MessageOK
    <2> HIDE DEF key, direct
    <2>5. RouterOK(n, at[k])
      BY <2>2, <2>3, <2>4, TrackAckOK
    <2> QED
      BY <2>1, <2>5
  <1>6. \A k \in 0 .. K : k \in T
    <2> HIDE DEF T
    <2> QED
      BY <1>1, <1>4, <1>5, UpTo
  <1>7. RouterOK(n, at[K])
    BY <1>1, <1>6
  <1> QED
    BY <1>3, <1>7

LEMMA TrackMsgOK ==
  ASSUME NEW n \in Node, NEW r, NEW m, RouterOK(n, r), From0(m) = n \/ To0(m) \in Node
  PROVE  RouterOK(n, TrackMsg(n, r, m))
  <1> DEFINE key == KeyOf(m)
             s == IF key \in DOMAIN r.seqs THEN r.seqs[key]
                  ELSE [state |-> "in", type |-> m.type, src |-> From0(m), dst |-> To0(m),
                        measured |-> FALSE]
             state == IF From0(m) = n THEN "out" ELSE "in"
             now == [s EXCEPT !.state = state]
             req == CASE m.type \in LastTypes -> "closing"
                      [] m.type \notin LastTypes /\ ReqOf(r, m.req) = None -> "opening"
                      [] OTHER -> ReqOf(r, m.req)
             R == [r EXCEPT !.seqs = Noted(@, key, now), !.reqs = Noted(@, m.req, req)]
  <1>1. TrackMsg(n, r, m) = IF s.state = "ack" THEN r ELSE R
    BY DEF TrackMsg
  <1>2. /\ DOMAIN r = {"map", "rtt", "queue", "seqs", "reqs"}
        /\ \A k \in DOMAIN r.seqs : SeqOK(n, r.seqs[k])
    BY DEF RouterOK
  <1>3. SeqOK(n, s)
    <2>1. CASE key \in DOMAIN r.seqs
      BY <1>2, <2>1
    <2>2. CASE key \notin DOMAIN r.seqs
      <3> DEFINE t == [state |-> "in", type |-> m.type, src |-> From0(m), dst |-> To0(m),
                       measured |-> FALSE]
      <3>1. DOMAIN t = SeqFields /\ t.src = From0(m) /\ t.dst = To0(m)
        BY DEF SeqFields
      <3>2. s = t
        BY <2>2
      <3> HIDE DEF s, t
      <3> QED
        BY <3>1, <3>2 DEF SeqOK
    <2> QED
      BY <2>1, <2>2
  <1> HIDE DEF s, state
  <1>4. SeqOK(n, now)
    BY <1>3 DEF SeqOK, SeqFields
  <1> HIDE DEF now, req, key
  <1>5. /\ DOMAIN R = DOMAIN r /\ R.map = r.map /\ R.rtt = r.rtt
        /\ R.queue = r.queue /\ R.seqs = Noted(r.seqs, key, now)
    BY <1>2
  <1> HIDE DEF R
  <1>6. \A k \in DOMAIN R.seqs : SeqOK(n, R.seqs[k])
    BY <1>2, <1>4, <1>5 DEF Noted
  <1>7. RouterOK(n, R)
    BY <1>2, <1>5, <1>6 DEF RouterOK
  <1> QED
    BY <1>1, <1>7

LEMMA TrackOK ==
  ASSUME NEW n \in Node, NEW r, NEW P \in SUBSET Node, NEW m, RouterOK(n, r), MessageOK(m),
         From0(m) = n \/ To0(m) \in Node
  PROVE  RouterOK(n, Track(n, r, P, m))
  <1> DEFINE direct == From0(m) = m.from
  <1>1. CASE m.type = "ack"
    <2>1. Track(n, r, P, m) = TrackAck(n, r, P, m.from, KeyOf(m), m.vv, direct)
      BY <1>1 DEF Track
    <2> HIDE DEF direct
    <2>2. m.from \in Node
      BY DEF MessageOK
    <2> QED
      BY <2>1, <2>2, TrackAckOK
  <1>2. CASE m.type # "ack"
    <2>1. RouterOK(n, TrackAcks(n, r, P, m))
      BY <1>2, TrackAcksOK DEF MessageOK
    <2>2. RouterOK(n, TrackMsg(n, TrackAcks(n, r, P, m), m))
      BY <2>1, TrackMsgOK
    <2> QED
      BY <1>2, <2>2 DEF Track
  <1> QED
    BY <1>1, <1>2


-----------------------------------------------------------------------------
\* The choice of the next node.

LEMMA NearestOK ==
  ASSUME NEW ids \in SUBSET Node, ids # {}, NEW x \in Id
  PROVE  FindNext(ids, x) \in ids /\ FindPrev(ids, x) \in ids
  <1>1. Ring \in Nat /\ Ring > 0 /\ ids \subseteq Int /\ x \in Int
    BY RingAssumption, NodeAssumption DEF Id
  <1>2. ASSUME NEW a \in Int, NEW b \in Int PROVE (Forward(a, b) - 1) % Ring \in Nat
    <2>1. \A i \in Int : i % Ring \in 0 .. Ring - 1
      BY <1>1
    <2>2. Forward(a, b) \in Int
      BY <1>1, <2>1 DEF Forward
    <2> QED
      BY <2>1, <2>2
  <1>3. \E y \in ids : \A z \in ids : (Forward(x, y) - 1) % Ring <= (Forward(x, z) - 1) % Ring
    <2> DEFINE far(y) == (Forward(x, y) - 1) % Ring
               T == {far(y) : y \in ids}
    <2>1. \A y \in ids : far(y) \in Nat
      BY <1>1, <1>2
    <2> HIDE DEF far
    <2>2. T \subseteq Nat /\ T # {}
      BY <2>1
    <2>3. PICK i \in T : \A j \in T : i <= j
      BY <2>2, LeastNat
    <2>4. PICK y \in ids : i = far(y)
      OBVIOUS
    <2>5. \A z \in ids : far(y) <= far(z)
      BY <2>3, <2>4
    <2> QED
      BY <2>5 DEF far
  <1>4. \E y \in ids : \A z \in ids : (Forward(y, x) - 1) % Ring <= (Forward(z, x) - 1) % Ring
    <2> DEFINE far(y) == (Forward(y, x) - 1) % Ring
               T == {far(y) : y \in ids}
    <2>1. \A y \in ids : far(y) \in Nat
      BY <1>1, <1>2
    <2> HIDE DEF far
    <2>2. T \subseteq Nat /\ T # {}
      BY <2>1
    <2>3. PICK i \in T : \A j \in T : i <= j
      BY <2>2, LeastNat
    <2>4. PICK y \in ids : i = far(y)
      OBVIOUS
    <2>5. \A z \in ids : far(y) <= far(z)
      BY <2>3, <2>4
    <2> QED
      BY <2>5 DEF far
  <1> QED
    BY <1>3, <1>4 DEF FindNext, FindPrev

\* NodeItr.
Walks(ids) == [n : ids, p : ids, seq : Seq(ids)]

WalkStep(ids, start, v) ==
    LET n == v.n
        p == v.p
        seq == v.seq
    IN  IF n = p THEN [n |-> n, p |-> p, seq |-> Append(seq, p)]
        ELSE IF Dist(n, start) < Dist(p, start)
        THEN [n |-> FindNext(ids, n), p |-> p, seq |-> Append(seq, n)]
        ELSE [n |-> n, p |-> FindPrev(ids, p), seq |-> Append(seq, p)]

WalkStart(ids, start) ==
    LET n == FindNext(ids, start) IN [n |-> n, p |-> FindPrev(ids, n), seq |-> <<>>]

Walked(at, ids, start) ==
    at = [k \in 0 .. Cardinality(ids) |->
            IF k = 0 THEN WalkStart(ids, start) ELSE WalkStep(ids, start, at[k - 1])]

LEMMA WalkStepOK ==
  ASSUME NEW ids \in SUBSET Node, ids # {}, NEW start \in Id, NEW v \in Walks(ids)
  PROVE  WalkStep(ids, start, v) \in Walks(ids)
  <1>1. v.n \in ids /\ v.p \in ids /\ v.seq \in Seq(ids)
    BY DEF Walks
  <1>2. v.n \in Id /\ v.p \in Id
    BY <1>1, NodeAssumption
  <1>3. FindNext(ids, v.n) \in ids /\ FindPrev(ids, v.p) \in ids
    BY <1>2, NearestOK
  <1>4. Append(v.seq, v.n) \in Seq(ids) /\ Append(v.seq, v.p) \in Seq(ids)
    BY <1>1
  <1>5. /\ [n |-> v.n, p |-> v.p, seq |-> Append(v.seq, v.p)] \in Walks(ids)
        /\ [n |-> FindNext(ids, v.n), p |-> v.p, seq |-> Append(v.seq, v.n)] \in Walks(ids)
        /\ [n |-> v.n, p |-> FindPrev(ids, v.p), seq |-> Append(v.seq, v.p)] \in Walks(ids)
    BY <1>1, <1>3, <1>4 DEF Walks
  <1> QED
    BY <1>5 DEF WalkStep

LEMMA SomeNodesOK ==
  ASSUME NEW ids \in SUBSET Node, NEW start \in Id, ids # {}
  PROVE  NodeItr(ids, start) \in Seq(ids)
  <1> DEFINE K == Cardinality(ids)
             base == WalkStart(ids, start)
             V == Walks(ids)
             Step(k, v) == WalkStep(ids, start, v)
  <1>1. K \in Nat
    BY NodeAssumption, FS_Subset, FS_CardinalityType
  <1>2. base \in V
    <2>1. FindNext(ids, start) \in ids
      BY NearestOK
    <2>2. FindNext(ids, start) \in Id
      BY <2>1, NodeAssumption
    <2>3. FindPrev(ids, FindNext(ids, start)) \in ids
      BY <2>2, NearestOK
    <2>4. <<>> \in Seq(ids)
      OBVIOUS
    <2> QED
      BY <2>1, <2>3, <2>4 DEF WalkStart, Walks
  <1>3. ASSUME NEW k \in 1 .. K, NEW v \in V PROVE Step(k, v) \in V
    BY WalkStepOK
  <1> HIDE DEF base, V
  <1> DEFINE G == [z \in (1 .. K) \X V |-> Step(z[1], z[2])]
  <1> HIDE DEF Step
  <1>4. G \in Steps(K, V)
    BY <1>3 DEF Steps
  <1>5. \A k \in 1 .. K, v \in V : G[<<k, v>>] = Step(k, v)
    OBVIOUS
  <1> HIDE DEF G, K
  <1>6. PICK g : Unrolled(g, V, base, K, G)
    BY <1>1, <1>2, <1>4, Recursion
  <1>7. Walked(g, ids, start)
    <2>1. ASSUME NEW k \in 0 .. K PROVE g[k] = IF k = 0 THEN base ELSE Step(k, g[k - 1])
      <3>1. CASE k = 0
        BY <1>6, <3>1 DEF Unrolled
      <3>2. CASE k # 0
        <4>1. k \in 1 .. K /\ k - 1 \in 0 .. K
          BY <1>1, <3>2
        <4> QED
          BY <1>5, <1>6, <3>2, <4>1 DEF Unrolled
      <3> QED
        BY <3>1, <3>2
    <2>2. g = [k \in 0 .. K |-> IF k = 0 THEN base ELSE Step(k, g[k - 1])]
      BY <1>6, <2>1 DEF Unrolled
    <2> QED
      BY <2>2 DEF Walked, Step, K, base
  <1> DEFINE at == CHOOSE f : Walked(f, ids, start)
  <1>8. Walked(at, ids, start)
    BY <1>7
  <1>9. NodeItr(ids, start) = IF ids = {} THEN <<>> ELSE at[K].seq
    BY DEF NodeItr, Walked, WalkStart, WalkStep, K
  <1> HIDE DEF at
  <1>10. at[0] = base /\ \A k \in 1 .. K : at[k] = Step(k, at[k - 1])
    <2>1. at = [k \in 0 .. K |-> IF k = 0 THEN base ELSE Step(k, at[k - 1])]
      BY <1>8 DEF Walked, Step, K, base
    <2> QED
      BY <1>1, <2>1
  <1> DEFINE T == {k \in 0 .. K : at[k] \in V}
  <1>11. \A k \in 0 .. K : k \in T
    <2>1. 0 \in T
      <3>1. 0 \in 0 .. K
        BY <1>1
      <3>2. at[0] \in V
        BY <1>2, <1>10
      <3> QED
        BY <3>1, <3>2
    <2>2. ASSUME NEW k \in 1 .. K, k - 1 \in T PROVE k \in T
      <3>1. at[k - 1] \in V
        BY <2>2
      <3>2. Step(k, at[k - 1]) \in V
        BY <1>3, <3>1
      <3>3. at[k] \in V
        BY <1>10, <3>2
      <3>4. k \in 0 .. K
        BY <1>1
      <3> QED
        BY <3>3, <3>4
    <2> HIDE DEF T
    <2> QED
      BY <1>1, <2>1, <2>2, UpTo
  <1>12. at[K] \in V
    BY <1>1, <1>11
  <1> QED
    BY <1>9, <1>12 DEF Walks, V

LEMMA NodeItrOK ==
  ASSUME NEW ids \in SUBSET Node, NEW start \in Id
  PROVE  NodeItr(ids, start) \in Seq(ids)
  <1>1. CASE ids = {}
    BY <1>1 DEF NodeItr
  <1>2. CASE ids # {}
    BY <1>2, SomeNodesOK
  <1> QED
    BY <1>1, <1>2

\* The best route is the route of a good candidate, if there is one.
Chosen(map, costs, path) == path # <<>> => \E x \in Node : costs[x].good /\ path = map.graph[x].path

Costs(costs) == {NotGood} \cup {costs[x] : x \in Node}

Choices(map, costs) == {b \in [cost : Costs(costs), path : Seq(Node)] : Chosen(map, costs, b.path)}

BestStep(map, seq, costs, k, b) ==
    LET cost == costs[seq[k]]
    IN  IF cost.good /\ (~b.cost.good \/ Cheaper(cost, b.cost))
        THEN [cost |-> cost, path |-> map.graph[seq[k]].path]
        ELSE b

Bests(best, map, seq, costs) ==
    best = [k \in 0 .. Len(seq) |->
              IF k = 0 THEN [cost |-> NotGood, path |-> <<>>]
              ELSE BestStep(map, seq, costs, k, best[k - 1])]

LEMMA BestOK ==
  ASSUME NEW map \in Tables, NEW seq \in Seq(Node), NEW costs
  PROVE  Best(map, seq, costs) \in Choices(map, costs)
  <1> DEFINE K == Len(seq)
             base == [cost |-> NotGood, path |-> <<>>]
             V == Choices(map, costs)
             Step(k, b) == BestStep(map, seq, costs, k, b)
  <1>1. K \in Nat /\ \A k \in 1 .. K : seq[k] \in Node
    OBVIOUS
  <1>2. base \in V
    BY DEF Choices, Costs, Chosen
  <1>3. ASSUME NEW k \in 1 .. K, NEW b \in V PROVE Step(k, b) \in V
    <2> DEFINE x == seq[k]
               new == [cost |-> costs[x], path |-> map.graph[x].path]
    <2>1. x \in Node
      BY <1>1
    <2>2. Step(k, b) = IF costs[x].good /\ (~b.cost.good \/ Cheaper(costs[x], b.cost)) THEN new ELSE b
      BY DEF BestStep
    <2> HIDE DEF x
    <2>3. map.graph[x].path \in Seq(Node)
      BY <2>1, TableFields
    <2>4. costs[x].good => new \in V
      BY <2>1, <2>3 DEF Choices, Costs, Chosen
    <2> HIDE DEF V, new, Step
    <2> QED
      BY <2>2, <2>4
  <1> HIDE DEF base, V
  <1> DEFINE G == [z \in (1 .. K) \X V |-> Step(z[1], z[2])]
  <1> HIDE DEF Step
  <1>4. G \in Steps(K, V)
    BY <1>3 DEF Steps
  <1>5. \A k \in 1 .. K, v \in V : G[<<k, v>>] = Step(k, v)
    OBVIOUS
  <1> HIDE DEF G, K
  <1>6. PICK g : Unrolled(g, V, base, K, G)
    BY <1>1, <1>2, <1>4, Recursion
  <1>7. Bests(g, map, seq, costs)
    <2>1. ASSUME NEW k \in 0 .. K PROVE g[k] = IF k = 0 THEN base ELSE Step(k, g[k - 1])
      <3>1. CASE k = 0
        BY <1>6, <3>1 DEF Unrolled
      <3>2. CASE k # 0
        <4>1. k \in 1 .. K /\ k - 1 \in 0 .. K
          BY <1>1, <3>2
        <4> QED
          BY <1>5, <1>6, <3>2, <4>1 DEF Unrolled
      <3> QED
        BY <3>1, <3>2
    <2>2. g = [k \in 0 .. K |-> IF k = 0 THEN base ELSE Step(k, g[k - 1])]
      BY <1>6, <2>1 DEF Unrolled
    <2> QED
      BY <2>2 DEF Bests, Step, K, base
  <1> DEFINE best == CHOOSE f : Bests(f, map, seq, costs)
  <1>8. Bests(best, map, seq, costs)
    BY <1>7
  <1>9. Best(map, seq, costs) = best[K]
    BY DEF Best, Bests, BestStep, K
  <1> HIDE DEF best
  <1>10. best[0] = base /\ \A k \in 1 .. K : best[k] = Step(k, best[k - 1])
    <2>1. best = [k \in 0 .. K |-> IF k = 0 THEN base ELSE Step(k, best[k - 1])]
      BY <1>8 DEF Bests, Step, K, base
    <2> QED
      BY <1>1, <2>1
  <1> DEFINE T == {k \in 0 .. K : best[k] \in V}
  <1>11. \A k \in 0 .. K : k \in T
    <2>1. 0 \in T
      <3>1. 0 \in 0 .. K
        BY <1>1
      <3>2. best[0] \in V
        BY <1>2, <1>10
      <3> QED
        BY <3>1, <3>2
    <2>2. ASSUME NEW k \in 1 .. K, k - 1 \in T PROVE k \in T
      <3>1. best[k - 1] \in V
        BY <2>2
      <3>2. Step(k, best[k - 1]) \in V
        BY <1>3, <3>1
      <3>3. best[k] \in V
        BY <1>10, <3>2
      <3>4. k \in 0 .. K
        BY <1>1
      <3> QED
        BY <3>3, <3>4
    <2> HIDE DEF T
    <2> QED
      BY <1>1, <2>1, <2>2, UpTo
  <1>12. best[K] \in V
    BY <1>1, <1>11
  <1> QED
    BY <1>9, <1>12 DEF V

LEMMA BestRouteOK ==
  ASSUME NEW n \in Node, NEW map \in Tables, NEW dst \in Id
  PROVE  GetBestRoute(n, map, dst).path \in Seq(Node)
  <1> DEFINE costs == [via \in Node |-> RttPbVia(n, dst, via, map.graph[via].rtt)]
             seq == NodeItr(Others(n, map), dst)
  <1>1. Others(n, map) \in SUBSET Node
    BY DEF Others
  <1>2. seq \in Seq(Node)
    <2>1. seq \in Seq(Others(n, map))
      BY <1>1, NodeItrOK
    <2> HIDE DEF seq
    <2> QED
      BY <1>1, <2>1
  <1>3. GetBestRoute(n, map, dst) = Best(map, seq, costs)
    BY DEF GetBestRoute
  <1> HIDE DEF costs, seq
  <1>4. GetBestRoute(n, map, dst) \in Choices(map, costs)
    BY <1>2, <1>3, BestOK
  <1> QED
    BY <1>4 DEF Choices

\* A route to the nearest node ends at a node that is in the range, and is not excluded.
LEMMA RangeRouteOK ==
  ASSUME NEW n \in Node, NEW map \in Tables, NEW dst \in Id, NEW exclude, NEW range
  PROVE  LET path == GetRouteByRange(n, map, dst, exclude, range).path
         IN  /\ path \in Seq(Node)
             /\ path # <<>> => /\ path[Len(path)] \notin exclude
                               /\ range # NoRange => InRange(path[Len(path)], range)
  <1> DEFINE Eligible(x) == x \notin exclude /\ (range # NoRange => InRange(x, range))
             costs == [via \in Node |-> IF Eligible(via)
                                        THEN RttPbViaFuzzy(n, dst, via, map.graph[via].rtt)
                                        ELSE NotGood]
             seq == NodeItr(Others(n, map), dst)
             path == GetRouteByRange(n, map, dst, exclude, range).path
  <1>1. Others(n, map) \in SUBSET Node
    BY DEF Others
  <1>2. seq \in Seq(Node)
    <2>1. seq \in Seq(Others(n, map))
      BY <1>1, NodeItrOK
    <2> HIDE DEF seq
    <2> QED
      BY <1>1, <2>1
  <1>3. GetRouteByRange(n, map, dst, exclude, range) = Best(map, seq, costs)
    BY DEF GetRouteByRange
  <1>4. \A x \in Node : costs[x].good => Eligible(x)
    BY DEF NotGood
  <1> HIDE DEF costs, seq
  <1>5. GetRouteByRange(n, map, dst, exclude, range) \in Choices(map, costs)
    BY <1>2, <1>3, BestOK
  <1>6. path \in Seq(Node) /\ Chosen(map, costs, path)
    BY <1>5 DEF Choices
  <1>7. ASSUME path # <<>> PROVE Eligible(path[Len(path)])
    <2>1. PICK x \in Node : costs[x].good /\ path = map.graph[x].path
      BY <1>6, <1>7 DEF Chosen
    <2>2. RouteTo(path, x)
      BY <2>1, TableFields
    <2> HIDE DEF path
    <2>3. path[Len(path)] = x
      BY <1>7, <2>2 DEF RouteTo
    <2> QED
      BY <1>4, <2>1, <2>3
  <1> QED
    BY <1>6, <1>7


\* The range narrows round the destination.
LEMMA NextRangeOK ==
  ASSUME NEW to \in Int, NEW next \in Int, next # to, NEW range,
         range # NoRange => /\ range.min \in Int /\ range.max \in Int
                            /\ InRange(to, range) /\ InRange(next, range)
  PROVE  /\ NextRange(range, to, next).min \in Int /\ NextRange(range, to, next).max \in Int
         /\ InRange(to, NextRange(range, to, next))
  <1> DEFINE new == NextRange(range, to, next)
             upper == [min |-> next, max |-> range.max]
             lower == [min |-> range.min, max |-> next]
             both == [min |-> next, max |-> next]
             Right == new.min \in Int /\ new.max \in Int /\ InRange(to, new)
  <1>1. CASE range = NoRange
    <2>1. new = both
      BY <1>1 DEF NextRange
    <2>2. InRange(to, both)
      BY DEF InRange
    <2>3. Right
      <3> HIDE DEF new
      <3> QED
        BY <2>1, <2>2
    <2> QED
      BY <2>3
  <1>2. CASE range # NoRange
    <2>1. CASE InRange(to, upper)
      <3>1. new = upper
        BY <1>2, <2>1 DEF NextRange
      <3>2. Right
        <4> HIDE DEF new
        <4> QED
          BY <1>2, <2>1, <3>1
      <3> QED
        BY <3>2
    <2>2. CASE ~InRange(to, upper)
      <3>1. new = lower
        BY <1>2, <2>2 DEF NextRange
      <3>2. InRange(to, lower)
        <4> DEFINE a == range.min
                   b == range.max
        <4>1. /\ a \in Int /\ b \in Int
              /\ IF a >= b THEN to > a \/ to < b ELSE to > a /\ to < b
              /\ IF a >= b THEN next > a \/ next < b ELSE next > a /\ next < b
              /\ ~(IF next >= b THEN to > next \/ to < b ELSE to > next /\ to < b)
          BY <1>2, <2>2 DEF InRange
        <4>2. InRange(to, lower) <=> IF a >= next THEN to > a \/ to < next ELSE to > a /\ to < next
          BY DEF InRange
        <4> HIDE DEF a, b, lower
        <4> QED
          BY <4>1, <4>2
      <3>3. Right
        <4> HIDE DEF new
        <4> QED
          BY <1>2, <3>1, <3>2
      <3> QED
        BY <3>3
    <2> QED
      BY <2>1, <2>2
  <1> QED
    BY <1>1, <1>2

\* What is said of a route of a message to the nearest node.
Leads(m, path) ==
    m.fuzzy => /\ path[Len(path)] # m.to
               /\ m.range # NoRange => InRange(path[Len(path)], m.range)

LEMMA WrapOK ==
  ASSUME NEW n \in Node, NEW r, RouterOK(n, r), NEW m, MessageOK(m),
         NEW path \in Seq(Node), path # <<>>, Leads(m, path)
  PROVE  /\ MessageOK(Wrap(n, r, m, path)) /\ Wrap(n, r, m, path).from = m.from
         /\ To0(Wrap(n, r, m, path)) = Head(path)
  <1> DEFINE next == Head(path)
             far == Len(path) > 1
             range == IF m.fuzzy /\ ~far THEN NextRange(m.range, m.to, next) ELSE m.range
             rest == Tail(path)
             layer == [from |-> n, to |-> next, rtt |-> ChannelRtt(r, next)]
             rt == IF far THEN rest ELSE <<>>
             rtts == IF far THEN BuildRttArray(n, r.map, rest) ELSE <<>>
             w == [m EXCEPT !.hops = Append(@, layer), !.rt = rt, !.rtts = rtts, !.range = range]
  <1>1. /\ Len(path) \in Nat /\ Len(path) > 0 /\ next = path[1] /\ next \in Node
        /\ far => /\ rest \in Seq(Node) /\ rest # <<>>
                  /\ rest[Len(rest)] = path[Len(path)]
        /\ ~far => next = path[Len(path)]
    OBVIOUS
  <1>2. /\ DOMAIN m = Fields /\ m.from \in Node /\ m.to \in Id /\ m.hops \in Seq(Layers)
        /\ m.type # "ack" => IsSeq(m.acks)
        /\ m.fuzzy => Aimed(m.to, m.range, m.rt)
    BY DEF MessageOK
  <1>3. layer \in Layers
    <2>1. ChannelRtt(r, next) \in Nat
      BY <1>1, RouterAssumption DEF RouterOK, ChannelRtt
    <2> QED
      BY <1>1, <2>1 DEF Layers
  <1>4. rt \in Seq(Node) /\ rtts \in Seq(Nat) /\ Len(rtts) = Len(rt)
    <2>1. CASE far
      <3>1. /\ BuildRttArray(n, r.map, rest) \in Seq(Nat)
            /\ Len(BuildRttArray(n, r.map, rest)) = Len(rest)
        BY <1>1, <2>1, BuildRttArrayOK DEF RouterOK
      <3> HIDE DEF rest
      <3> QED
        BY <1>1, <2>1, <3>1
    <2>2. CASE ~far
      BY <2>2
    <2> QED
      BY <2>1, <2>2
  <1>5. ASSUME m.fuzzy PROVE Aimed(m.to, range, rt)
    <2>1. Aimed(m.to, m.range, m.rt)
      BY <1>2, <1>5
    <2>2. m.to \in Int /\ \A x \in Node : x \in Int
      BY <1>2, NodeAssumption, RingAssumption DEF Id
    <2>3. CASE far
      <3>1. range = m.range /\ rt = rest
        BY <2>3
      <3> HIDE DEF range, rt, rest
      <3> QED
        BY <1>1, <1>5, <2>1, <2>3, <3>1 DEF Aimed, Leads
    <2>4. CASE ~far
      <3>1. range = NextRange(m.range, m.to, next) /\ rt = <<>>
        BY <1>5, <2>4
      <3>2. next # m.to /\ (m.range # NoRange => InRange(next, m.range))
        BY <1>1, <1>5, <2>4 DEF Leads
      <3> HIDE DEF range, rt, next, rest
      <3>3. /\ NextRange(m.range, m.to, next).min \in Int
            /\ NextRange(m.range, m.to, next).max \in Int
            /\ InRange(m.to, NextRange(m.range, m.to, next))
        BY <1>1, <2>1, <2>2, <3>2, NextRangeOK DEF Aimed
      <3> QED
        BY <3>1, <3>3 DEF Aimed
    <2> QED
      BY <2>3, <2>4
  <1>6. Wrap(n, r, m, path) = IF m.hops = <<>> /\ range = NoRange /\ ~far /\ next = m.to THEN m ELSE w
    BY DEF Wrap
  <1> HIDE DEF next, far, range, rest, layer, rt, rtts
  <1>7. /\ DOMAIN w = Fields /\ w.from = m.from /\ w.to = m.to /\ w.type = m.type
        /\ w.acks = m.acks /\ w.fuzzy = m.fuzzy
        /\ w.hops = Append(m.hops, layer) /\ w.rt = rt /\ w.rtts = rtts /\ w.range = range
    BY <1>2 DEF Fields
  <1> HIDE DEF w
  <1>8. MessageOK(w) /\ To0(w) = next
    <2>1. /\ w.hops \in Seq(Layers) /\ w.hops # <<>>
          /\ w.hops[Len(w.hops)] = layer
      BY <1>2, <1>3, <1>7
    <2>2. layer.to = next
      BY DEF layer
    <2> QED
      BY <1>2, <1>4, <1>5, <1>7, <2>1, <2>2 DEF MessageOK, To0
  <1>9. m.hops = <<>> /\ next = m.to => To0(m) = next
    BY DEF To0
  <1>10. Wrap(n, r, m, path) = m \/ Wrap(n, r, m, path) = w
    BY <1>6
  <1> QED
    BY <1>6, <1>7, <1>8, <1>9 DEF next


LEMMA FuzzyPathOK ==
  ASSUME NEW n \in Node, NEW r, RouterOK(n, r), NEW P, NEW m, MessageOK(m), m.fuzzy,
         FuzzyPath(n, r, P, m) # <<>>
  PROVE  FuzzyPath(n, r, P, m) \in Seq(Node) /\ Leads(m, FuzzyPath(n, r, P, m))
  <1>1. /\ m.to \in Id /\ m.rt \in Seq(Node) /\ Aimed(m.to, m.range, m.rt) /\ r.map \in Tables
    BY DEF MessageOK, RouterOK
  <1>2. CASE m.rt # <<>>
    BY <1>1, <1>2 DEF FuzzyPath, Aimed, Leads
  <1>3. CASE m.rt = <<>>
    <2> DEFINE path == GetRouteByRange(n, r.map, m.to, {m.from, m.to}, m.range).path
    <2>1. FuzzyPath(n, r, P, m) = path
      BY <1>3 DEF FuzzyPath
    <2>2. /\ path \in Seq(Node)
          /\ path # <<>> => /\ path[Len(path)] \notin {m.from, m.to}
                            /\ m.range # NoRange => InRange(path[Len(path)], m.range)
      BY <1>1, RangeRouteOK
    <2> HIDE DEF path
    <2> QED
      BY <2>1, <2>2 DEF Leads
  <1> QED
    BY <1>2, <1>3

LEMMA ExactPathOK ==
  ASSUME NEW n \in Node, NEW r, RouterOK(n, r), NEW P \in SUBSET Node, NEW m, MessageOK(m),
         Usable(P, ExactPath(n, r, P, m))
  PROVE  ExactPath(n, r, P, m) \in Seq(Node)
  <1> DEFINE best == GetBestRoute(n, r.map, m.to)
             kept == RttPbVia(n, m.to, m.rt[Len(m.rt)], CalcPathRtt(n, r.map, m.rt))
  <1>1. m.rt \in Seq(Node) /\ best.path \in Seq(Node)
    BY BestRouteOK DEF MessageOK, RouterOK
  <1>2. CASE m.cmd = "connect"
    <2>1. ExactPath(n, r, P, m) = <<m.to>>
      BY <1>2 DEF ExactPath
    <2>2. m.to \in Node
      BY <2>1 DEF Usable
    <2> QED
      BY <2>1, <2>2
  <1>3. CASE m.cmd # "connect" /\ Usable(P, m.rt)
    <2>1. ExactPath(n, r, P, m) = KeepRoute(P, m, best, kept)
      BY <1>3 DEF ExactPath
    <2> HIDE DEF best, kept
    <2> QED
      BY <1>1, <2>1 DEF KeepRoute
  <1>4. CASE ~(m.cmd = "connect") /\ ~(m.cmd # "connect" /\ Usable(P, m.rt))
    <2>1. ExactPath(n, r, P, m) = best.path
      BY <1>4 DEF ExactPath
    <2> HIDE DEF best
    <2> QED
      BY <1>1, <2>1
  <1> QED
    BY <1>2, <1>3, <1>4

\* send_prepare: a message that goes on goes to a neighbour, as it may.
LEMMA PrepareOK ==
  ASSUME NEW n \in Node, NEW r, RouterOK(n, r), NEW P \in SUBSET Node, NEW m, MessageOK(m)
  PROVE  LET o == SendPrepare(n, r, P, m)
         IN  \/ o.next = NoNode /\ o.m = m
             \/ o.next \in P /\ SentMessage(o.m)
  <1> DEFINE o == SendPrepare(n, r, P, m)
             none == [next |-> NoNode, m |-> m, vv |-> FALSE]
             path == IF m.fuzzy THEN FuzzyPath(n, r, P, m) ELSE ExactPath(n, r, P, m)
             stays == [next |-> NoNode, m |-> m, vv |-> m.fuzzy /\ m.rt = <<>>]
             goes == [next |-> Head(path), m |-> Wrap(n, r, m, path), vv |-> FALSE]
  <1>1. o = IF Len(m.hops) >= MaxHops THEN none ELSE IF Usable(P, path) THEN goes ELSE stays
    BY DEF SendPrepare, Over
  <1>2. none.next = NoNode /\ none.m = m /\ stays.next = NoNode /\ stays.m = m
    OBVIOUS
  <1>3. goes.next = Head(path) /\ goes.m = Wrap(n, r, m, path)
    OBVIOUS
  <1>4. ASSUME Usable(P, path) PROVE path \in Seq(Node) /\ path # <<>> /\ Leads(m, path)
    <2>1. path # <<>>
      BY <1>4 DEF Usable
    <2>2. CASE m.fuzzy
      <3>1. path = FuzzyPath(n, r, P, m)
        BY <2>2
      <3> HIDE DEF path
      <3> QED
        BY <2>1, <2>2, <3>1, FuzzyPathOK
    <2>3. CASE ~m.fuzzy
      <3>1. path = ExactPath(n, r, P, m)
        BY <2>3
      <3> HIDE DEF path
      <3>2. path \in Seq(Node)
        BY <1>4, <3>1, ExactPathOK
      <3> QED
        BY <2>1, <2>3, <3>2 DEF Leads
    <2> QED
      BY <2>2, <2>3
  <1> HIDE DEF o, none, stays, goes, path
  <1>5. ASSUME Usable(P, path) PROVE goes.next \in P /\ SentMessage(goes.m)
    <2>1. /\ MessageOK(Wrap(n, r, m, path)) /\ To0(Wrap(n, r, m, path)) = Head(path)
      BY <1>4, <1>5, WrapOK
    <2>2. Head(path) \in P
      BY <1>5 DEF Usable
    <2> QED
      BY <1>3, <2>1, <2>2 DEF SentMessage
  <1>6. \/ o.next = NoNode /\ o.m = m
        \/ o.next \in P /\ SentMessage(o.m)
    BY <1>1, <1>2, <1>5
  <1> QED
    BY <1>6 DEF o

-----------------------------------------------------------------------------
\* What a step of the router of n leaves behind.

SendsOK(out, P) == IsSeq(out) /\ \A f \in Listed(out) : f[1] \in P /\ SentMessage(f[2])

StepOK(n, d, P) == RouterOK(n, d.r) /\ SendsOK(d.out, P)

LEMMA SendsNoneOK ==
  ASSUME NEW P
  PROVE  SendsOK(<<>>, P)
  BY EmptyListed DEF SendsOK

LEMMA SendsOneOK ==
  ASSUME NEW P, NEW x \in P, NEW m, SentMessage(m)
  PROVE  SendsOK(<<<<x, m>>>>, P)
  <1> DEFINE f == <<x, m>>
  <1>1. f[1] = x /\ f[2] = m
    OBVIOUS
  <1> HIDE DEF f
  <1>2. Listed(<<f>>) = {f} /\ IsSeq(<<f>>)
    BY OneListed
  <1>3. SendsOK(<<f>>, P)
    BY <1>1, <1>2 DEF SendsOK
  <1> QED
    BY <1>3 DEF f

LEMMA SendsBothOK ==
  ASSUME NEW P, NEW v, NEW w, SendsOK(v, P), SendsOK(w, P)
  PROVE  SendsOK(v \o w, P)
  <1>1. IsSeq(v \o w) /\ Listed(v \o w) \subseteq Listed(v) \cup Listed(w)
    BY ConcatListed DEF SendsOK
  <1> QED
    BY <1>1 DEF SendsOK

LEMMA ThenOK ==
  ASSUME NEW n, NEW P, NEW d, NEW e, SendsOK(d.out, P), StepOK(n, e, P)
  PROVE  StepOK(n, Then(d, e), P)
  <1>1. SendsOK(d.out \o e.out, P)
    BY SendsBothOK DEF StepOK
  <1>2. Then(d, e).r = e.r /\ Then(d, e).out = d.out \o e.out
    BY DEF Then
  <1> QED
    BY <1>1, <1>2 DEF StepOK

LEMMA DoneOK ==
  ASSUME NEW n, NEW P, NEW r, RouterOK(n, r)
  PROVE  StepOK(n, Done(r), P)
  <1>1. Done(r).r = r /\ Done(r).out = <<>>
    BY DEF Done
  <1> QED
    BY <1>1, SendsNoneOK DEF StepOK

\* A message of n itself: it waits, or is sent.
LEMMA QueueOK ==
  ASSUME NEW n, NEW r, NEW m, RouterOK(n, r), OwnMessage(n, m)
  PROVE  RouterOK(n, [r EXCEPT !.queue = Append(@, m)])
  <1> DEFINE R == [r EXCEPT !.queue = Append(@, m)]
  <1>1. DOMAIN r = {"map", "rtt", "queue", "seqs", "reqs"}
    BY DEF RouterOK
  <1>2. /\ DOMAIN R = DOMAIN r /\ R.queue = Append(r.queue, m)
        /\ R.map = r.map /\ R.rtt = r.rtt /\ R.seqs = r.seqs
    BY <1>1
  <1> HIDE DEF R
  <1>3. Grown(r.queue, r.queue, {m})
    BY GrownSelf DEF RouterOK
  <1>4. Grown(r.queue, R.queue, {m})
    BY <1>2, <1>3, GrownAppend
  <1>5. IsSeq(R.queue) /\ \A x \in Listed(R.queue) : OwnMessage(n, x)
    BY <1>4 DEF Grown, RouterOK
  <1>6. RouterOK(n, R)
    BY <1>2, <1>5 DEF RouterOK
  <1> QED
    BY <1>6 DEF R

LEMMA SendOK ==
  ASSUME NEW n \in Node, NEW r, NEW P \in SUBSET Node, NEW m, RouterOK(n, r), OwnMessage(n, m)
  PROVE  StepOK(n, Send(n, r, P, m), P)
  <1>1. CASE P = {}
    <2> DEFINE R == [r EXCEPT !.queue = Append(@, m)]
    <2>1. RouterOK(n, R)
      BY QueueOK
    <2>2. Send(n, r, P, m) = Done(R)
      BY <1>1 DEF Send
    <2> HIDE DEF R
    <2> QED
      BY <2>1, <2>2, DoneOK
  <1>2. CASE P # {}
    <2> DEFINE o == SendPrepare(n, r, P, m)
               d == SendOver(n, r, P, m, o)
               R == Track(n, r, P, o.m)
    <2>1. \/ o.next = NoNode /\ o.m = m
          \/ o.next \in P /\ SentMessage(o.m)
      BY PrepareOK DEF OwnMessage
    <2>2. Send(n, r, P, m) = d
      BY <1>2 DEF Send
    <2>3. /\ d.r = R /\ d.out = IF o.next # NoNode THEN <<<<o.next, o.m>>>> ELSE <<>>
      BY DEF SendOver
    <2> HIDE DEF o, d
    <2>4. MessageOK(o.m) /\ (From0(o.m) = n \/ To0(o.m) \in Node)
      BY <2>1 DEF OwnMessage, SentMessage, From0
    <2>5. RouterOK(n, R)
      BY <2>4, TrackOK
    <2>6. SendsOK(d.out, P)
      BY <2>1, <2>3, SendsNoneOK, SendsOneOK
    <2> HIDE DEF R
    <2>7. StepOK(n, d, P)
      BY <2>3, <2>5, <2>6 DEF StepOK
    <2> QED
      BY <2>2, <2>7
  <1> QED
    BY <1>1, <1>2


\* A message as it is written.
LEMMA WrittenOK ==
  ASSUME NEW n \in Node, NEW to \in Id, NEW type, NEW cmd, NEW req, NEW seq, NEW fuzzy, NEW acks,
         type # "ack" => IsSeq(acks)
  PROVE  OwnMessage(n, Message(n, to, type, cmd, req, seq, fuzzy, acks))
  <1> DEFINE m == Message(n, to, type, cmd, req, seq, fuzzy, acks)
  <1>1. /\ DOMAIN m = Fields /\ m.from = n /\ m.to = to /\ m.type = type /\ m.acks = acks
        /\ m.hops = <<>> /\ m.rt = <<>> /\ m.rtts = <<>> /\ m.range = NoRange
    BY DEF Message, Fields
  <1> HIDE DEF m
  <1>2. Aimed(m.to, m.range, m.rt)
    BY <1>1 DEF Aimed
  <1>3. /\ m.hops \in Seq(Layers) /\ m.rt \in Seq(Node) /\ m.rtts \in Seq(Nat)
        /\ Len(m.rtts) = Len(m.rt)
    BY <1>1
  <1>4. OwnMessage(n, m)
    BY <1>1, <1>2, <1>3 DEF OwnMessage, MessageOK
  <1> QED
    BY <1>4 DEF m

LEMMA AckOK ==
  ASSUME NEW n \in Node, NEW m, NEW to \in Node, NEW vv \in BOOLEAN
  PROVE  OwnMessage(n, Ack(n, m, to, vv)) /\ SentMessage(Ack(n, m, to, vv))
  <1> DEFINE w == Message(n, to, "ack", "", m.req, m.seq, FALSE, <<>>)
             a == [w EXCEPT !.dir = TypeToDir(m.type), !.vv = vv]
  <1>1. to \in Id
    BY NodeAssumption
  <1>2. OwnMessage(n, w)
    BY <1>1, WrittenOK
  <1>3. w.to = to /\ w.type = "ack"
    BY DEF Message
  <1>4. Ack(n, m, to, vv) = a
    BY DEF Ack
  <1> HIDE DEF w
  <1>5. DOMAIN w = Fields
    BY <1>2 DEF OwnMessage, MessageOK
  <1>6. /\ DOMAIN a = Fields /\ a.from = w.from /\ a.to = w.to /\ a.type = w.type
        /\ a.hops = w.hops /\ a.rt = w.rt /\ a.rtts = w.rtts /\ a.range = w.range
        /\ a.fuzzy = w.fuzzy /\ a.acks = w.acks
    BY <1>5 DEF Fields
  <1> HIDE DEF a
  <1>7. OwnMessage(n, a)
    BY <1>2, <1>6 DEF OwnMessage, MessageOK
  <1>8. SentMessage(a)
    BY <1>3, <1>6, <1>7 DEF OwnMessage, SentMessage, To0
  <1> QED
    BY <1>4, <1>7, <1>8

LEMMA DeliverOK ==
  ASSUME NEW n \in Node, NEW r, NEW P \in SUBSET Node, NEW channel \in P, NEW m,
         RouterOK(n, r), MessageOK(m)
  PROVE  StepOK(n, Deliver(n, r, P, channel, m), P)
  <1> DEFINE ack == Ack(n, m, m.from, TRUE)
             e == AckArrived(n, r, P, channel, m, ack)
             d == [r |-> r, out |-> <<>>, up |-> {m}]
  <1>1. Deliver(n, r, P, channel, m) = Then(d, e)
    BY DEF Deliver
  <1>2. OwnMessage(n, ack) /\ SentMessage(ack)
    BY AckOK DEF MessageOK
  <1> HIDE DEF ack
  <1>3. StepOK(n, e, P)
    <2>1. CASE m.type = "ack"
      <3>1. e = Done(r)
        BY <2>1 DEF AckArrived
      <3> HIDE DEF e
      <3> QED
        BY <3>1, DoneOK
    <2>2. CASE m.type # "ack" /\ m.from = channel
      <3> DEFINE f == [r |-> Track(n, r, P, ack), out |-> <<<<channel, ack>>>>, up |-> {}]
      <3>1. e = f
        BY <2>2 DEF AckArrived
      <3>2. RouterOK(n, Track(n, r, P, ack))
        BY <1>2, TrackOK DEF SentMessage
      <3>3. SendsOK(<<<<channel, ack>>>>, P)
        BY <1>2, SendsOneOK
      <3>4. f.r = Track(n, r, P, ack) /\ f.out = <<<<channel, ack>>>>
        OBVIOUS
      <3> HIDE DEF e, f
      <3> QED
        BY <3>1, <3>2, <3>3, <3>4 DEF StepOK
    <2>3. CASE m.type # "ack" /\ m.from # channel
      <3>1. e = Send(n, r, P, ack)
        BY <2>3 DEF AckArrived
      <3> HIDE DEF e
      <3> QED
        BY <1>2, <3>1, SendOK
    <2> QED
      BY <2>1, <2>2, <2>3
  <1>4. d.out = <<>>
    OBVIOUS
  <1> HIDE DEF d, e
  <1>5. SendsOK(d.out, P)
    BY <1>4, SendsNoneOK
  <1> QED
    BY <1>1, <1>3, <1>5, ThenOK

LEMMA ForwardOK ==
  ASSUME NEW n \in Node, NEW r, NEW P \in SUBSET Node, NEW channel \in P, NEW m, NEW o,
         RouterOK(n, r), o.next # NoNode => o.next \in P /\ SentMessage(o.m)
  PROVE  StepOK(n, ForwardOver(n, r, m, channel, o), P)
  <1> DEFINE ack == Ack(n, m, channel, FALSE)
             v == IF o.next # NoNode THEN <<<<o.next, o.m>>>> ELSE <<>>
             w == IF m.type # "ack" THEN <<<<channel, ack>>>> ELSE <<>>
             d == ForwardOver(n, r, m, channel, o)
  <1>1. SendsOK(v, P)
    BY SendsNoneOK, SendsOneOK
  <1>2. SendsOK(w, P)
    <2>1. SentMessage(ack)
      BY AckOK
    <2> HIDE DEF ack
    <2> QED
      BY <2>1, SendsNoneOK, SendsOneOK
  <1>3. d.r = r /\ d.out = v \o w
    BY DEF ForwardOver
  <1> HIDE DEF d, v, w
  <1>4. SendsOK(d.out, P)
    BY <1>1, <1>2, <1>3, SendsBothOK
  <1>5. StepOK(n, d, P)
    BY <1>3, <1>4 DEF StepOK
  <1> QED
    BY <1>5 DEF d

LEMMA OnMsgOK ==
  ASSUME NEW n \in Node, NEW r0, NEW P \in SUBSET Node, NEW channel \in P, NEW m,
         RouterOK(n, r0), SentMessage(m)
  PROVE  StepOK(n, OnMsg(n, r0, P, channel, m), P)
  <1> DEFINE r == Track(n, LearnConn(n, r0, m), P, m)
             d == OnMsg(n, r0, P, channel, m)
  <1>0. SUFFICES StepOK(n, d, P)
    OBVIOUS
  <1>1. MessageOK(m) /\ To0(m) \in Node
    BY DEF SentMessage
  <1>2. RouterOK(n, r)
    BY <1>1, LearnOK, TrackOK
  <1>3. d = Seen(n, r, P, channel, m)
    BY DEF OnMsg
  <1> HIDE DEF d, r
  <1>4. CASE m.rt = <<>> /\ m.to = n
    <2>1. d = Deliver(n, r, P, channel, m)
      BY <1>3, <1>4 DEF Seen
    <2> QED
      BY <1>1, <1>2, <2>1, DeliverOK
  <1>5. CASE ~(m.rt = <<>> /\ m.to = n)
    <2> DEFINE o == SendPrepare(n, r, P, m)
    <2>1. \/ o.next = NoNode /\ o.m = m
          \/ o.next \in P /\ SentMessage(o.m)
      BY <1>1, <1>2, PrepareOK
    <2>2. d = PassOn(n, r, P, channel, m, o)
      BY <1>3, <1>5 DEF Seen
    <2> HIDE DEF o
    <2>3. CASE o.vv
      <3> DEFINE q == Track(n, r, P, m)
      <3>1. d = Deliver(n, q, P, channel, m)
        BY <2>2, <2>3 DEF PassOn
      <3>2. RouterOK(n, q)
        BY <1>1, <1>2, TrackOK
      <3> HIDE DEF q
      <3> QED
        BY <1>1, <3>1, <3>2, DeliverOK
    <2>4. CASE ~o.vv
      <3> DEFINE q == Track(n, r, P, o.m)
      <3>1. d = ForwardOver(n, q, m, channel, o)
        BY <2>2, <2>4 DEF PassOn
      <3>2. RouterOK(n, q)
        BY <1>1, <1>2, <2>1, TrackOK DEF SentMessage
      <3> HIDE DEF q
      <3> QED
        BY <2>1, <3>1, <3>2, ForwardOK
    <2> QED
      BY <2>3, <2>4
  <1> QED
    BY <1>4, <1>5

LEMMA ChannelAddedOK ==
  ASSUME NEW n \in Node, NEW r, NEW P \in SUBSET Node, NEW x \in Node, RouterOK(n, r)
  PROVE  StepOK(n, OnChannelAdded(n, r, P, x), P)
  <1> DEFINE map == UpdateConn(n, r.map, n, x, DefRtt, TRUE)
             rtt == [r.rtt EXCEPT ![x] = NoConn]
             R == [r EXCEPT !.map = UpdateConn(n, r.map, n, x, DefRtt, TRUE),
                            !.rtt[x] = NoConn, !.queue = <<>>]
             start == Done(R)
             K == Len(r.queue)
             at == CHOOSE g : Flushes(g, K, n, r, P, start)
  <1>1. /\ IsSeq(r.queue) /\ \A m \in Listed(r.queue) : OwnMessage(n, m)
        /\ DOMAIN r = {"map", "rtt", "queue", "seqs", "reqs"}
        /\ r.map \in Tables /\ r.rtt \in [Node -> Nat]
    BY DEF RouterOK
  <1>2. K \in Nat /\ DOMAIN r.queue = 1 .. K
    BY <1>1 DEF IsSeq
  <1>3. Flushes(at, K, n, r, P, start)
    BY <1>2, FlushesExist
  <1>4. OnChannelAdded(n, r, P, x) = at[K]
    BY DEF OnChannelAdded, Flushes
  <1>5. StepOK(n, start, P)
    <2>1. map \in Tables
      BY <1>1, UpdateConnOK, RouterAssumption
    <2>2. rtt \in [Node -> Nat]
      BY <1>1 DEF NoConn
    <2>3. /\ DOMAIN R = DOMAIN r /\ R.map = map /\ R.rtt = rtt /\ R.queue = <<>>
          /\ R.seqs = r.seqs
      BY <1>1
    <2> HIDE DEF R, map, rtt
    <2>4. RouterOK(n, R)
      BY <2>1, <2>2, <2>3, EmptyListed DEF RouterOK
    <2> QED
      BY <2>4, DoneOK
  <1> HIDE DEF at, start, R, map, rtt
  <1> DEFINE T == {k \in 0 .. K : StepOK(n, at[k], P)}
  <1>6. 0 \in T
    <2>1. 0 \in 0 .. K
      BY <1>2
    <2>2. at[0] = start
      BY <1>3, <2>1 DEF Flushes
    <2> HIDE DEF K
    <2> QED
      BY <1>5, <2>1, <2>2
  <1>7. ASSUME NEW k \in 1 .. K, k - 1 \in T PROVE k \in T
    <2>1. k \in 0 .. K /\ k # 0 /\ k \in DOMAIN r.queue
      BY <1>2
    <2> DEFINE d == at[k - 1]
               m == r.queue[k]
    <2>2. StepOK(n, d, P)
      BY <1>7
    <2>3. at[k] = Then(d, Send(n, d.r, P, m))
      BY <1>3, <2>1 DEF Flushes
    <2>4. OwnMessage(n, m)
      BY <1>1, <2>1 DEF Listed
    <2> HIDE DEF d, m
    <2>5. StepOK(n, Send(n, d.r, P, m), P)
      BY <2>2, <2>4, SendOK DEF StepOK
    <2>6. StepOK(n, Then(d, Send(n, d.r, P, m)), P)
      BY <2>2, <2>5, ThenOK DEF StepOK
    <2> HIDE DEF K
    <2> QED
      BY <2>1, <2>3, <2>6
  <1> HIDE DEF K, T
  <1>8. K \in T
    BY <1>2, <1>6, <1>7, UpTo
  <1>9. StepOK(n, at[K], P)
    BY <1>8 DEF T
  <1> QED
    BY <1>4, <1>9

LEMMA GreetOK ==
  ASSUME NEW n \in Node, NEW m \in Node, NEW s, NEW P \in SUBSET Node, NEW d, StepOK(n, d, P)
  PROVE  StepOK(n, Greet(n, m, s, P, d), P)
  <1> DEFINE w == Message(n, m, "req", "connect", <<n, s>>, 0, FALSE, <<>>)
  <1>1. OwnMessage(n, w)
    BY NodeAssumption, EmptyListed, WrittenOK
  <1>2. Greet(n, m, s, P, d) = Then(d, Send(n, d.r, P, w))
    BY DEF Greet
  <1> HIDE DEF w
  <1>3. StepOK(n, Send(n, d.r, P, w), P)
    BY <1>1, SendOK DEF StepOK
  <1> QED
    BY <1>2, <1>3, ThenOK DEF StepOK


-----------------------------------------------------------------------------
(* build_rtt_graph.  Nodes leave the queue in the order of their times, and  *)
(* no connection of a node that has left makes a route shorter.              *)

Nodes(n, map) == Others(n, map) \cup {n}

SettleStart(n, all) ==
    [queue |-> all,
     graph |-> [x \in Node |-> CASE x = n -> [rtt |-> 0, path |-> <<>>]
                                 [] x \in all \ {n} -> [rtt |-> Infinite, path |-> <<>>]
                                 [] OTHER -> NoRoute]]

Nearest(q, g) == CHOOSE x \in q : \A y \in q : g[x].rtt <= g[y].rtt

\* The route to x over next, and whether it is shorter.
ByWayOf(map, g, next, x) == g[next].rtt + map.conn[{next, x}]
Shortens(map, g, next, x) ==
    /\ x # next /\ map.conn[{next, x}] # NoConn
    /\ ByWayOf(map, g, next, x) < g[x].rtt
Onward(map, g, next, x) == [rtt |-> ByWayOf(map, g, next, x), path |-> Append(g[next].path, x)]

Relax(map, all, g, next) ==
    [x \in Node |-> IF x \in all /\ Shortens(map, g, next, x) THEN Onward(map, g, next, x) ELSE g[x]]

SettleStep(map, all, v) ==
    [queue |-> v.queue \ {Nearest(v.queue, v.graph)},
     graph |-> Relax(map, all, v.graph, Nearest(v.queue, v.graph))]

Settles(at, K, n, map, all) ==
    at = [k \in 0 .. K |-> IF k = 0 THEN SettleStart(n, all) ELSE SettleStep(map, all, at[k - 1])]

LEMMA SettlesExist ==
  ASSUME NEW n, NEW map, NEW all, NEW K \in Nat
  PROVE  \E at : Settles(at, K, n, map, all)
  <1> DEFINE Bad == {j \in Nat : ~ \E at : Settles(at, j, n, map, all)}
             start == SettleStart(n, all)
  <1>1. SUFFICES ASSUME Bad # {} PROVE FALSE
    BY <1>1
  <1>2. PICK j \in Bad : \A i \in Bad : j <= i
    <2>1. Bad \subseteq Nat
      OBVIOUS
    <2> HIDE DEF Bad
    <2> QED
      BY <1>1, <2>1, LeastNat
  <1>3. j \in Nat /\ ~ \E at : Settles(at, j, n, map, all)
    OBVIOUS
  <1>4. CASE j = 0
    <2> DEFINE at == [k \in 0 .. 0 |-> start]
    <2>1. \A k \in 0 .. 0 : k = 0
      OBVIOUS
    <2>2. Settles(at, 0, n, map, all)
      BY <2>1 DEF Settles
    <2> QED
      BY <1>3, <1>4, <2>2
  <1>5. CASE j # 0
    <2>1. j - 1 \in Nat /\ j - 1 \notin Bad
      BY <1>2, <1>3, <1>5
    <2>2. PICK g : Settles(g, j - 1, n, map, all)
      BY <2>1
    <2> DEFINE Step(k, v) == IF k = 0 THEN start ELSE SettleStep(map, all, v)
               h == [k \in 0 .. j |-> IF k \in 0 .. j - 1 THEN g[k] ELSE Step(k, g[k - 1])]
    <2>3. \A k \in 0 .. j - 1 : g[k] = Step(k, g[k - 1])
      BY <2>2 DEF Settles
    <2>4. ASSUME NEW k \in 0 .. j PROVE h[k] = Step(k, h[k - 1])
      <3>1. CASE k = 0
        BY <3>1, <2>1, <2>3
      <3>2. CASE k # 0
        <4>1. k - 1 \in 0 .. j - 1 /\ k - 1 \in 0 .. j
          BY <3>2, <1>3
        <4>2. h[k - 1] = g[k - 1]
          BY <4>1
        <4>3. h[k] = Step(k, g[k - 1])
          <5> HIDE DEF Step
          <5> QED
            BY <2>3
        <4> HIDE DEF h, Step
        <4> QED
          BY <4>2, <4>3
      <3> QED
        BY <3>1, <3>2
    <2>5. h = [k \in 0 .. j |-> Step(k, h[k - 1])]
      <3>1. \A k \in 0 .. j : h[k] = Step(k, h[k - 1])
        BY <2>4
      <3>2. h = [k \in 0 .. j |-> h[k]]
        OBVIOUS
      <3> HIDE DEF h, Step
      <3> QED
        BY <3>1, <3>2
    <2>6. Settles(h, j, n, map, all)
      BY <2>5 DEF Settles
    <2> QED
      BY <1>3, <2>6
  <1> QED
    BY <1>4, <1>5

\* A route that has been found, and its time.
Found(n, map, x, route) ==
    IF x = n THEN route.rtt = 0 /\ route.path = <<>>
    ELSE route.rtt < Infinite => /\ route.path # <<>>
                                 /\ CalcPathRtt(n, map, route.path) = route.rtt

Routes(n, map, all) ==
    {g \in [Node -> [rtt : Int, path : Seq(Node)]] :
        /\ \A x \in Node : RouteTo(g[x].path, x)
        /\ \A x \in all : g[x].rtt \in Nat /\ g[x].rtt <= Infinite /\ Found(n, map, x, g[x])}

\* No connection of x makes a route shorter.
Relaxed(map, all, g, x) ==
    \A y \in all : x # y /\ map.conn[{x, y}] # NoConn => g[y].rtt <= g[x].rtt + map.conn[{x, y}]

Settled(n, map, all, k, v) ==
    /\ v.queue \subseteq all /\ Cardinality(v.queue) = Cardinality(all) - k
    /\ v.graph \in Routes(n, map, all)
    /\ \A x \in all \ v.queue : /\ \A y \in v.queue : v.graph[x].rtt <= v.graph[y].rtt
                                /\ Relaxed(map, all, v.graph, x)

LEMMA NodesFinite ==
  ASSUME NEW n \in Node, NEW map
  PROVE  /\ Nodes(n, map) \subseteq Node /\ IsFiniteSet(Nodes(n, map))
         /\ Cardinality(Nodes(n, map)) \in Nat
  <1>1. Nodes(n, map) \subseteq Node
    BY DEF Nodes, Others
  <1>2. IsFiniteSet(Nodes(n, map))
    BY <1>1, NodeAssumption, FS_Subset
  <1> QED
    BY <1>1, <1>2, FS_CardinalityType

LEMMA SettleStarts ==
  ASSUME NEW n \in Node, NEW map, NEW all \in SUBSET Node, n \in all, Cardinality(all) \in Nat
  PROVE  Settled(n, map, all, 0, SettleStart(n, all))
  <1> DEFINE v == SettleStart(n, all)
             g == [x \in Node |-> CASE x = n -> [rtt |-> 0, path |-> <<>>]
                                    [] x \in all \ {n} -> [rtt |-> Infinite, path |-> <<>>]
                                    [] OTHER -> NoRoute]
  <1>1. v.queue = all /\ v.graph = g
    BY DEF SettleStart
  <1>2. ASSUME NEW x \in Node
        PROVE  /\ g[x] \in [rtt : Int, path : Seq(Node)] /\ g[x].path = <<>>
               /\ x = n => g[x].rtt = 0
               /\ x # n /\ x \in all => g[x].rtt = Infinite
    <2>1. Infinite \in Int /\ NoRoute \in [rtt : Int, path : Seq(Node)] /\ NoRoute.path = <<>>
      BY DEF Infinite, NoRoute, NoRtt
    <2>2. CASE x = n
      BY <2>2
    <2>3. CASE x \in all \ {n}
      BY <2>1, <2>3
    <2>4. CASE x \notin all \ {n} /\ x # n
      <3>1. g[x] = NoRoute
        BY <2>4
      <3> HIDE DEF g
      <3> QED
        BY <2>1, <2>4, <3>1
    <2> QED
      BY <2>2, <2>3, <2>4
  <1>3. g \in [Node -> [rtt : Int, path : Seq(Node)]]
    <2>1. g = [x \in Node |-> g[x]]
      OBVIOUS
    <2> HIDE DEF g
    <2> QED
      BY <1>2, <2>1
  <1> HIDE DEF g, v
  <1>4. g \in Routes(n, map, all)
    <2>1. \A x \in Node : RouteTo(g[x].path, x)
      BY <1>2 DEF RouteTo
    <2>2. ASSUME NEW x \in all PROVE g[x].rtt \in Nat /\ g[x].rtt <= Infinite /\ Found(n, map, x, g[x])
      <3>1. CASE x = n
        BY <1>2, <3>1 DEF Found, Infinite
      <3>2. CASE x # n
        <4>1. g[x].rtt = Infinite
          BY <1>2, <3>2
        <4> QED
          BY <3>2, <4>1 DEF Found, Infinite
      <3> QED
        BY <3>1, <3>2
    <2> QED
      BY <1>3, <2>1, <2>2 DEF Routes
  <1>5. Settled(n, map, all, 0, v)
    BY <1>1, <1>4 DEF Settled
  <1> QED
    BY <1>5 DEF v

LEMMA NearestIn ==
  ASSUME NEW q, q # {}, NEW g, \A x \in q : g[x].rtt \in Nat
  PROVE  Nearest(q, g) \in q /\ \A y \in q : g[Nearest(q, g)].rtt <= g[y].rtt
  <1> DEFINE far(x) == g[x].rtt
             T == {far(x) : x \in q}
  <1>1. \A x \in q : far(x) \in Nat
    OBVIOUS
  <1>2. \E z \in q : \A y \in q : far(z) <= far(y)
    <2> HIDE DEF far
    <2>1. T \subseteq Nat /\ T # {}
      BY <1>1
    <2>2. PICK i \in T : \A j \in T : i <= j
      BY <2>1, LeastNat
    <2>3. PICK x \in q : i = far(x)
      OBVIOUS
    <2>4. \A y \in q : far(x) <= far(y)
      BY <2>2, <2>3
    <2> QED
      BY <2>4
  <1> QED
    BY <1>2 DEF Nearest

LEMMA RouteFields ==
  ASSUME NEW n, NEW map, NEW all, NEW g \in Routes(n, map, all)
  PROVE  /\ g \in [Node -> [rtt : Int, path : Seq(Node)]]
         /\ \A x \in Node : RouteTo(g[x].path, x)
         /\ \A x \in all : g[x].rtt \in Nat /\ g[x].rtt <= Infinite /\ Found(n, map, x, g[x])
  BY DEF Routes

\* A route that is made shorter is one that has been found.
LEMMA OnwardOK ==
  ASSUME NEW n \in Node, NEW map \in Tables, NEW all \in SUBSET Node,
         NEW g \in Routes(n, map, all), NEW next \in all, NEW x \in all,
         Shortens(map, g, next, x)
  PROVE  LET new == Onward(map, g, next, x)
         IN  /\ new \in [rtt : Int, path : Seq(Node)] /\ RouteTo(new.path, x)
             /\ new.rtt \in Nat /\ new.rtt <= Infinite /\ Found(n, map, x, new)
  <1> DEFINE path == Append(g[next].path, x)
             time == ByWayOf(map, g, next, x)
             new == Onward(map, g, next, x)
             last == IF g[next].path = <<>> THEN n ELSE g[next].path[Len(g[next].path)]
  <1>1. x \in Node /\ next \in Node
    OBVIOUS
  <1>2. /\ g[next].path \in Seq(Node) /\ RouteTo(g[next].path, next)
        /\ g[next].rtt \in Nat /\ Found(n, map, next, g[next])
        /\ g[x].rtt \in Nat /\ g[x].rtt <= Infinite /\ Found(n, map, x, g[x])
    BY <1>1, RouteFields
  <1>3. path \in Seq(Node) /\ path # <<>> /\ path[Len(path)] = x
    BY <1>1, <1>2
  <1>4. /\ x # next /\ map.conn[{next, x}] # NoConn /\ time < g[x].rtt
        /\ time = g[next].rtt + map.conn[{next, x}]
    BY DEF Shortens, ByWayOf
  <1>5. map.conn[{next, x}] \in Nat
    BY <1>1, PairOf, TableFields
  <1>6. new.rtt = time /\ new.path = path /\ new = [rtt |-> time, path |-> path]
    BY DEF Onward
  <1>7. CalcPathRtt(n, map, path) = CalcPathRtt(n, map, g[next].path) + ConnRtt(map, last, x)
    BY <1>1, <1>2, CalcPathRttAppend
  <1> HIDE DEF path, time, new
  <1>8. time \in Nat /\ time <= Infinite /\ g[next].rtt < Infinite /\ x # n
    <2>1. time \in Nat /\ time <= Infinite /\ g[next].rtt < Infinite
      BY <1>2, <1>4, <1>5 DEF Infinite
    <2>2. x = n => g[x].rtt = 0
      BY <1>2 DEF Found
    <2> QED
      BY <1>4, <2>1, <2>2
  <1>9. CalcPathRtt(n, map, g[next].path) = g[next].rtt /\ last = next
    <2>1. CASE next = n
      <3>1. g[next].rtt = 0 /\ g[next].path = <<>>
        BY <1>2, <2>1 DEF Found
      <3>2. CalcPathRtt(n, map, <<>>) = 0
        <4>1. <<>> \in Seq(Node) /\ Len(<<>>) = 0 /\ 0 \in 0 .. 0
          OBVIOUS
        <4>2. PICK sum : Sums(sum, n, map, <<>>) /\ CalcPathRtt(n, map, <<>>) = sum[Len(<<>>)]
          BY <4>1, CalcSum
        <4> QED
          BY <4>1, <4>2 DEF Sums
      <3> QED
        BY <2>1, <3>1, <3>2
    <2>2. CASE next # n
      BY <1>2, <1>8, <2>2 DEF Found, RouteTo
    <2> QED
      BY <2>1, <2>2
  <1> HIDE DEF last
  <1>10. ConnRtt(map, next, x) = map.conn[{next, x}]
    BY <1>4 DEF ConnRtt
  <1>11. CalcPathRtt(n, map, path) = time
    BY <1>4, <1>7, <1>9, <1>10
  <1>12. Found(n, map, x, new)
    BY <1>3, <1>6, <1>8, <1>11 DEF Found
  <1>13. new \in [rtt : Int, path : Seq(Node)]
    BY <1>3, <1>6, <1>8
  <1>14. RouteTo(new.path, x) /\ new.rtt \in Nat /\ new.rtt <= Infinite
    BY <1>3, <1>6, <1>8 DEF RouteTo
  <1> QED
    BY <1>12, <1>13, <1>14 DEF new

LEMMA RelaxTimes ==
  ASSUME NEW n \in Node, NEW map \in Tables, NEW all \in SUBSET Node,
         NEW g \in Routes(n, map, all), NEW next \in all, NEW x \in all
  PROVE  LET now == Relax(map, all, g, next)[x].rtt
             c == map.conn[{next, x}]
         IN  /\ now \in Nat /\ now <= g[x].rtt /\ g[x].rtt \in Nat /\ g[next].rtt \in Nat
             /\ c \in Nat
             /\ now = g[x].rtt \/ now = g[next].rtt + c
             /\ x # next /\ c # NoConn => now <= g[next].rtt + c
  <1> DEFINE h == Relax(map, all, g, next)
             c == map.conn[{next, x}]
             time == ByWayOf(map, g, next, x)
             yes == Shortens(map, g, next, x)
             new == Onward(map, g, next, x)
             now == h[x].rtt
  <1>1. x \in Node /\ next \in Node
    OBVIOUS
  <1>2. h[x] = IF yes THEN new ELSE g[x]
    BY <1>1 DEF Relax
  <1>3. new.rtt = time
    BY DEF Onward
  <1>4. yes <=> x # next /\ c # NoConn /\ time < g[x].rtt
    BY DEF Shortens
  <1>5. time = g[next].rtt + c
    BY DEF ByWayOf
  <1>6. g[x].rtt \in Nat /\ g[next].rtt \in Nat /\ c \in Nat
    BY <1>1, RouteFields, PairOf, TableFields
  <1> HIDE DEF h, c, time, yes, new
  <1>7. CASE yes
    <2>1. now = g[next].rtt + c /\ g[next].rtt + c < g[x].rtt
      BY <1>2, <1>3, <1>4, <1>5, <1>7
    <2> HIDE DEF now
    <2>2. /\ now \in Nat /\ now <= g[x].rtt /\ g[x].rtt \in Nat /\ g[next].rtt \in Nat
          /\ c \in Nat
          /\ now = g[x].rtt \/ now = g[next].rtt + c
          /\ x # next /\ c # NoConn => now <= g[next].rtt + c
      BY <1>6, <2>1
    <2> QED
      BY <2>2 DEF h, c, now
  <1>8. CASE ~yes
    <2>1. now = g[x].rtt /\ (x # next /\ c # NoConn => ~(g[next].rtt + c < g[x].rtt))
      BY <1>2, <1>4, <1>5, <1>8
    <2> HIDE DEF now
    <2>2. /\ now \in Nat /\ now <= g[x].rtt /\ g[x].rtt \in Nat /\ g[next].rtt \in Nat
          /\ c \in Nat
          /\ now = g[x].rtt \/ now = g[next].rtt + c
          /\ x # next /\ c # NoConn => now <= g[next].rtt + c
      BY <1>6, <2>1
    <2> QED
      BY <2>2 DEF h, c, now
  <1> QED
    BY <1>7, <1>8

LEMMA RelaxRoutes ==
  ASSUME NEW n \in Node, NEW map \in Tables, NEW all \in SUBSET Node,
         NEW g \in Routes(n, map, all), NEW next \in all
  PROVE  Relax(map, all, g, next) \in Routes(n, map, all)
  <1> DEFINE h == Relax(map, all, g, next)
             new(x) == Onward(map, g, next, x)
             yes(x) == x \in all /\ Shortens(map, g, next, x)
  <1>1. h = [x \in Node |-> IF yes(x) THEN new(x) ELSE g[x]]
    BY DEF Relax
  <1>2. /\ g \in [Node -> [rtt : Int, path : Seq(Node)]]
        /\ \A x \in Node : RouteTo(g[x].path, x)
        /\ \A x \in all : g[x].rtt \in Nat /\ g[x].rtt <= Infinite /\ Found(n, map, x, g[x])
    BY DEF Routes
  <1>3. ASSUME NEW x \in Node, yes(x)
        PROVE  /\ new(x) \in [rtt : Int, path : Seq(Node)] /\ RouteTo(new(x).path, x)
               /\ new(x).rtt \in Nat /\ new(x).rtt <= Infinite /\ Found(n, map, x, new(x))
    BY <1>3, OnwardOK
  <1> HIDE DEF h, new, yes
  <1>4. \A x \in Node : h[x] \in [rtt : Int, path : Seq(Node)]
    BY <1>1, <1>2, <1>3
  <1>5. h \in [Node -> [rtt : Int, path : Seq(Node)]]
    <2>1. h = [x \in Node |-> h[x]]
      BY <1>1
    <2> QED
      BY <1>4, <2>1
  <1>6. \A x \in Node : RouteTo(h[x].path, x)
    BY <1>1, <1>2, <1>3
  <1>7. \A x \in all : h[x].rtt \in Nat /\ h[x].rtt <= Infinite /\ Found(n, map, x, h[x])
    BY <1>1, <1>2, <1>3
  <1>8. h \in Routes(n, map, all)
    BY <1>5, <1>6, <1>7 DEF Routes
  <1> QED
    BY <1>8 DEF h

\* The nearest node leaves the queue, and may make other routes shorter.
LEMMA SettleNext ==
  ASSUME NEW n \in Node, NEW map \in Tables, NEW all \in SUBSET Node,
         IsFiniteSet(all), NEW K \in Nat, Cardinality(all) = K, NEW k \in 1 .. K, NEW v,
         Settled(n, map, all, k - 1, v)
  PROVE  Settled(n, map, all, k, SettleStep(map, all, v))
  <1> DEFINE q == v.queue
             g == v.graph
             next == Nearest(q, g)
             h == Relax(map, all, g, next)
             w == SettleStep(map, all, v)
  <1>1. w.queue = q \ {next} /\ w.graph = h
    BY DEF SettleStep
  <1>2. /\ q \subseteq all /\ Cardinality(q) = K - (k - 1)
        /\ g \in Routes(n, map, all)
        /\ \A x \in all \ q : /\ \A y \in q : g[x].rtt <= g[y].rtt
                              /\ Relaxed(map, all, g, x)
    BY DEF Settled
  <1> HIDE DEF w, q, g
  <1>3. q # {} /\ IsFiniteSet(q)
    <2>1. Cardinality(q) # 0
      BY <1>2
    <2> QED
      BY <1>2, <2>1, FS_EmptySet, FS_Subset
  <1>4. next \in q /\ \A y \in q : g[next].rtt <= g[y].rtt
    <2>1. \A x \in q : g[x].rtt \in Nat
      BY <1>2, RouteFields
    <2> QED
      BY <1>3, <2>1, NearestIn
  <1> HIDE DEF next
  <1>5. next \in all /\ g[next].rtt \in Nat
    BY <1>2, <1>4, RouteFields
  <1>6. h \in Routes(n, map, all)
    BY <1>2, <1>5, RelaxRoutes
  <1>7. ASSUME NEW x \in all
        PROVE  /\ h[x].rtt \in Nat /\ h[x].rtt <= g[x].rtt /\ g[x].rtt \in Nat
               /\ map.conn[{next, x}] \in Nat
               /\ h[x].rtt = g[x].rtt \/ h[x].rtt = g[next].rtt + map.conn[{next, x}]
               /\ x # next /\ map.conn[{next, x}] # NoConn =>
                      h[x].rtt <= g[next].rtt + map.conn[{next, x}]
    BY <1>2, <1>5, RelaxTimes
  <1> HIDE DEF h
  \* Who has left the queue is no farther than next.
  <1>8. ASSUME NEW x \in all \ (q \ {next})
        PROVE  h[x].rtt = g[x].rtt /\ g[x].rtt <= g[next].rtt /\ g[x].rtt \in Nat
    <2>1. g[x].rtt <= g[next].rtt
      <3>1. CASE x = next
        BY <1>5, <3>1
      <3>2. CASE x # next
        BY <1>2, <1>4, <3>2
      <3> QED
        BY <3>1, <3>2
    <2>2. /\ h[x].rtt \in Nat /\ h[x].rtt <= g[x].rtt /\ g[x].rtt \in Nat
          /\ map.conn[{next, x}] \in Nat
          /\ h[x].rtt = g[x].rtt \/ h[x].rtt = g[next].rtt + map.conn[{next, x}]
      BY <1>7
    <2> QED
      BY <1>5, <2>1, <2>2
  <1>9. ASSUME NEW x \in all \ (q \ {next}), NEW y \in q \ {next} PROVE h[x].rtt <= h[y].rtt
    <2>1. y \in all /\ g[next].rtt <= g[y].rtt
      BY <1>2, <1>4
    <2>2. /\ h[y].rtt \in Nat /\ g[y].rtt \in Nat /\ map.conn[{next, y}] \in Nat
          /\ h[y].rtt = g[y].rtt \/ h[y].rtt = g[next].rtt + map.conn[{next, y}]
      BY <1>7, <2>1
    <2>3. h[x].rtt = g[x].rtt /\ g[x].rtt <= g[next].rtt /\ g[x].rtt \in Nat
      BY <1>8
    <2> QED
      BY <1>5, <2>1, <2>2, <2>3
  <1>10. ASSUME NEW x \in all \ (q \ {next}) PROVE Relaxed(map, all, h, x)
    <2>1. ASSUME NEW y \in all, x # y, map.conn[{x, y}] # NoConn
          PROVE  h[y].rtt <= h[x].rtt + map.conn[{x, y}]
      <3>1. map.conn[{x, y}] \in Nat
        BY PairOf, TableFields
      <3>2. h[x].rtt = g[x].rtt /\ g[x].rtt \in Nat
        BY <1>8
      <3>3. /\ h[y].rtt <= g[y].rtt /\ h[y].rtt \in Nat /\ g[y].rtt \in Nat
            /\ y # next /\ map.conn[{next, y}] # NoConn =>
                   h[y].rtt <= g[next].rtt + map.conn[{next, y}]
        BY <1>7
      <3>4. CASE x = next
        BY <2>1, <3>2, <3>3, <3>4
      <3>5. CASE x # next
        <4>1. Relaxed(map, all, g, x)
          BY <1>2, <3>5
        <4>2. g[y].rtt <= g[x].rtt + map.conn[{x, y}]
          BY <2>1, <4>1 DEF Relaxed
        <4> QED
          BY <3>1, <3>2, <3>3, <4>2
      <3> QED
        BY <3>4, <3>5
    <2> QED
      BY <2>1 DEF Relaxed
  <1>11. q \ {next} \subseteq all /\ Cardinality(q \ {next}) = K - k
    <2>1. Cardinality(q \ {next}) = Cardinality(q) - 1
      BY <1>3, <1>4, FS_RemoveElement
    <2>2. k \in Int /\ K \in Int
      OBVIOUS
    <2> QED
      BY <1>2, <2>1, <2>2
  <1>12. Settled(n, map, all, k, w)
    BY <1>1, <1>6, <1>9, <1>10, <1>11 DEF Settled
  <1> QED
    BY <1>12 DEF w


LEMMA BuildRight ==
  ASSUME NEW n \in Node, NEW map \in Tables
  PROVE  /\ BuildRttGraph(n, map) \in Tables
         /\ BuildRttGraph(n, map).graph \in Routes(n, map, Nodes(n, map))
         /\ \A x \in Nodes(n, map) :
               Relaxed(map, Nodes(n, map), BuildRttGraph(n, map).graph, x)
  <1> DEFINE all == Nodes(n, map)
             K == Cardinality(all)
             at == CHOOSE f : Settles(f, K, n, map, all)
             graph == at[K].graph
             built == BuildRttGraph(n, map)
  <1>1. all \in SUBSET Node /\ IsFiniteSet(all) /\ K \in Nat /\ n \in all
    BY NodesFinite DEF Nodes
  <1>2. Settles(at, K, n, map, all)
    BY <1>1, SettlesExist
  <1>3. built = [map EXCEPT !.graph = graph, !.timer = FALSE]
    BY DEF BuildRttGraph, Settles, SettleStep, SettleStart, Nodes, Nearest, Relax, Shortens,
           Onward, ByWayOf
  <1> HIDE DEF all, K, at
  <1> DEFINE T == {k \in 0 .. K : Settled(n, map, all, k, at[k])}
  <1>4. 0 \in T
    <2>1. 0 \in 0 .. K
      BY <1>1
    <2>2. at[0] = SettleStart(n, all)
      BY <1>2, <2>1 DEF Settles
    <2>3. Settled(n, map, all, 0, SettleStart(n, all))
      BY <1>1, SettleStarts DEF K
    <2> QED
      BY <2>1, <2>2, <2>3
  <1>5. ASSUME NEW k \in 1 .. K, k - 1 \in T PROVE k \in T
    <2>1. k \in 0 .. K /\ k # 0
      BY <1>1
    <2>2. at[k] = SettleStep(map, all, at[k - 1])
      BY <1>2, <2>1 DEF Settles
    <2>3. Settled(n, map, all, k - 1, at[k - 1])
      BY <1>5
    <2>4. Settled(n, map, all, k, SettleStep(map, all, at[k - 1]))
      BY <1>1, <2>3, SettleNext DEF K
    <2> QED
      BY <2>1, <2>2, <2>4
  <1> HIDE DEF T
  <1>6. K \in T
    BY <1>1, <1>4, <1>5, UpTo
  <1>7. Settled(n, map, all, K, at[K])
    BY <1>6 DEF T
  <1>8. at[K].queue = {}
    <2>1. at[K].queue \subseteq all /\ Cardinality(at[K].queue) = K - K
      BY <1>7 DEF Settled, K
    <2>2. Cardinality(at[K].queue) = 0 /\ IsFiniteSet(at[K].queue)
      BY <1>1, <2>1, FS_Subset
    <2> QED
      BY <2>2, FS_EmptySet
  <1>9. graph \in Routes(n, map, all) /\ \A x \in all : Relaxed(map, all, graph, x)
    BY <1>7, <1>8 DEF Settled
  <1> HIDE DEF graph, built
  <1>10. graph \in [Node -> [rtt : Int, path : Seq(Node)]] /\ \A x \in Node : RouteTo(graph[x].path, x)
    BY <1>9 DEF Routes
  <1>11. built \in Tables /\ built.graph = graph
    BY <1>3, <1>10 DEF Tables
  <1> QED
    BY <1>9, <1>11 DEF built, all

\* Each route of the table that a pending timer will build is a walk of its length, and
\* no connection makes one shorter.
LEMMA TableHolds ==
  ASSUME RouteInv
  PROVE  TableRight
  <1> SUFFICES ASSUME NEW n \in {x \in Node : router[x].map.timer}
               PROVE  LET map == router[n].map
                          all == Others(n, map) \cup {n}
                          g == BuildRttGraph(n, map).graph
                      IN  /\ \A x \in Others(n, map) :
                                g[x].rtt < Infinite => /\ g[x].path[Len(g[x].path)] = x
                                                       /\ CalcPathRtt(n, map, g[x].path) = g[x].rtt
                          /\ \A x, y \in all : x # y /\ map.conn[{x, y}] # NoConn =>
                                                   g[y].rtt <= g[x].rtt + map.conn[{x, y}]
    BY DEF TableRight
  <1> DEFINE map == router[n].map
             all == Others(n, map) \cup {n}
             g == BuildRttGraph(n, map).graph
  <1>1. n \in Node /\ map \in Tables
    BY DEF RouteInv, RouterOK
  <1>2. all = Nodes(n, map)
    BY DEF Nodes
  <1> HIDE DEF map
  <1>3. g \in Routes(n, map, all) /\ \A x \in all : Relaxed(map, all, g, x)
    BY <1>1, <1>2, BuildRight
  <1>4. ASSUME NEW x \in Others(n, map), g[x].rtt < Infinite
        PROVE  g[x].path[Len(g[x].path)] = x /\ CalcPathRtt(n, map, g[x].path) = g[x].rtt
    <2>1. x \in Node /\ x # n /\ x \in all
      BY DEF Others
    <2> HIDE DEF g, all
    <2>2. Found(n, map, x, g[x]) /\ RouteTo(g[x].path, x)
      BY <1>3, <2>1, RouteFields
    <2> QED
      BY <1>4, <2>1, <2>2 DEF Found, RouteTo
  <1>5. ASSUME NEW x \in all, NEW y \in all, x # y, map.conn[{x, y}] # NoConn
        PROVE  g[y].rtt <= g[x].rtt + map.conn[{x, y}]
    BY <1>3, <1>5 DEF Relaxed
  <1> QED
    BY <1>4, <1>5 DEF map

LEMMA FuzzyHolds ==
  ASSUME RouteInv
  PROVE  FuzzyRange
  <1> SUFFICES ASSUME NEW s \in Socket, NEW n \in Node, NEW i \in DOMAIN wire[s][n],
                      wire[s][n][i][1] = "data", wire[s][n][i][2].fuzzy,
                      wire[s][n][i][2].range # NoRange
               PROVE  InRange(wire[s][n][i][2].to, wire[s][n][i][2].range)
    BY DEF FuzzyRange
  <1> DEFINE f == wire[s][n][i]
  <1>1. f \in Listed(wire[s][n])
    BY DEF Listed
  <1>2. FrameOK(f)
    BY <1>1 DEF RouteInv
  <1>3. Hello[1] # "data" /\ Bye[1] # "data"
    BY DEF Hello, Bye
  <1>4. PICK m : f = Data(m) /\ SentMessage(m)
    BY <1>2, <1>3 DEF FrameOK
  <1>5. f[2] = m
    BY <1>4 DEF Data
  <1> HIDE DEF f
  <1>6. m.fuzzy => Aimed(m.to, m.range, m.rt)
    BY <1>4 DEF SentMessage, MessageOK
  <1> QED
    BY <1>5, <1>6 DEF Aimed, f

-----------------------------------------------------------------------------
\* Every step keeps it.

\* A step of the router of n, with what its connections make of it.
LEMMA RouterStepOK ==
  ASSUME RouteInv, NEW n \in Node, NEW d, NEW P, DOMAIN router = Node,
         router' = [router EXCEPT ![n] = d.r], StepOK(n, d, P),
         Comes(wire, wire', d.out), todo' \subseteq todo
  PROVE  RouteInv'
  <1>1. ASSUME NEW x \in Node PROVE RouterOK(x, router'[x])
    BY DEF RouteInv, StepOK
  <1>2. ASSUME NEW s \in Socket, NEW x \in Node, NEW f \in Listed(wire'[s][x])
        PROVE  FrameOK(f)
    <2>1. CASE f \in Listed(wire[s][x])
      BY <2>1 DEF RouteInv
    <2>2. CASE f \in {Hello, Bye}
      BY <2>2 DEF FrameOK
    <2>3. CASE f \in Posted(d.out, x)
      <3>1. PICK g \in Listed(d.out) : g[1] = x /\ f = Data(g[2])
        BY <2>3 DEF Posted
      <3>2. SentMessage(g[2])
        BY DEF StepOK, SendsOK
      <3> QED
        BY <3>1, <3>2 DEF FrameOK
    <2> QED
      BY <2>1, <2>2, <2>3 DEF Comes
  <1>3. \A m \in todo', x \in Node : m.from = x => OwnMessage(x, m)
    BY DEF RouteInv
  <1> QED
    BY <1>1, <1>2, <1>3 DEF RouteInv

\* A step without messages.
LEMMA QuietStepOK ==
  ASSUME RouteInv, NEW n \in Node, NEW r, DOMAIN router = Node, RouterOK(n, r),
         router' = [router EXCEPT ![n] = Done(r).r], Comes(wire, wire', <<>>), todo' = todo
  PROVE  RouteInv'
  <1> DEFINE d == Done(r)
  <1>1. d.out = <<>>
    BY DEF Done
  <1>2. StepOK(n, d, {})
    BY DoneOK
  <1> HIDE DEF d
  <1>3. Comes(wire, wire', d.out) /\ router' = [router EXCEPT ![n] = d.r]
    BY <1>1 DEF d
  <1>4. todo' \subseteq todo
    OBVIOUS
  <1> QED
    BY <1>2, <1>3, <1>4, RouterStepOK

\* A step in which no router takes part.
LEMMA SameStepOK ==
  ASSUME RouteInv, router' = router, todo' = todo, Comes(wire, wire', <<>>)
  PROVE  RouteInv'
  <1>1. ASSUME NEW s \in Socket, NEW x \in Node, NEW f \in Listed(wire'[s][x])
        PROVE  FrameOK(f)
    <2>1. Posted(<<>>, x) = {}
      BY EmptyListed DEF Posted
    <2>2. f \in Listed(wire[s][x]) \/ f \in {Hello, Bye}
      BY <2>1 DEF Comes
    <2> QED
      BY <2>2 DEF RouteInv, FrameOK
  <1> QED
    BY <1>1 DEF RouteInv


LEMMA BuildTimerOK ==
  ASSUME NEW B, NetInv(B), RouteInv, NEW n \in Node, BuildTimer(n)
  PROVE  RouteInv'
  <1> DEFINE map == BuildRttGraph(n, router[n].map)
             r == OnBuildTimer(n, router[n])
  <1>1. router' = [router EXCEPT ![n] = Done(r).r] /\ wire' = wire /\ todo' = todo
    BY DEF BuildTimer, RouterStep
  <1>2. RouterOK(n, router[n]) /\ DOMAIN router = Node
    BY DEF RouteInv, NetInv
  <1>3. map \in Tables
    BY <1>2, BuildRight DEF RouterOK
  <1>4. /\ DOMAIN r = DOMAIN router[n] /\ r.map = map /\ r.rtt = router[n].rtt
        /\ r.queue = router[n].queue /\ r.seqs = router[n].seqs
    BY <1>2 DEF OnBuildTimer, RouterOK
  <1> HIDE DEF r, map
  <1>5. RouterOK(n, r)
    BY <1>2, <1>3, <1>4 DEF RouterOK
  <1>6. Comes(wire, wire', <<>>)
    BY <1>1, ComesSame
  <1> QED
    BY <1>1, <1>2, <1>5, <1>6, QuietStepOK

LEMMA DestroyNodeOK ==
  ASSUME NEW B, NetInv(B), RouteInv, NEW n \in Node, DestroyNode(n)
  PROVE  RouteInv'
  <1> DEFINE map == [router[n].map EXCEPT !.timer = FALSE]
             r == [router[n] EXCEPT !.map.timer = FALSE]
  <1>1. Stop(n) /\ todo' = todo /\ router' = [router EXCEPT ![n] = Done(r).r]
    BY DEF DestroyNode, Event, RouterStep
  <1>2. RouterOK(n, router[n]) /\ DOMAIN router = Node /\ ConnInv
    BY DEF RouteInv, NetInv
  <1>3. map \in Tables
    BY <1>2 DEF RouterOK, Tables
  <1>4. /\ DOMAIN r = DOMAIN router[n] /\ r.map = map /\ r.rtt = router[n].rtt
        /\ r.queue = router[n].queue /\ r.seqs = router[n].seqs
    BY <1>2 DEF RouterOK
  <1> HIDE DEF r, map
  <1>5. RouterOK(n, r)
    BY <1>2, <1>3, <1>4 DEF RouterOK
  <1>6. Comes(wire, wire', <<>>)
    BY <1>1, <1>2, StopStep
  <1> QED
    BY <1>1, <1>2, <1>5, <1>6, QuietStepOK

\* A channel that goes changes nothing of the router.
LEMMA ChannelGoesOK ==
  ASSUME NEW B, NetInv(B), RouteInv, NEW n \in Node, todo' = todo,
         router' = [router EXCEPT ![n] = Done(router[n]).r], Comes(wire, wire', <<>>)
  PROVE  RouteInv'
  <1>1. RouterOK(n, router[n]) /\ DOMAIN router = Node
    BY DEF RouteInv, NetInv
  <1> QED
    BY <1>1, QuietStepOK

LEMMA DialsOK ==
  ASSUME NEW B, NetInv(B), AskInv, RouteInv, NEW n \in Node, NEW m \in Node,
         Bootstrap(n, m) \/ AskAddress(n, m) \/ AddressComes(n, m) \/ GiveUp(n, m)
  PROVE  RouteInv'
  <1>0. ConnInv
    BY DEF NetInv
  <1>1. CASE Bootstrap(n, m)
    <2>1. Dial(n, m) /\ router' = router /\ todo' = todo
      BY <1>1 DEF Bootstrap
    <2>2. n # m /\ NewSocket(n, m) /\ peers' = peers /\ stopped' = stopped
      BY <2>1 DEF Dial
    <2>3. Comes(wire, wire', <<>>)
      BY <1>0, <2>2, NewSocketStep
    <2> QED
      BY <2>1, <2>3, SameStepOK
  <1>2. CASE AskAddress(n, m)
    <2>1. wire' = wire /\ router' = router /\ todo' = todo
      BY <1>2 DEF AskAddress, Connect
    <2> QED
      BY <2>1, ComesSame, SameStepOK
  <1>3. CASE AddressComes(n, m)
    <2>1. OnConnInfo(n, m) /\ router' = router /\ todo' = todo
      BY <1>3 DEF AddressComes
    <2>2. /\ peers' = peers /\ stopped' = stopped /\ m \in asked[n]
          /\ wire' = wire \/ NewSocket(n, m)
      BY <2>1 DEF OnConnInfo
    <2>3. n # m
      BY <2>2 DEF AskInv
    <2>4. Comes(wire, wire', <<>>)
      BY <1>0, <2>2, <2>3, NewSocketStep, ComesSame
    <2> QED
      BY <2>1, <2>4, SameStepOK
  <1>4. CASE GiveUp(n, m)
    <2>1. /\ Disconnect(n, m) /\ todo' = todo
          /\ router' = [router EXCEPT ![n] = Done(router[n]).r]
      BY <1>4 DEF GiveUp, RouterStep, OnChannelRemoved
    <2>2. Comes(wire, wire', <<>>)
      BY <1>0, <2>1, DisconnectStep
    <2> QED
      BY <2>1, <2>2, ChannelGoesOK
  <1> QED
    BY <1>1, <1>2, <1>3, <1>4

LEMMA MessageComesOK ==
  ASSUME NEW B, NetInv(B), RouteInv, NEW s \in Socket, NEW n \in ends[s], MessageComes(n, s)
  PROVE  RouteInv'
  <1> DEFINE m == Head(wire[s][n])[2]
             x == Other(s, n)
             P == Peers(n)
             d == OnMsg(n, router[n], P, x, m)
  <1>1. /\ wire[s][n] # <<>> /\ Head(wire[s][n])[1] = "data"
        /\ Receive(n, s, d.out)
        /\ router' = [router EXCEPT ![n] = d.r] /\ todo' = todo
    BY DEF MessageComes, MessageStep, NextFrame, Routed, RouterStep
  <1>2. ConnInv /\ DOMAIN router = Node
    BY DEF NetInv
  <1>3. /\ n \in Node /\ x \in Node /\ P \in SUBSET Node
        /\ x # n /\ ends[s] = {n, x}
    BY <1>2, OtherEnd DEF Peers
  <1>4. x \in P
    <2>1. chan[s][n] = "open"
      BY <1>1 DEF Receive
    <2>2. peers[n][x] = s
      BY <1>2, <1>3, <2>1 DEF ConnInv, Linked
    <2> QED
      BY <1>3, <2>2, ConnectionsAssumption DEF Peers
  <1>5. SentMessage(m)
    <2>1. Head(wire[s][n]) \in Listed(wire[s][n])
      BY <1>1, <1>2, <1>3, WiresSeq, TailListed DEF ConnInv, Shape
    <2>2. FrameOK(Head(wire[s][n]))
      BY <1>3, <2>1 DEF RouteInv
    <2>3. Hello[1] # "data" /\ Bye[1] # "data"
      BY DEF Hello, Bye
    <2>4. PICK w : Head(wire[s][n]) = Data(w) /\ SentMessage(w)
      BY <1>1, <2>2, <2>3 DEF FrameOK
    <2>5. Data(w)[2] = w
      BY DEF Data
    <2> QED
      BY <2>4, <2>5
  <1> HIDE DEF m, x, P
  <1>6. StepOK(n, d, P)
    BY <1>3, <1>4, <1>5, OnMsgOK DEF RouteInv
  <1> HIDE DEF d
  <1>7. Addressed(d.out, peers[n])
    BY <1>6 DEF StepOK, SendsOK, Addressed, Peers, P
  <1>8. Comes(wire, wire', d.out)
    BY <1>1, <1>2, <1>7, ReceiveStep
  <1>9. todo' \subseteq todo
    BY <1>1
  <1> QED
    BY <1>1, <1>2, <1>3, <1>6, <1>8, <1>9, RouterStepOK

LEMMA ChannelOpensOK ==
  ASSUME NEW B, NetInv(B), RouteInv, NEW s \in Socket, NEW n \in ends[s], ChannelOpens(n, s)
  PROVE  RouteInv'
  <1> DEFINE m == Other(s, n)
             P == Peers(n) \cup {m}
             d == Greet(n, m, s, P, OnChannelAdded(n, router[n], P, m))
             p == [peers[n] EXCEPT ![m] = s]
  <1>1. /\ Open(n, s, d.out)
        /\ router' = [router EXCEPT ![n] = d.r] /\ todo' = todo
    BY DEF ChannelOpens, ChannelStep, Routed, RouterStep
  <1>2. ConnInv /\ DOMAIN router = Node
    BY DEF NetInv
  <1>3. n \in Node /\ m \in Node
    BY <1>2, OtherEnd
  <1>4. P \in SUBSET Node
    BY <1>3 DEF Peers
  <1>5. Addressed(d.out, p) /\ StepOK(n, d, P)
    <2> HIDE DEF m, P
    <2>1. StepOK(n, OnChannelAdded(n, router[n], P, m), P)
      BY <1>3, <1>4, ChannelAddedOK DEF RouteInv
    <2>2. StepOK(n, d, P)
      BY <1>3, <1>4, <2>1, GreetOK
    <2> HIDE DEF d
    <2>3. ASSUME NEW y \in P PROVE y \in Node /\ p[y] # NoSocket
      <3>1. peers[n] \in [Node -> Socket \cup {NoSocket}]
        BY <1>2, <1>3 DEF ConnInv, Shape
      <3>2. CASE y = m
        BY <1>3, <3>1, <3>2, ConnectionsAssumption
      <3>3. CASE y # m
        <4>1. y \in Node /\ peers[n][y] # NoSocket
          BY <3>3 DEF P, Peers
        <4> QED
          BY <3>1, <3>3, <4>1
      <3> QED
        BY <3>2, <3>3
    <2> HIDE DEF p
    <2> QED
      BY <2>2, <2>3 DEF StepOK, SendsOK, Addressed
  <1>6. Comes(wire, wire', d.out)
    BY <1>1, <1>2, <1>5, OpenStep
  <1> HIDE DEF d, m, P, p
  <1>7. todo' \subseteq todo
    BY <1>1
  <1> QED
    BY <1>1, <1>2, <1>3, <1>5, <1>6, <1>7, RouterStepOK

LEMMA ApplicationOK ==
  ASSUME NEW B, NetInv(B), RouteInv, NEW n \in Node, Application(n)
  PROVE  RouteInv'
  <1>1. PICK m \in todo : /\ m.from = n
                          /\ SendStep(n, m, Send(n, router[n], Peers(n), m))
    BY DEF Application
  <1> DEFINE P == Peers(n)
             d == Send(n, router[n], P, m)
  <1>2. /\ Emit(n, d.out)
        /\ router' = [router EXCEPT ![n] = d.r] /\ todo' = todo \ {m}
    BY <1>1 DEF SendStep, Routed, RouterStep
  <1>3. ConnInv /\ DOMAIN router = Node
    BY DEF NetInv
  <1>4. P \in SUBSET Node
    BY DEF Peers
  <1> HIDE DEF P
  <1>5. OwnMessage(n, m) /\ RouterOK(n, router[n])
    BY <1>1 DEF RouteInv
  <1>6. StepOK(n, d, P)
    BY <1>4, <1>5, SendOK
  <1> HIDE DEF d
  <1>7. Addressed(d.out, peers[n])
    BY <1>6 DEF StepOK, SendsOK, Addressed, Peers, P
  <1>8. Comes(wire, wire', d.out)
    BY <1>2, <1>3, <1>7, EmitStep
  <1>9. todo' \subseteq todo
    BY <1>2
  <1> QED
    BY <1>2, <1>3, <1>6, <1>8, <1>9, RouterStepOK

LEMMA RouteNext ==
  ASSUME NEW B, NetInv(B), AskInv, RouteInv, [Next]_netVars
  PROVE  RouteInv'
  <1>1. ASSUME NEW n \in Node, NEW m \in Node,
               Bootstrap(n, m) \/ AskAddress(n, m) \/ AddressComes(n, m) \/ GiveUp(n, m)
        PROVE  RouteInv'
    BY <1>1, DialsOK
  <1>2. ASSUME NEW n \in Node, NEW s \in Socket, n \in ends[s],
               DuplicateDropped(n, s) \/ ChannelCloses(n, s)
        PROVE  RouteInv'
    <2>1. /\ Duplicate(n, s) \/ OnClose(n, s)
          /\ todo' = todo /\ router' = [router EXCEPT ![n] = Done(router[n]).r]
      BY <1>2 DEF DuplicateDropped, ChannelCloses, RouterStep, OnChannelRemoved
    <2>2. ConnInv
      BY DEF NetInv
    <2>3. Comes(wire, wire', <<>>)
      BY <1>2, <2>1, <2>2, DuplicateStep, OnCloseStep
    <2> QED
      BY <2>1, <2>3, ChannelGoesOK
  <1>3. ASSUME NEW n \in Node, NEW s \in Socket, n \in ends[s],
               ChannelOpens(n, s) \/ MessageComes(n, s)
        PROVE  RouteInv'
    BY <1>3, ChannelOpensOK, MessageComesOK
  <1>4. ASSUME NEW n \in Node, DestroyNode(n) \/ Application(n) \/ BuildTimer(n)
        PROVE  RouteInv'
    BY <1>4, DestroyNodeOK, ApplicationOK, BuildTimerOK
  <1>5. ASSUME UNCHANGED netVars PROVE RouteInv'
    <2>1. wire' = wire /\ router' = router /\ todo' = todo
      BY <1>5 DEF netVars
    <2> QED
      BY <2>1, ComesSame, SameStepOK
  <1> QED
    BY <1>1, <1>2, <1>3, <1>4, <1>5 DEF Next, Arrivals

-----------------------------------------------------------------------------
\* Where a network starts.
LEMMA LinkedRouterOK ==
  ASSUME NEW n \in Node, NEW links
  PROVE  RouterOK(n, LinkedRouter(n, links))
  <1> DEFINE to == {m \in Node \ {n} : {n, m} \in DOMAIN links}
             conn == [p \in Pairs |-> IF p \in DOMAIN links /\ n \in p THEN Delay[p] ELSE NoConn]
             graph == [m \in Node |-> IF m \in to
                                      THEN [rtt |-> conn[{n, m}], path |-> <<m>>]
                                      ELSE NoRoute]
             rtt == [m \in Node |-> IF m \in to THEN conn[{n, m}] ELSE NoConn]
             r == LinkedRouter(n, links)
  <1>1. conn \in [Pairs -> Nat]
    BY RouterAssumption DEF NoConn
  <1>2. r = [NewRouter EXCEPT !.map.conn = conn, !.map.graph = graph, !.rtt = rtt]
    BY DEF LinkedRouter
  <1> HIDE DEF conn, to
  <1>3. \A m \in Node : conn[{n, m}] \in Nat /\ conn[{n, m}] \in Int
    BY <1>1, PairOf
  <1>4. rtt \in [Node -> Nat]
    BY <1>3 DEF NoConn
  <1>5. ASSUME NEW m \in Node
        PROVE  graph[m] \in [rtt : Int, path : Seq(Node)] /\ RouteTo(graph[m].path, m)
    <2>1. CASE m \in to
      <3>1. graph[m] = [rtt |-> conn[{n, m}], path |-> <<m>>]
        BY <2>1
      <3> HIDE DEF graph
      <3>2. <<m>> \in Seq(Node) /\ RouteTo(<<m>>, m)
        BY DEF RouteTo
      <3> QED
        BY <1>3, <3>1, <3>2
    <2>2. CASE m \notin to
      <3>1. graph[m] = NoRoute
        BY <2>2
      <3> HIDE DEF graph
      <3> QED
        BY <3>1 DEF NoRoute, NoRtt, RouteTo
    <2> QED
      BY <2>1, <2>2
  <1>6. graph \in [Node -> [rtt : Int, path : Seq(Node)]]
    <2>1. graph = [m \in Node |-> graph[m]]
      OBVIOUS
    <2> HIDE DEF graph
    <2> QED
      BY <1>5, <2>1
  <1> HIDE DEF graph, rtt
  <1>7. /\ DOMAIN r = {"map", "rtt", "queue", "seqs", "reqs"}
        /\ r.map = [conn |-> conn, graph |-> graph, timer |-> FALSE]
        /\ r.rtt = rtt /\ r.queue = <<>> /\ r.seqs = <<>>
    <2> DEFINE map == [[EmptyMap EXCEPT !.conn = conn] EXCEPT !.graph = graph]
    <2>1. /\ DOMAIN r = {"map", "rtt", "queue", "seqs", "reqs"}
          /\ r.rtt = rtt /\ r.queue = <<>> /\ r.seqs = <<>>
      BY <1>2 DEF NewRouter
    <2>2. r.map = map
      <3> HIDE DEF r
      <3>1. NewRouter.map = EmptyMap
        BY DEF NewRouter
      <3> QED
        BY <1>2, <3>1 DEF NewRouter
    <2>3. /\ map.conn = conn /\ map.graph = graph /\ map.timer = FALSE
          /\ DOMAIN map = {"conn", "graph", "timer"}
      BY DEF EmptyMap
    <2>4. map = [f \in {"conn", "graph", "timer"} |-> map[f]]
      BY <2>3 DEF EmptyMap
    <2> QED
      BY <2>1, <2>2, <2>3, <2>4
  <1> HIDE DEF r
  <1>8. r.map \in Tables
    BY <1>1, <1>5, <1>6, <1>7, NewTable
  <1>9. DOMAIN <<>> = {}
    OBVIOUS
  <1>10. RouterOK(n, r)
    BY <1>4, <1>7, <1>8, <1>9, EmptyListed DEF RouterOK
  <1> QED
    BY <1>10 DEF r

LEMMA RouteStart ==
  ASSUME Init
  PROVE  RouteInv
  <1>1. PICK sc \in Scenarios : Start(sc.links, sc.down) /\ todo = sc.plan
    BY DEF Init
  <1>2. ASSUME NEW n \in Node PROVE RouterOK(n, router[n])
    <2>1. router[n] = LinkedRouter(n, sc.links)
      BY <1>1 DEF Start
    <2> QED
      BY <2>1, LinkedRouterOK
  <1>3. \A s \in Socket, x \in Node : Listed(wire[s][x]) = {}
    <2>1. wire = [s \in Socket |-> [n \in Node |-> <<>>]]
      BY <1>1 DEF Start
    <2>2. \A s \in Socket, x \in Node : wire[s][x] = <<>>
      BY <2>1
    <2> QED
      BY <2>2, EmptyListed
  <1>4. ASSUME NEW m \in todo, NEW n \in Node, m.from = n PROVE OwnMessage(n, m)
    <2>1. /\ m = Message(m.from, m.to, m.type, m.cmd, m.req, m.seq, m.fuzzy, m.acks)
          /\ m.to \in Id /\ m.acks \in Seq(Nat)
      BY <1>1, NetAssumption DEF ScenariosAssumption
    <2>2. IsSeq(m.acks)
      BY <2>1 DEF IsSeq
    <2>3. OwnMessage(n, Message(n, m.to, m.type, m.cmd, m.req, m.seq, m.fuzzy, m.acks))
      BY <2>1, <2>2, WrittenOK
    <2> QED
      BY <1>4, <2>1, <2>3
  <1> QED
    BY <1>2, <1>3, <1>4 DEF RouteInv

(* For any number of nodes, any plan of messages and whoever connects, gives up
   or ends: each route that build_rtt_graph makes of what a node has heard is a
   walk over its connections of just the time that is given for it, and no
   known connection makes one shorter (NodeMap.build_rtt_graph, node_map.js);
   and the range of a message to the nearest node, as it narrows from one node
   to the next, never loses the id it is for (Router.send_prepare, router.js). *)
THEOREM RoutesHold == Spec => []RoutesRight
  <1>1. Init => Inv /\ RouteInv
    BY InvStart, RouteStart
  <1>2. Inv /\ RouteInv /\ [Next]_netVars => RouteInv'
    BY RouteNext DEF Inv
  <1>3. Inv /\ [Next]_netVars => Inv'
    BY InvNext
  <1>4. RouteInv => RoutesRight
    BY TableHolds, FuzzyHolds DEF RoutesRight
  <1> QED
    BY <1>1, <1>2, <1>3, <1>4, PTL DEF Spec
=============================================================================
