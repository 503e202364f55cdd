----------------------------- MODULE NetProofs -----------------------------
(***************************************************************************)
(* What holds of the network for every set of nodes, every plan of the     *)
(* application and every order of frames, dials, disconnects and ends.     *)
(***************************************************************************)
EXTENDS Net, WellFoundedInduction, TLAPS

-----------------------------------------------------------------------------
\* Frames on a wire.
Listed(w) == {w[i] : i \in DOMAIN w}
IsSeq(w) == \E S : w \in Seq(S)
IsWires(W) == \E S : W \in [Socket -> [Node -> Seq(S)]]

\* v has what w has, first what w has first, and more of N only.
Grown(w, v, N) ==
    /\ IsSeq(v)
    /\ Listed(w) \subseteq Listed(v) /\ Listed(v) \subseteq Listed(w) \cup N
    /\ w # <<>> => v # <<>> /\ Head(v) = Head(w)

LEMMA SeqWider ==
  ASSUME NEW S, NEW T, S \subseteq T
  PROVE  Seq(S) \subseteq Seq(T)
  OBVIOUS

LEMMA GrownSelf ==
  ASSUME NEW w, IsSeq(w), NEW N
  PROVE  Grown(w, w, N)
  BY DEF Grown

LEMMA GrownMore ==
  ASSUME NEW w, NEW v, NEW N, NEW M, Grown(w, v, N), N \subseteq M
  PROVE  Grown(w, v, M)
  BY DEF Grown

LEMMA GrownAppend ==
  ASSUME NEW u, NEW w, NEW N, Grown(u, w, N), NEW f \in N
  PROVE  Grown(u, Append(w, f), N)
  <1>1. PICK S : w \in Seq(S)
    BY DEF Grown, IsSeq
  <1>2. w \in Seq(S \cup {f}) /\ f \in S \cup {f}
    BY <1>1, SeqWider
  <1> DEFINE v == Append(w, f)
  <1>3. /\ v \in Seq(S \cup {f}) /\ Len(v) = Len(w) + 1 /\ v[Len(w) + 1] = f
        /\ \A i \in 1 .. Len(w) : v[i] = w[i]
    BY <1>2
  <1>4. DOMAIN w = 1 .. Len(w) /\ DOMAIN v = 1 .. Len(w) + 1 /\ Len(w) \in Nat
    BY <1>1, <1>3
  <1> HIDE DEF v
  <1>5. Listed(w) \subseteq Listed(v) /\ Listed(v) \subseteq Listed(w) \cup {f}
    <2>1. ASSUME NEW i \in DOMAIN v PROVE v[i] \in Listed(w) \cup {f}
      <3>1. i \in 1 .. Len(w) \/ i = Len(w) + 1
        BY <1>4
      <3> QED
        BY <3>1, <1>3, <1>4 DEF Listed
    <2>2. ASSUME NEW i \in DOMAIN w PROVE w[i] \in Listed(v)
      <3>1. i \in DOMAIN v /\ v[i] = w[i]
        BY <1>3, <1>4
      <3> QED
        BY <3>1 DEF Listed
    <2> QED
      BY <2>1, <2>2 DEF Listed
  <1>6. v # <<>> /\ (w # <<>> => Head(v) = Head(w))
    BY <1>1, <1>3, <1>4
  <1>7. IsSeq(v)
    BY <1>3 DEF IsSeq
  <1> QED
    BY <1>5, <1>6, <1>7 DEF Grown, v

\* A sequence without its first element.
LEMMA TailListed ==
  ASSUME NEW w, IsSeq(w), w # <<>>
  PROVE  /\ IsSeq(Tail(w)) /\ Head(w) \in Listed(w)
         /\ Listed(Tail(w)) \subseteq Listed(w)
         /\ \A f \in Listed(w) : f = Head(w) \/ f \in Listed(Tail(w))
  <1>1. PICK S : w \in Seq(S)
    BY DEF IsSeq
  <1> DEFINE v == Tail(w)
  <1>2. /\ v \in Seq(S) /\ Len(v) = Len(w) - 1 /\ Head(w) = w[1]
        /\ \A i \in 1 .. Len(v) : v[i] = w[i + 1]
    BY <1>1
  <1>3. /\ DOMAIN w = 1 .. Len(w) /\ DOMAIN v = 1 .. Len(w) - 1
        /\ Len(w) \in Nat /\ Len(w) # 0
    BY <1>1, <1>2
  <1> HIDE DEF v
  <1>4. Listed(v) \subseteq Listed(w)
    <2>1. ASSUME NEW i \in DOMAIN v PROVE v[i] \in Listed(w)
      <3>1. i + 1 \in DOMAIN w /\ v[i] = w[i + 1]
        BY <1>2, <1>3
      <3> QED
        BY <3>1 DEF Listed
    <2> QED
      BY <2>1 DEF Listed
  <1>5. ASSUME NEW i \in DOMAIN w PROVE w[i] = Head(w) \/ w[i] \in Listed(v)
    <2>1. CASE i = 1
      BY <2>1, <1>2
    <2>2. CASE i # 1
      <3>1. i - 1 \in DOMAIN v /\ v[i - 1] = w[i]
        BY <2>2, <1>2, <1>3
      <3> QED
        BY <3>1 DEF Listed
    <2> QED
      BY <2>1, <2>2
  <1>6. 1 \in DOMAIN w
    BY <1>3
  <1> QED
    BY <1>2, <1>4, <1>5, <1>6 DEF Listed, IsSeq, v

LEMMA EmptyListed == Listed(<<>>) = {} /\ IsSeq(<<>>)
  <1>1. <<>> \in Seq({})
    OBVIOUS
  <1>2. DOMAIN <<>> = {}
    OBVIOUS
  <1> QED
    BY <1>1, <1>2 DEF Listed, IsSeq

LEMMA OneListed ==
  ASSUME NEW f
  PROVE  Listed(<<f>>) = {f} /\ IsSeq(<<f>>) /\ <<f>> # <<>> /\ Head(<<f>>) = f
  <1> DEFINE v == <<f>>
  <1>1. v \in Seq({f}) /\ v # <<>> /\ Head(v) = f
    OBVIOUS
  <1>2. DOMAIN v = {1} /\ v[1] = f
    OBVIOUS
  <1> HIDE DEF v
  <1>3. Listed(v) = {f}
    BY <1>2 DEF Listed
  <1>4. IsSeq(v)
    BY <1>1 DEF IsSeq
  <1> QED
    BY <1>1, <1>3, <1>4 DEF v

LEMMA ConcatListed ==
  ASSUME NEW v, NEW w, IsSeq(v), IsSeq(w)
  PROVE  IsSeq(v \o w) /\ Listed(v \o w) \subseteq Listed(v) \cup Listed(w)
  <1>1. PICK S : v \in Seq(S)
    BY DEF IsSeq
  <1>2. PICK T : w \in Seq(T)
    BY DEF IsSeq
  <1>3. v \in Seq(S \cup T) /\ w \in Seq(S \cup T)
    BY <1>1, <1>2, SeqWider
  <1> DEFINE x == v \o w
  <1>4. /\ x \in Seq(S \cup T) /\ Len(x) = Len(v) + Len(w)
        /\ \A i \in 1 .. Len(v) + Len(w) :
              x[i] = IF i <= Len(v) THEN v[i] ELSE w[i - Len(v)]
    BY <1>3
  <1>5. /\ DOMAIN v = 1 .. Len(v) /\ DOMAIN w = 1 .. Len(w)
        /\ DOMAIN x = 1 .. Len(v) + Len(w) /\ Len(v) \in Nat /\ Len(w) \in Nat
    BY <1>3, <1>4
  <1> HIDE DEF x
  <1>6. ASSUME NEW i \in DOMAIN x PROVE x[i] \in Listed(v) \cup Listed(w)
    <2>1. CASE i <= Len(v)
      <3>1. i \in DOMAIN v /\ x[i] = v[i]
        BY <2>1, <1>4, <1>5
      <3> QED
        BY <3>1 DEF Listed
    <2>2. CASE ~(i <= Len(v))
      <3>1. i - Len(v) \in DOMAIN w /\ x[i] = w[i - Len(v)]
        BY <2>2, <1>4, <1>5
      <3> QED
        BY <3>1 DEF Listed
    <2> QED
      BY <2>1, <2>2
  <1> QED
    BY <1>4, <1>6 DEF Listed, IsSeq, x

\* Every set of numbers has a least one.
LEMMA LeastNat ==
  ASSUME NEW T, T \subseteq Nat, T # {}
  PROVE  \E n \in T : \A m \in T : n <= m
  <1> DEFINE R == {ss \in Nat \X Nat : ss[1] < ss[2]}
  <1>1. IsWellFoundedOn(R, Nat)
    BY NatLessThanWellFounded DEF OpToRel
  <1>2. PICK n \in T : \A m \in T : <<m, n>> \notin R
    <2> HIDE DEF R
    <2> QED
      BY <1>1, WFMin
  <1>3. ASSUME NEW m \in T, m < n PROVE FALSE
    <2>1. <<m, n>> \in Nat \X Nat /\ <<m, n>>[1] = m /\ <<m, n>>[2] = n
      OBVIOUS
    <2> QED
      BY <2>1, <1>2, <1>3
  <1> QED
    BY <1>3

-----------------------------------------------------------------------------
\* What Transmit puts on the wires.

\* at[k] is the wires after k of the messages of out.
Transmits(at, K, w, p, out) ==
    at = [k \in 0 .. K |->
             IF k = 0 THEN w
             ELSE IF chan[p[out[k][1]]][out[k][1]] = "closed" THEN at[k - 1]
             ELSE [at[k - 1] EXCEPT ![p[out[k][1]]][out[k][1]] = Append(@, Data(out[k][2]))]]

LEMMA TransmitsExist ==
  ASSUME NEW w, NEW p, NEW out, NEW K \in Nat
  PROVE  \E at : Transmits(at, K, w, p, out)
  <1> DEFINE Bad == {j \in Nat : ~ \E at : Transmits(at, j, w, p, out)}
  <1>1. SUFFICES ASSUME Bad # {} PROVE FALSE
    BY <1>1
  <1>2. PICK j \in Bad : \A i \in Bad : j <= i
    <2>1. Bad \subseteq Nat
      OBVIOUS
    <2> HIDE DEF Bad
    <2> QED
      BY <1>1, <2>1, LeastNat
  <1>3. j \in Nat /\ ~ \E at : Transmits(at, j, w, p, out)
    OBVIOUS
  <1>4. CASE j = 0
    <2> DEFINE at == [k \in 0 .. 0 |-> w]
    <2>1. \A k \in 0 .. 0 : k = 0
      OBVIOUS
    <2>2. Transmits(at, 0, w, p, out)
      BY <2>1 DEF Transmits
    <2> QED
      BY <1>3, <1>4, <2>2
  <1>5. CASE j # 0
    <2>1. j - 1 \in Nat /\ j - 1 \notin Bad
      BY <1>2, <1>3, <1>5
    <2>2. PICK g : Transmits(g, j - 1, w, p, out)
      BY <2>1
    <2> DEFINE Step(k, v) ==
                 IF k = 0 THEN w
                 ELSE IF chan[p[out[k][1]]][out[k][1]] = "closed" THEN v
                 ELSE [v EXCEPT ![p[out[k][1]]][out[k][1]] = Append(@, Data(out[k][2]))]
               h == [k \in 0 .. j |-> IF k \in 0 .. j - 1 THEN g[k] ELSE Step(k, g[k - 1])]
    <2>3. \A k \in 0 .. j - 1 : g[k] = Step(k, g[k - 1])
      BY <2>2 DEF Transmits
    <2>4. ASSUME NEW k \in 0 .. j PROVE h[k] = Step(k, h[k - 1])
      <3>1. CASE k = 0
        BY <3>1, <2>1, <2>3
      <3>2. CASE k # 0
        <4>1. k - 1 \in 0 .. j - 1 /\ k - 1 \in 0 .. j
          BY <3>2, <1>3
        <4>2. h[k - 1] = g[k - 1]
          BY <4>1
        <4>3. h[k] = Step(k, g[k - 1])
          <5> HIDE DEF Step
          <5> QED
            BY <2>3
        <4> HIDE DEF h, Step
        <4> QED
          BY <4>2, <4>3
      <3> QED
        BY <3>1, <3>2
    <2>5. h = [k \in 0 .. j |-> Step(k, h[k - 1])]
      <3>1. \A k \in 0 .. j : h[k] = Step(k, h[k - 1])
        BY <2>4
      <3>2. h = [k \in 0 .. j |-> h[k]]
        OBVIOUS
      <3> HIDE DEF h, Step
      <3> QED
        BY <3>1, <3>2
    <2>6. Transmits(h, j, w, p, out)
      BY <2>5 DEF Transmits
    <2> QED
      BY <1>3, <2>6
  <1> QED
    BY <1>4, <1>5

\* What out has for x.
Posted(out, x) == {Data(f[2]) : f \in {g \in Listed(out) : g[1] = x}}

\* The wires v are the wires w with messages of out, none of them for an end
\* that has closed.
Carries(w, v, out) ==
    /\ IsWires(v)
    /\ \A s \in Socket, x \in Node :
          /\ Grown(w[s][x], v[s][x], Posted(out, x))
          /\ chan[s][x] = "closed" => v[s][x] = w[s][x]

LEMMA WiresAppend ==
  ASSUME NEW W, IsWires(W), NEW s \in Socket, NEW x \in Node, NEW f
  PROVE  /\ IsWires([W EXCEPT ![s][x] = Append(@, f)])
         /\ \A t \in Socket, y \in Node :
               [W EXCEPT ![s][x] = Append(@, f)][t][y] =
                   IF t = s /\ y = x THEN Append(W[t][y], f) ELSE W[t][y]
  <1>1. PICK S : W \in [Socket -> [Node -> Seq(S)]]
    BY DEF IsWires
  <1>2. \A t \in Socket, y \in Node :
            W[t][y] \in Seq(S \cup {f}) /\ Append(W[t][y], f) \in Seq(S \cup {f})
    <2>1. ASSUME NEW t \in Socket, NEW y \in Node PROVE W[t][y] \in Seq(S \cup {f})
      <3>1. W[t][y] \in Seq(S)
        BY <1>1
      <3> QED
        BY <3>1, SeqWider
    <2>2. \A v \in Seq(S \cup {f}) : Append(v, f) \in Seq(S \cup {f})
      OBVIOUS
    <2> QED
      BY <2>1, <2>2
  <1> DEFINE V == [W EXCEPT ![s][x] = Append(@, f)]
  <1>3. \A t \in Socket, y \in Node :
            V[t][y] = IF t = s /\ y = x THEN Append(W[t][y], f) ELSE W[t][y]
    BY <1>1
  <1>4. V \in [Socket -> [Node -> Seq(S \cup {f})]]
    <2>1. V = [t \in Socket |-> [y \in Node |-> V[t][y]]]
      BY <1>1
    <2>2. \A t \in Socket, y \in Node : V[t][y] \in Seq(S \cup {f})
      BY <1>2, <1>3
    <2> HIDE DEF V
    <2> QED
      BY <2>1, <2>2
  <1> QED
    BY <1>3, <1>4 DEF IsWires

LEMMA WiresSeq ==
  ASSUME NEW W, IsWires(W), NEW s \in Socket, NEW x \in Node
  PROVE  IsSeq(W[s][x])
  BY DEF IsWires, IsSeq

LEMMA TransmitCarries ==
  ASSUME NEW w, IsWires(w), NEW p, NEW out, IsSeq(out),
         \A f \in Listed(out) : f[1] \in Node /\ p[f[1]] \in Socket
  PROVE  Carries(w, Transmit(w, p, out), out)
  <1>1. Len(out) \in Nat /\ DOMAIN out = 1 .. Len(out)
    BY DEF IsSeq
  <1> DEFINE K == Len(out)
             at == CHOOSE g : Transmits(g, K, w, p, out)
  <1>2. Transmits(at, K, w, p, out)
    BY <1>1, TransmitsExist
  <1>3. Transmit(w, p, out) = at[K]
    BY DEF Transmit, Transmits
  <1> HIDE DEF at
  <1> DEFINE Bad == {k \in 0 .. K : ~Carries(w, at[k], out)}
  <1>4. SUFFICES ASSUME Bad # {} PROVE FALSE
    BY <1>1, <1>3, <1>4
  <1>5. PICK k \in Bad : \A i \in Bad : k <= i
    <2>1. Bad \subseteq Nat
      BY <1>1
    <2> HIDE DEF Bad
    <2> QED
      BY <1>4, <2>1, LeastNat
  <1>6. k \in 0 .. K /\ ~Carries(w, at[k], out)
    OBVIOUS
  <1>7. CASE k = 0
    <2>1. at[k] = w
      BY <1>2, <1>6, <1>7 DEF Transmits
    <2>2. Carries(w, w, out)
      BY WiresSeq, GrownSelf DEF Carries
    <2> QED
      BY <1>6, <2>1, <2>2
  <1>8. CASE k # 0
    <2>1. k - 1 \in 0 .. K /\ k - 1 \notin Bad /\ k \in DOMAIN out
      BY <1>1, <1>5, <1>6, <1>8
    <2> DEFINE v == at[k - 1]
               m == out[k][1]
               f == Data(out[k][2])
    <2>2. Carries(w, v, out)
      BY <2>1
    <2>3. at[k] = IF chan[p[m]][m] = "closed" THEN v ELSE [v EXCEPT ![p[m]][m] = Append(@, f)]
      BY <1>2, <1>6, <1>8 DEF Transmits
    <2>4. out[k] \in Listed(out)
      BY <2>1 DEF Listed
    <2>5. m \in Node /\ p[m] \in Socket /\ f \in Posted(out, m)
      BY <2>4 DEF Posted
    <2> DEFINE s == p[m]
    <2>6. s \in Socket
      BY <2>5
    <2> HIDE DEF v, m, f, s, Bad
    <2>7. CASE chan[s][m] = "closed"
      BY <1>6, <2>2, <2>3, <2>7 DEF s
    <2>8. CASE chan[s][m] # "closed"
      <3> DEFINE u == [v EXCEPT ![s][m] = Append(@, f)]
      <3>1. IsWires(v)
        BY <2>2 DEF Carries
      <3>2. /\ IsWires(u)
            /\ \A t \in Socket, y \in Node :
                  u[t][y] = IF t = s /\ y = m THEN Append(v[t][y], f) ELSE v[t][y]
        BY <2>5, <2>6, <3>1, WiresAppend
      <3> HIDE DEF u
      <3>3. ASSUME NEW t \in Socket, NEW y \in Node
            PROVE  /\ Grown(w[t][y], u[t][y], Posted(out, y))
                   /\ chan[t][y] = "closed" => u[t][y] = w[t][y]
        <4>1. /\ Grown(w[t][y], v[t][y], Posted(out, y))
              /\ chan[t][y] = "closed" => v[t][y] = w[t][y]
          BY <2>2 DEF Carries
        <4>2. CASE t = s /\ y = m
          <5>1. u[t][y] = Append(v[t][y], f) /\ f \in Posted(out, y)
            BY <3>2, <4>2, <2>5
          <5> QED
            BY <4>1, <4>2, <5>1, <2>8, GrownAppend
        <4>3. CASE ~(t = s /\ y = m)
          <5>1. u[t][y] = v[t][y]
            BY <3>2, <4>3
          <5> QED
            BY <4>1, <5>1
        <4> QED
          BY <4>2, <4>3
      <3>4. Carries(w, u, out)
        BY <3>2, <3>3 DEF Carries
      <3>5. at[k] = u
        BY <2>3, <2>8 DEF u, s
      <3> QED
        BY <1>6, <3>4, <3>5
    <2> QED
      BY <2>7, <2>8
  <1> QED
    BY <1>7, <1>8

-----------------------------------------------------------------------------
(* The connections.  The tables of both ends say the same once all frames have
   come because each end that has not heard of the other's id, or of its close,
   still has the frame that tells it on the wire.                             *)

IsPair(e) == \E a, b \in Node : a # b /\ e = {a, b}

Shape(E, C, W, P) ==
    /\ E \in [Socket -> SUBSET Node]
    /\ C \in [Socket -> [Node -> {"new", "open", "closed"}]]
    /\ P \in [Node -> [Node -> Socket \cup {NoSocket}]]
    /\ IsWires(W)
    /\ \A s \in Socket : E[s] = {} \/ IsPair(E[s])

\* The open channels are the entries of the tables.
Linked(E, C, P) ==
    /\ \A s \in Socket : \A x, y \in E[s] : x # y => (C[s][x] = "open" <=> P[x][y] = s)
    /\ \A x, y \in Node : P[x][y] # NoSocket => x # y /\ E[P[x][y]] = {x, y}

\* What an end does not know yet is under way to it.
Told(E, C, W) ==
    \A s \in Socket : \A x \in E[s] :
        /\ C[s][x] = "new" => W[s][x] # <<>> /\ Head(W[s][x]) = Hello
        /\ C[s][x] = "closed" => W[s][x] = <<>>
        /\ \A y \in E[s] : C[s][x] # "closed" /\ C[s][y] = "closed" => Bye \in Listed(W[s][x])

ConnInv ==
    /\ Shape(ends, chan, wire, peers) /\ stopped \subseteq Node
    /\ Linked(ends, chan, peers)
    /\ Told(ends, chan, wire)

\* The wires V hold only what W held, ids, closes, and messages of out.
Comes(W, V, out) ==
    \A s \in Socket, x \in Node :
        Listed(V[s][x]) \subseteq Listed(W[s][x]) \cup {Hello, Bye} \cup Posted(out, x)

LEMMA PairMembers ==
  ASSUME NEW e, IsPair(e), NEW n \in e
  PROVE  \E m \in Node : n \in Node /\ n # m /\ e = {n, m}
  BY DEF IsPair

LEMMA OtherEnd ==
  ASSUME ConnInv, NEW s \in Socket, NEW n \in ends[s]
  PROVE  /\ n \in Node /\ Other(s, n) \in Node /\ Other(s, n) # n
         /\ ends[s] = {n, Other(s, n)}
  <1>1. IsPair(ends[s])
    BY DEF ConnInv, Shape
  <1>2. PICK m \in Node : n \in Node /\ n # m /\ ends[s] = {n, m}
    BY <1>1, PairMembers
  <1>3. Other(s, n) = m
    BY <1>2 DEF Other
  <1> QED
    BY <1>2, <1>3

LEMMA PeerSocket ==
  ASSUME ConnInv, NEW n \in Node, NEW m \in Node, peers[n][m] # NoSocket
  PROVE  /\ peers[n][m] \in Socket /\ n # m /\ ends[peers[n][m]] = {n, m}
         /\ chan[peers[n][m]][n] = "open" /\ Other(peers[n][m], n) = m
  <1>1. peers[n][m] \in Socket /\ n # m /\ ends[peers[n][m]] = {n, m}
    BY DEF ConnInv, Shape, Linked
  <1>2. chan[peers[n][m]][n] = "open"
    BY <1>1 DEF ConnInv, Linked
  <1>3. Other(peers[n][m], n) = m
    BY <1>1 DEF Other
  <1> QED
    BY <1>1, <1>2, <1>3

\* At the start.
LEMMA ConnStart ==
  ASSUME NEW links, NEW down \in SUBSET Node, Start(links, down),
         \A l \in DOMAIN links :
              /\ links[l] \in Socket
              /\ IsPair(l)
              /\ \A k \in DOMAIN links : links[k] = links[l] => k = l
  PROVE  ConnInv
  <1>1. /\ ends = [s \in Socket |-> UNION {l \in DOMAIN links : links[l] = s}]
        /\ chan = [s \in Socket |-> [n \in Node |->
                       IF \E l \in DOMAIN links : links[l] = s THEN "open" ELSE "new"]]
        /\ wire = [s \in Socket |-> [n \in Node |-> <<>>]]
        /\ peers = [n \in Node |-> [m \in Node |-> IF {n, m} \in DOMAIN links /\ n # m
                                                   THEN links[{n, m}] ELSE NoSocket]]
        /\ stopped = down
    BY DEF Start
  <1>2. ASSUME NEW l \in DOMAIN links PROVE ends[links[l]] = l
    <2>1. {k \in DOMAIN links : links[k] = links[l]} = {l}
      OBVIOUS
    <2> QED
      BY <1>1, <2>1
  <1>3. ASSUME NEW s \in Socket PROVE ends[s] = {} \/ \E l \in DOMAIN links : links[l] = s
    BY <1>1
  <1>4. \A s \in Socket : ends[s] = {} \/ IsPair(ends[s])
    BY <1>2, <1>3
  <1>5. Shape(ends, chan, wire, peers)
    <2>1. ends \in [Socket -> SUBSET Node]
      <3>1. \A s \in Socket : ends[s] \subseteq Node
        BY <1>4 DEF IsPair
      <3> QED
        BY <1>1, <3>1
    <2>2. IsWires(wire)
      <3>1. <<>> \in Seq({})
        OBVIOUS
      <3>2. wire \in [Socket -> [Node -> Seq({})]]
        BY <1>1, <3>1
      <3> QED
        BY <3>2 DEF IsWires
    <2>3. chan \in [Socket -> [Node -> {"new", "open", "closed"}]]
      BY <1>1
    <2>4. peers \in [Node -> [Node -> Socket \cup {NoSocket}]]
      BY <1>1
    <2> QED
      BY <1>4, <2>1, <2>2, <2>3, <2>4 DEF Shape
  <1>6. ASSUME NEW s \in Socket, NEW x \in ends[s], NEW y \in ends[s], x # y
        PROVE  chan[s][x] = "open" /\ peers[x][y] = s
    <2>1. PICK l \in DOMAIN links : links[l] = s
      BY <1>3
    <2>2. l = {x, y} /\ x \in Node /\ y \in Node
      <3>1. ends[s] = l /\ IsPair(l)
        BY <1>2, <2>1
      <3> QED
        BY <1>6, <3>1 DEF IsPair
    <2>3. {x, y} \in DOMAIN links /\ links[{x, y}] = s
      BY <2>1, <2>2
    <2>4. peers[x][y] = s
      BY <1>1, <1>6, <2>2, <2>3
    <2>5. chan[s][x] = "open"
      BY <1>1, <2>1, <2>2
    <2> QED
      BY <2>4, <2>5
  <1>7. ASSUME NEW x \in Node, NEW y \in Node, peers[x][y] # NoSocket
        PROVE  x # y /\ ends[peers[x][y]] = {x, y}
    <2>1. {x, y} \in DOMAIN links /\ x # y /\ peers[x][y] = links[{x, y}]
      BY <1>1, <1>7
    <2> QED
      BY <1>2, <2>1
  <1>8. Linked(ends, chan, peers)
    BY <1>6, <1>7 DEF Linked
  <1>9. ASSUME NEW s \in Socket, NEW x \in ends[s] PROVE chan[s][x] = "open"
    <2>1. x \in Node /\ \E l \in DOMAIN links : links[l] = s
      BY <1>3, <1>5 DEF Shape
    <2> QED
      BY <1>1, <2>1
  <1>10. Told(ends, chan, wire)
    BY <1>9 DEF Told
  <1> QED
    BY <1>1, <1>5, <1>8, <1>10 DEF ConnInv

LEMMA NewSocketStep ==
  ASSUME ConnInv, NEW n \in Node, NEW m \in Node, n # m, NewSocket(n, m),
         peers' = peers, stopped' = stopped, NEW out
  PROVE  ConnInv' /\ Comes(wire, wire', out)
  <1>1. PICK s \in Socket :
            /\ ends[s] = {}
            /\ ends' = [ends EXCEPT ![s] = {n, m}]
            /\ chan' = [chan EXCEPT ![s] = [x \in Node |-> "new"]]
            /\ wire' = [wire EXCEPT ![s] =
                            [x \in Node |-> IF x \in {n, m} THEN <<Hello>> ELSE <<>>]]
    BY DEF NewSocket, Unused
  <1>2. Shape(ends, chan, wire, peers)
    BY DEF ConnInv
  <1>3. /\ ends \in [Socket -> SUBSET Node]
        /\ chan \in [Socket -> [Node -> {"new", "open", "closed"}]]
        /\ peers \in [Node -> [Node -> Socket \cup {NoSocket}]]
    BY <1>2 DEF Shape
  <1>4. PICK S : wire \in [Socket -> [Node -> Seq(S)]]
    BY <1>2 DEF Shape, IsWires
  <1>5. \A t \in Socket : /\ ends'[t] = IF t = s THEN {n, m} ELSE ends[t]
                          /\ chan'[t] = IF t = s THEN [x \in Node |-> "new"] ELSE chan[t]
                          /\ wire'[t] = IF t = s THEN [x \in Node |-> IF x \in {n, m} THEN <<Hello>> ELSE <<>>]
                                        ELSE wire[t]
    BY <1>1, <1>3, <1>4
  <1>6. Shape(ends', chan', wire', peers')
    <2>1. ends' \in [Socket -> SUBSET Node]
      BY <1>1, <1>3
    <2>2. chan' \in [Socket -> [Node -> {"new", "open", "closed"}]]
      BY <1>1, <1>3
    <2>3. \A t \in Socket : ends'[t] = {} \/ IsPair(ends'[t])
      <3>1. IsPair({n, m})
        BY DEF IsPair
      <3>2. \A t \in Socket : ends[t] = {} \/ IsPair(ends[t])
        BY <1>2 DEF Shape
      <3> QED
        BY <1>5, <3>1, <3>2
    <2>4. IsWires(wire')
      <3> DEFINE T == S \cup {Hello}
                 h == [x \in Node |-> IF x \in {n, m} THEN <<Hello>> ELSE <<>>]
      <3>1. Seq(S) \subseteq Seq(T) /\ <<Hello>> \in Seq(T) /\ <<>> \in Seq(T)
        BY SeqWider
      <3>2. h \in [Node -> Seq(T)]
        BY <3>1
      <3>3. wire \in [Socket -> [Node -> Seq(T)]]
        <4>1. \A t \in Socket : wire[t] \in [Node -> Seq(T)]
          BY <1>4, <3>1
        <4> QED
          BY <1>4, <4>1
      <3> HIDE DEF T, h
      <3>4. wire' = [wire EXCEPT ![s] = h]
        BY <1>1 DEF h
      <3>5. wire' \in [Socket -> [Node -> Seq(T)]]
        BY <3>2, <3>3, <3>4
      <3> QED
        BY <3>5 DEF IsWires
    <2> QED
      BY <1>3, <2>1, <2>2, <2>3, <2>4 DEF Shape
  <1>7. Linked(ends', chan', peers')
    <2>1. Linked(ends, chan, peers)
      BY DEF ConnInv
    <2>2. ASSUME NEW x \in Node, NEW y \in Node, peers[x][y] # NoSocket
          PROVE  x # y /\ peers[x][y] # s /\ ends'[peers[x][y]] = {x, y}
      <3>1. x # y /\ ends[peers[x][y]] = {x, y}
        BY <2>1, <2>2 DEF Linked
      <3>2. peers[x][y] \in Socket /\ peers[x][y] # s
        <4>1. peers[x][y] \in Socket
          BY <1>3, <2>2
        <4>2. ends[s] = {}
          BY <1>1
        <4> QED
          BY <3>1, <4>1, <4>2
      <3> QED
        BY <1>5, <3>1, <3>2
    <2>3. ASSUME NEW t \in Socket, NEW x \in ends'[t], NEW y \in ends'[t], x # y
          PROVE  chan'[t][x] = "open" <=> peers[x][y] = t
      <3>1. CASE t = s
        <4>1. x \in Node /\ y \in Node /\ chan'[t][x] = "new"
          BY <1>5, <3>1
        <4>2. peers[x][y] # t
          BY <2>2, <3>1, <4>1, ConnectionsAssumption
        <4> QED
          BY <4>1, <4>2
      <3>2. CASE t # s
        <4>1. ends'[t] = ends[t] /\ chan'[t] = chan[t]
          BY <1>5, <3>2
        <4> QED
          BY <2>1, <2>3, <4>1 DEF Linked
      <3> QED
        BY <3>1, <3>2
    <2> QED
      BY <2>2, <2>3 DEF Linked
  <1>8. Told(ends', chan', wire')
    <2>1. Told(ends, chan, wire)
      BY DEF ConnInv
    <2>2. ASSUME NEW t \in Socket, NEW x \in ends'[t]
          PROVE  /\ chan'[t][x] = "new" => wire'[t][x] # <<>> /\ Head(wire'[t][x]) = Hello
                 /\ chan'[t][x] = "closed" => wire'[t][x] = <<>>
                 /\ \A y \in ends'[t] : chan'[t][x] # "closed" /\ chan'[t][y] = "closed"
                                            => Bye \in Listed(wire'[t][x])
      <3>1. CASE t = s
        <4>1. ends'[t] = {n, m}
          BY <1>5, <3>1
        <4>2. wire'[t][x] = <<Hello>>
          BY <1>5, <3>1, <4>1
        <4>3. ASSUME NEW y \in ends'[t] PROVE chan'[t][y] = "new"
          <5>1. y \in Node /\ chan'[t] = [z \in Node |-> "new"]
            BY <1>5, <3>1, <4>1
          <5> QED
            BY <5>1
        <4>4. <<Hello>> # <<>> /\ Head(<<Hello>>) = Hello
          OBVIOUS
        <4> QED
          BY <4>2, <4>3, <4>4
      <3>2. CASE t # s
        <4>1. ends'[t] = ends[t] /\ chan'[t] = chan[t] /\ wire'[t] = wire[t]
          BY <1>5, <3>2
        <4> QED
          BY <2>1, <4>1 DEF Told
      <3> QED
        BY <3>1, <3>2
    <2> QED
      BY <2>2 DEF Told
  <1>9. Comes(wire, wire', out)
    <2>1. ASSUME NEW t \in Socket, NEW x \in Node
          PROVE  Listed(wire'[t][x]) \subseteq Listed(wire[t][x]) \cup {Hello}
      <3>1. CASE t = s
        <4>1. wire'[t][x] = <<Hello>> \/ wire'[t][x] = <<>>
          BY <1>5, <3>1
        <4> QED
          BY <4>1, OneListed, EmptyListed
      <3>2. CASE t # s
        BY <1>5, <3>2
      <3> QED
        BY <3>1, <3>2
    <2> QED
      BY <2>1 DEF Comes
  <1> QED
    BY <1>6, <1>7, <1>8, <1>9 DEF ConnInv

\* The wires when n closes its ends of the sockets S.
LEMMA HangUpWires ==
  ASSUME NEW W, IsWires(W), NEW n, NEW S
  PROVE  /\ IsWires(HangUp(W, n, S))
         /\ \A t \in Socket, x \in Node :
               HangUp(W, n, S)[t][x] =
                   IF t \notin S THEN W[t][x]
                   ELSE IF x = n THEN <<>>
                   ELSE IF x \in ends[t] /\ chan[t][x] # "closed" THEN Append(W[t][x], Bye)
                   ELSE W[t][x]
  <1> DEFINE V == HangUp(W, n, S)
  <1>1. PICK T : W \in [Socket -> [Node -> Seq(T)]]
    BY DEF IsWires
  <1>2. \A t \in Socket, x \in Node :
            V[t][x] = IF t \notin S THEN W[t][x]
                      ELSE IF x = n THEN <<>>
                      ELSE IF x \in ends[t] /\ chan[t][x] # "closed" THEN Append(W[t][x], Bye)
                      ELSE W[t][x]
    BY DEF HangUp
  <1>3. V = [t \in Socket |-> [x \in Node |-> V[t][x]]]
    <2>1. ASSUME NEW t \in Socket PROVE V[t] = [x \in Node |-> V[t][x]]
      BY <1>1 DEF HangUp
    <2>2. V = [t \in Socket |-> V[t]]
      BY DEF HangUp
    <2> HIDE DEF V
    <2> QED
      BY <2>1, <2>2
  <1> HIDE DEF V
  <1> DEFINE U == T \cup {Bye}
  <1>4. ASSUME NEW t \in Socket, NEW x \in Node PROVE V[t][x] \in Seq(U)
    <2>1. W[t][x] \in Seq(T)
      BY <1>1
    <2>2. W[t][x] \in Seq(U)
      BY <2>1, SeqWider
    <2>3. Append(W[t][x], Bye) \in Seq(U) /\ <<>> \in Seq(U)
      BY <2>2
    <2> QED
      BY <1>2, <2>2, <2>3
  <1> HIDE DEF U
  <1>5. V \in [Socket -> [Node -> Seq(U)]]
    BY <1>3, <1>4
  <1> QED
    BY <1>2, <1>5 DEF IsWires, V

\* n closes its ends of the sockets S; the wires were W, but for what came to n
\* over S.
Closes(n, S, W) ==
    /\ IsWires(W)
    /\ \A t \in Socket, x \in Node : ~(t \in S /\ x = n) => W[t][x] = wire[t][x]
    /\ ends' = ends
    /\ chan' = [t \in Socket |-> IF t \in S THEN [chan[t] EXCEPT ![n] = "closed"] ELSE chan[t]]
    /\ wire' = HangUp(W, n, S)
    /\ peers' = [x \in Node |-> [y \in Node |->
                      IF x = n /\ peers[x][y] \in S THEN NoSocket ELSE peers[x][y]]]
    /\ stopped' \subseteq Node

LEMMA CloseStep ==
  ASSUME ConnInv, NEW n \in Node, NEW S \in SUBSET Socket,
         NEW W, Closes(n, S, W), NEW out
  PROVE  ConnInv' /\ Comes(wire, wire', out)
  <1>0. ends' = ends /\ stopped' \subseteq Node
    BY DEF Closes
  <1>1. /\ ends \in [Socket -> SUBSET Node]
        /\ chan \in [Socket -> [Node -> {"new", "open", "closed"}]]
        /\ peers \in [Node -> [Node -> Socket \cup {NoSocket}]]
        /\ IsWires(wire)
        /\ \A s \in Socket : ends[s] = {} \/ IsPair(ends[s])
    BY DEF ConnInv, Shape
  <1>2. \A t \in Socket, x \in Node :
            chan'[t][x] = IF t \in S /\ x = n THEN "closed" ELSE chan[t][x]
    BY <1>1 DEF Closes
  <1>3. \A x, y \in Node :
            peers'[x][y] = IF x = n /\ peers[x][y] \in S THEN NoSocket ELSE peers[x][y]
    BY DEF Closes
  <1>4. /\ IsWires(wire')
        /\ \A t \in Socket, x \in Node :
               wire'[t][x] = IF t \notin S THEN wire[t][x]
                             ELSE IF x = n THEN <<>>
                             ELSE IF x \in ends[t] /\ chan[t][x] # "closed"
                             THEN Append(wire[t][x], Bye)
                             ELSE wire[t][x]
    <2>1. /\ IsWires(W) /\ wire' = HangUp(W, n, S)
          /\ \A t \in Socket, x \in Node : ~(t \in S /\ x = n) => W[t][x] = wire[t][x]
      BY DEF Closes
    <2>2. /\ IsWires(wire')
          /\ \A t \in Socket, x \in Node :
                 wire'[t][x] = IF t \notin S THEN W[t][x]
                               ELSE IF x = n THEN <<>>
                               ELSE IF x \in ends[t] /\ chan[t][x] # "closed"
                               THEN Append(W[t][x], Bye)
                               ELSE W[t][x]
      BY <2>1, HangUpWires
    <2> QED
      BY <2>1, <2>2
  <1>5. Shape(ends', chan', wire', peers')
    <2>1. chan' \in [Socket -> [Node -> {"new", "open", "closed"}]]
      BY <1>1 DEF Closes
    <2>2. peers' \in [Node -> [Node -> Socket \cup {NoSocket}]]
      <3>1. \A x, y \in Node : peers[x][y] \in Socket \cup {NoSocket}
        BY <1>1
      <3> QED
        BY <3>1 DEF Closes
    <2> QED
      BY <1>0, <1>1, <1>4, <2>1, <2>2 DEF Shape
  <1>6. Linked(ends', chan', peers')
    <2>1. Linked(ends, chan, peers)
      BY DEF ConnInv
    <2>2. ASSUME NEW t \in Socket, NEW x \in ends[t], NEW y \in ends[t], x # y
          PROVE  chan'[t][x] = "open" <=> peers'[x][y] = t
      <3>1. x \in Node /\ y \in Node
        BY <1>1
      <3>2. chan[t][x] = "open" <=> peers[x][y] = t
        BY <2>1, <2>2 DEF Linked
      <3>3. t # NoSocket
        BY ConnectionsAssumption
      <3>4. CASE t \in S /\ x = n
        <4>1. chan'[t][x] = "closed"
          BY <1>2, <3>1, <3>4
        <4>2. peers'[x][y] # t
          BY <1>3, <3>1, <3>3, <3>4
        <4> QED
          BY <4>1, <4>2
      <3>5. CASE ~(t \in S /\ x = n)
        <4>1. chan'[t][x] = chan[t][x]
          BY <1>2, <3>1, <3>5
        <4>2. peers'[x][y] = t <=> peers[x][y] = t
          BY <1>3, <3>1, <3>3, <3>5
        <4> QED
          BY <3>2, <4>1, <4>2
      <3> QED
        BY <3>4, <3>5
    <2>3. ASSUME NEW x \in Node, NEW y \in Node, peers'[x][y] # NoSocket
          PROVE  x # y /\ ends[peers'[x][y]] = {x, y}
      <3>1. peers'[x][y] = peers[x][y]
        BY <1>3, <2>3
      <3> QED
        BY <2>1, <2>3, <3>1 DEF Linked
    <2> QED
      BY <1>0, <2>2, <2>3 DEF Linked
  <1>7. Told(ends', chan', wire')
    <2>1. Told(ends, chan, wire)
      BY DEF ConnInv
    <2>2. ASSUME NEW t \in Socket, NEW x \in ends[t]
          PROVE  /\ chan'[t][x] = "new" => wire'[t][x] # <<>> /\ Head(wire'[t][x]) = Hello
                 /\ chan'[t][x] = "closed" => wire'[t][x] = <<>>
                 /\ \A y \in ends[t] : chan'[t][x] # "closed" /\ chan'[t][y] = "closed"
                                            => Bye \in Listed(wire'[t][x])
      <3>1. x \in Node /\ (\A y \in ends[t] : y \in Node)
        BY <1>1
      <3>2. /\ chan[t][x] = "new" => wire[t][x] # <<>> /\ Head(wire[t][x]) = Hello
            /\ chan[t][x] = "closed" => wire[t][x] = <<>>
            /\ \A y \in ends[t] : chan[t][x] # "closed" /\ chan[t][y] = "closed"
                                       => Bye \in Listed(wire[t][x])
        BY <2>1 DEF Told
      <3>3. CASE t \notin S
        <4>1. wire'[t][x] = wire[t][x] /\ \A y \in ends[t] : chan'[t][y] = chan[t][y]
          BY <1>2, <1>4, <3>1, <3>3
        <4> QED
          BY <3>2, <4>1
      <3>4. CASE t \in S /\ x = n
        <4>1. wire'[t][x] = <<>> /\ chan'[t][x] = "closed"
          BY <1>2, <1>4, <3>1, <3>4
        <4> QED
          BY <4>1
      <3>5. CASE t \in S /\ x # n /\ chan[t][x] = "closed"
        <4>1. wire'[t][x] = wire[t][x] /\ chan'[t][x] = "closed"
          BY <1>2, <1>4, <3>1, <3>5
        <4> QED
          BY <3>2, <3>5, <4>1
      <3>6. CASE t \in S /\ x # n /\ chan[t][x] # "closed"
        <4>1. wire'[t][x] = Append(wire[t][x], Bye) /\ chan'[t][x] = chan[t][x]
          BY <1>2, <1>4, <3>1, <3>6
        <4>2. Grown(wire[t][x], wire[t][x], {Bye})
          BY <1>1, <3>1, WiresSeq, GrownSelf
        <4>3. Grown(wire[t][x], wire'[t][x], {Bye})
          BY <4>1, <4>2, GrownAppend
        <4>4. Bye \in Listed(wire'[t][x])
          <5>1. PICK U : wire[t][x] \in Seq(U)
            BY <1>1, <3>1, WiresSeq DEF IsSeq
          <5>2. wire[t][x] \in Seq(U \cup {Bye}) /\ Bye \in U \cup {Bye}
            BY <5>1, SeqWider
          <5> DEFINE w == wire[t][x]
                     v == Append(w, Bye)
          <5>3. Len(w) + 1 \in DOMAIN v /\ v[Len(w) + 1] = Bye
            BY <5>2
          <5>4. wire'[t][x] = v
            BY <4>1
          <5> HIDE DEF v, w
          <5> QED
            BY <5>3, <5>4 DEF Listed
        <4> QED
          BY <3>2, <3>6, <4>1, <4>3, <4>4 DEF Grown
      <3> QED
        BY <3>3, <3>4, <3>5, <3>6
    <2> QED
      BY <1>0, <2>2 DEF Told
  <1>8. Comes(wire, wire', out)
    <2>1. ASSUME NEW t \in Socket, NEW x \in Node
          PROVE  Listed(wire'[t][x]) \subseteq Listed(wire[t][x]) \cup {Bye}
      <3>1. CASE wire'[t][x] = wire[t][x]
        BY <3>1
      <3>2. CASE wire'[t][x] = <<>>
        BY <3>2, EmptyListed
      <3>3. CASE wire'[t][x] = Append(wire[t][x], Bye)
        <4>1. Grown(wire[t][x], wire[t][x], {Bye})
          BY <1>1, WiresSeq, GrownSelf
        <4>2. Grown(wire[t][x], wire'[t][x], {Bye})
          BY <3>3, <4>1, GrownAppend
        <4> QED
          BY <4>2 DEF Grown
      <3> QED
        BY <1>4, <3>1, <3>2, <3>3
    <2> QED
      BY <2>1 DEF Comes
  <1> QED
    BY <1>0, <1>5, <1>6, <1>7, <1>8 DEF ConnInv

\* The wires after the first frame for n on s was taken.
LEMMA PopWires ==
  ASSUME ConnInv, NEW s \in Socket, NEW n \in Node, wire[s][n] # <<>>
  PROVE  /\ IsWires(Pop(n, s))
         /\ \A t \in Socket, x \in Node :
               Pop(n, s)[t][x] = IF t = s /\ x = n THEN Tail(wire[s][n]) ELSE wire[t][x]
  <1>1. IsWires(wire)
    BY DEF ConnInv, Shape
  <1>2. PICK S : wire \in [Socket -> [Node -> Seq(S)]]
    BY <1>1 DEF IsWires
  <1>3. wire[s][n] \in Seq(S)
    BY <1>2
  <1>4. Tail(wire[s][n]) \in Seq(S)
    BY <1>3
  <1> QED
    BY <1>2, <1>4 DEF Pop, IsWires

\* The end n of the only socket between two nodes, or of both.
LEMMA DestroyStep ==
  ASSUME ConnInv, NEW s \in Socket, NEW n \in ends[s], chan[s][n] # "closed",
         NEW W, IsWires(W),
         \A t \in Socket, x \in Node : ~(t = s /\ x = n) => W[t][x] = wire[t][x],
         DestroyChannel(n, s, W), NEW out
  PROVE  ConnInv' /\ Comes(wire, wire', out)
  <1> DEFINE m == Other(s, n)
  <1>1. n \in Node /\ m \in Node /\ m # n /\ ends[s] = {n, m}
    BY OtherEnd
  <1>2. /\ chan \in [Socket -> [Node -> {"new", "open", "closed"}]]
        /\ peers \in [Node -> [Node -> Socket \cup {NoSocket}]]
    BY DEF ConnInv, Shape
  <1>3. chan[s][n] = "open" <=> peers[n][m] = s
    BY <1>1 DEF ConnInv, Linked
  <1>4. \A y \in Node : peers[n][y] = s => y = m
    <2>1. ASSUME NEW y \in Node, peers[n][y] = s PROVE y = m
      <3>1. ends[s] = {n, y} /\ n # y
        BY <1>1, <2>1, PeerSocket, ConnectionsAssumption
      <3> QED
        BY <1>1, <3>1
    <2> QED
      BY <2>1
  <1>5. /\ chan' = [t \in Socket |-> IF t \in {s} THEN [chan[t] EXCEPT ![n] = "closed"]
                                     ELSE chan[t]]
        /\ wire' = HangUp(W, n, {s})
        /\ ends' = ends /\ stopped' = stopped
    BY <1>3 DEF DestroyChannel
  <1>6. peers' = IF chan[s][n] = "open" THEN [peers EXCEPT ![n][m] = NoSocket] ELSE peers
    BY DEF DestroyChannel
  <1> HIDE DEF m
  <1>7. peers' = [x \in Node |-> [y \in Node |->
                      IF x = n /\ peers[x][y] \in {s} THEN NoSocket ELSE peers[x][y]]]
    <2>1. CASE chan[s][n] = "open"
      <3>1. peers' = [peers EXCEPT ![n][m] = NoSocket]
        BY <1>6, <2>1
      <3>2. \A x, y \in Node : peers[x][y] \in {s} /\ x = n <=> x = n /\ y = m
        BY <1>3, <1>4, <2>1
      <3>3. peers' \in [Node -> [Node -> Socket \cup {NoSocket}]]
        BY <1>1, <1>2, <3>1
      <3>4. \A x, y \in Node :
                peers'[x][y] = IF x = n /\ peers[x][y] \in {s} THEN NoSocket ELSE peers[x][y]
        BY <1>1, <1>2, <3>1, <3>2
      <3> QED
        BY <3>3, <3>4
    <2>2. CASE chan[s][n] # "open"
      <3>1. \A y \in Node : peers[n][y] # s
        BY <1>3, <1>4, <2>2
      <3>2. peers' = peers
        BY <1>6, <2>2
      <3> QED
        BY <1>2, <3>1, <3>2
    <2> QED
      BY <2>1, <2>2
  <1>8. stopped \subseteq Node
    BY DEF ConnInv
  <1>9. Closes(n, {s}, W)
    BY <1>5, <1>7, <1>8 DEF Closes
  <1> QED
    BY <1>1, <1>9, CloseStep

LEMMA OnCloseStep ==
  ASSUME ConnInv, NEW s \in Socket, NEW n \in ends[s], OnClose(n, s), NEW out
  PROVE  ConnInv' /\ Comes(wire, wire', out)
  <1>1. wire[s][n] # <<>> /\ DestroyChannel(n, s, Pop(n, s))
    BY DEF OnClose, NextFrame
  <1>2. n \in Node /\ chan[s][n] # "closed"
    BY <1>1, OtherEnd DEF ConnInv, Told
  <1>3. /\ IsWires(Pop(n, s))
        /\ \A t \in Socket, x \in Node : ~(t = s /\ x = n) => Pop(n, s)[t][x] = wire[t][x]
    BY <1>1, <1>2, PopWires
  <1> QED
    BY <1>1, <1>2, <1>3, DestroyStep

LEMMA DisconnectStep ==
  ASSUME ConnInv, NEW n \in Node, NEW m \in Node, Disconnect(n, m), NEW out
  PROVE  ConnInv' /\ Comes(wire, wire', out)
  <1> DEFINE s == peers[n][m]
  <1>1. s # NoSocket /\ DestroyChannel(n, s, wire)
    BY DEF Disconnect, Peers
  <1>2. s \in Socket /\ n \in ends[s] /\ chan[s][n] # "closed"
    BY <1>1, PeerSocket
  <1>3. IsWires(wire)
    BY DEF ConnInv, Shape
  <1> HIDE DEF s
  <1> QED
    BY <1>1, <1>2, <1>3, DestroyStep

LEMMA StopStep ==
  ASSUME ConnInv, NEW n \in Node, Stop(n), NEW out
  PROVE  ConnInv' /\ Comes(wire, wire', out)
  <1> DEFINE S == {s \in Socket : n \in ends[s] /\ chan[s][n] # "closed"}
  <1>1. /\ stopped' = stopped \cup {n} /\ ends' = ends
        /\ chan' = [s \in Socket |-> IF s \in S THEN [chan[s] EXCEPT ![n] = "closed"] ELSE chan[s]]
        /\ peers' = [peers EXCEPT ![n] = [m \in Node |-> NoSocket]]
        /\ wire' = HangUp(wire, n, S)
    BY DEF Stop
  <1>2. peers \in [Node -> [Node -> Socket \cup {NoSocket}]] /\ IsWires(wire) /\ stopped \subseteq Node
    BY DEF ConnInv, Shape
  <1>3. \A y \in Node : peers[n][y] # NoSocket => peers[n][y] \in S
    <2>1. ASSUME NEW y \in Node, peers[n][y] # NoSocket PROVE peers[n][y] \in S
      BY <2>1, PeerSocket
    <2> QED
      BY <2>1
  <1> HIDE DEF S
  <1>4. peers' = [x \in Node |-> [y \in Node |->
                      IF x = n /\ peers[x][y] \in S THEN NoSocket ELSE peers[x][y]]]
    <2>1. \A y \in Node : (IF peers[n][y] \in S THEN NoSocket ELSE peers[n][y]) = NoSocket
      BY <1>3
    <2> QED
      BY <1>1, <1>2, <2>1
  <1>5. Closes(n, S, wire)
    BY <1>1, <1>2, <1>4 DEF Closes
  <1>6. S \subseteq Socket
    BY DEF S
  <1> QED
    BY <1>5, <1>6, CloseStep

LEMMA DuplicateStep ==
  ASSUME ConnInv, NEW s \in Socket, NEW n \in ends[s], Duplicate(n, s), NEW out
  PROVE  ConnInv' /\ Comes(wire, wire', out)
  <1> DEFINE m == Other(s, n)
             t == peers[n][m]
             S == {s, t}
  <1>1. n \in Node /\ m \in Node /\ m # n /\ ends[s] = {n, m}
    BY OtherEnd
  <1>2. /\ t # NoSocket
        /\ chan' = [chan EXCEPT ![s][n] = "closed", ![t][n] = "closed"]
        /\ peers' = [peers EXCEPT ![n][m] = NoSocket]
        /\ wire' = HangUp(wire, n, S)
        /\ ends' = ends /\ stopped' = stopped
    BY DEF Duplicate
  <1> HIDE DEF m
  <1>3. t \in Socket /\ ends[t] = {n, m}
    BY <1>1, <1>2, PeerSocket
  <1>4. /\ chan \in [Socket -> [Node -> {"new", "open", "closed"}]]
        /\ peers \in [Node -> [Node -> Socket \cup {NoSocket}]]
        /\ IsWires(wire) /\ stopped \subseteq Node
    BY DEF ConnInv, Shape
  <1>5. \A y \in Node : peers[n][y] \in S <=> y = m
    <2>1. ASSUME NEW y \in Node, peers[n][y] \in S PROVE y = m
      <3>1. ends[peers[n][y]] = {n, y} /\ n # y
        BY <1>1, <1>2, <1>3, <2>1, PeerSocket, ConnectionsAssumption
      <3>2. ends[peers[n][y]] = {n, m}
        BY <1>1, <1>3, <2>1
      <3> QED
        BY <1>1, <3>1, <3>2
    <2> QED
      BY <2>1
  <1>6. chan' = [u \in Socket |-> IF u \in S THEN [chan[u] EXCEPT ![n] = "closed"] ELSE chan[u]]
    <2> HIDE DEF t
    <2> QED
      BY <1>1, <1>2, <1>3, <1>4
  <1>7. peers' = [x \in Node |-> [y \in Node |->
                      IF x = n /\ peers[x][y] \in S THEN NoSocket ELSE peers[x][y]]]
    <2> HIDE DEF S, t
    <2> QED
      BY <1>1, <1>2, <1>4, <1>5
  <1>8. S \subseteq Socket
    BY <1>3
  <1> HIDE DEF S, t
  <1>9. Closes(n, S, wire)
    BY <1>2, <1>4, <1>6, <1>7 DEF Closes
  <1> QED
    BY <1>1, <1>8, <1>9, CloseStep

\* An end that hears the id of the other, or goes on, sends what the router has.
LEMMA CarriesTold ==
  ASSUME NEW E, NEW C, NEW W, NEW V, NEW out, E \in [Socket -> SUBSET Node],
         Told(E, C, W), Carries(W, V, out),
         \A s \in Socket, x \in Node : C[s][x] = "closed" => chan[s][x] = "closed"
  PROVE  Told(E, C, V)
  <1>1. ASSUME NEW s \in Socket, NEW x \in E[s]
        PROVE  /\ C[s][x] = "new" => V[s][x] # <<>> /\ Head(V[s][x]) = Hello
               /\ C[s][x] = "closed" => V[s][x] = <<>>
               /\ \A y \in E[s] : C[s][x] # "closed" /\ C[s][y] = "closed"
                                      => Bye \in Listed(V[s][x])
    <2>1. /\ C[s][x] = "new" => W[s][x] # <<>> /\ Head(W[s][x]) = Hello
          /\ C[s][x] = "closed" => W[s][x] = <<>>
          /\ \A y \in E[s] : C[s][x] # "closed" /\ C[s][y] = "closed" => Bye \in Listed(W[s][x])
      BY DEF Told
    <2>2. x \in Node
      OBVIOUS
    <2>3. /\ Grown(W[s][x], V[s][x], Posted(out, x))
          /\ C[s][x] = "closed" => V[s][x] = W[s][x]
      BY <2>2 DEF Carries
    <2> QED
      BY <2>1, <2>3 DEF Grown
  <1> QED
    BY <1>1 DEF Told

\* What the node n gives to its channels p is for its peers.
Addressed(out, p) ==
    IsSeq(out) /\ \A f \in Listed(out) : f[1] \in Node /\ p[f[1]] # NoSocket

LEMMA PopTold ==
  ASSUME ConnInv, NEW s \in Socket, NEW n \in ends[s], wire[s][n] # <<>>,
         Head(wire[s][n]) # Bye, NEW C,
         C = [chan EXCEPT ![s][n] = "open"]
  PROVE  Told(ends, C, Pop(n, s))
  <1>1. /\ ends \in [Socket -> SUBSET Node]
        /\ chan \in [Socket -> [Node -> {"new", "open", "closed"}]]
        /\ IsWires(wire)
    BY DEF ConnInv, Shape
  <1>2. n \in Node
    BY <1>1
  <1>3. \A t \in Socket, x \in Node : C[t][x] = IF t = s /\ x = n THEN "open" ELSE chan[t][x]
    BY <1>1, <1>2
  <1>4. /\ IsWires(Pop(n, s))
        /\ \A t \in Socket, x \in Node :
               Pop(n, s)[t][x] = IF t = s /\ x = n THEN Tail(wire[s][n]) ELSE wire[t][x]
    BY <1>2, PopWires
  <1> DEFINE W == Pop(n, s)
  <1> HIDE DEF W
  <1>5. ASSUME NEW t \in Socket, NEW x \in ends[t]
        PROVE  /\ C[t][x] = "new" => W[t][x] # <<>> /\ Head(W[t][x]) = Hello
               /\ C[t][x] = "closed" => W[t][x] = <<>>
               /\ \A y \in ends[t] : C[t][x] # "closed" /\ C[t][y] = "closed"
                                         => Bye \in Listed(W[t][x])
    <2>1. x \in Node /\ \A y \in ends[t] : y \in Node
      BY <1>1
    <2>2. /\ chan[t][x] = "new" => wire[t][x] # <<>> /\ Head(wire[t][x]) = Hello
          /\ chan[t][x] = "closed" => wire[t][x] = <<>>
          /\ \A y \in ends[t] : chan[t][x] # "closed" /\ chan[t][y] = "closed"
                                    => Bye \in Listed(wire[t][x])
      BY DEF ConnInv, Told
    <2>3. \A y \in ends[t] : C[t][y] = "closed" => chan[t][y] = "closed"
      BY <1>3, <2>1
    <2>4. CASE t = s /\ x = n
      <3>1. C[t][x] = "open" /\ W[t][x] = Tail(wire[s][n]) /\ chan[t][x] # "closed"
        BY <1>3, <1>4, <2>1, <2>2, <2>4 DEF W
      <3>2. \A f \in Listed(wire[s][n]) : f = Head(wire[s][n]) \/ f \in Listed(Tail(wire[s][n]))
        BY <1>1, <1>2, WiresSeq, TailListed
      <3> QED
        BY <2>2, <2>3, <2>4, <3>1, <3>2
    <2>5. CASE ~(t = s /\ x = n)
      <3>1. C[t][x] = chan[t][x] /\ W[t][x] = wire[t][x]
        BY <1>3, <1>4, <2>1, <2>5 DEF W
      <3> QED
        BY <2>2, <2>3, <3>1
    <2> QED
      BY <2>4, <2>5
  <1> QED
    BY <1>5 DEF Told, W

LEMMA PopComes ==
  ASSUME ConnInv, NEW s \in Socket, NEW n \in Node, wire[s][n] # <<>>,
         NEW V, NEW out, Carries(Pop(n, s), V, out)
  PROVE  Comes(wire, V, out)
  <1>1. \A t \in Socket, x \in Node :
            Pop(n, s)[t][x] = IF t = s /\ x = n THEN Tail(wire[s][n]) ELSE wire[t][x]
    BY PopWires
  <1>2. Listed(Tail(wire[s][n])) \subseteq Listed(wire[s][n])
    BY WiresSeq, TailListed DEF ConnInv, Shape
  <1>3. ASSUME NEW t \in Socket, NEW x \in Node
        PROVE  Listed(V[t][x]) \subseteq Listed(wire[t][x]) \cup Posted(out, x)
    <2>1. Listed(V[t][x]) \subseteq Listed(Pop(n, s)[t][x]) \cup Posted(out, x)
      BY DEF Carries, Grown
    <2>2. Listed(Pop(n, s)[t][x]) \subseteq Listed(wire[t][x])
      BY <1>1, <1>2
    <2> QED
      BY <2>1, <2>2
  <1> QED
    BY <1>3 DEF Comes

LEMMA NotBye ==
  ASSUME NEW f, f[1] \in {"hello", "data"}
  PROVE  f # Bye
  <1>1. Bye[1] = "close"
    BY DEF Bye
  <1> QED
    BY <1>1

LEMMA ReceiveStep ==
  ASSUME ConnInv, NEW s \in Socket, NEW n \in ends[s], NEW out,
         Addressed(out, peers[n]), Receive(n, s, out)
  PROVE  ConnInv' /\ Comes(wire, wire', out)
  <1>1. /\ wire[s][n] # <<>> /\ Head(wire[s][n])[1] = "data" /\ chan[s][n] = "open"
        /\ wire' = Transmit(Pop(n, s), peers[n], out)
        /\ ends' = ends /\ chan' = chan /\ peers' = peers /\ stopped' = stopped
    BY DEF Receive, NextFrame
  <1>2. /\ ends \in [Socket -> SUBSET Node]
        /\ chan \in [Socket -> [Node -> {"new", "open", "closed"}]]
        /\ peers \in [Node -> [Node -> Socket \cup {NoSocket}]]
    BY DEF ConnInv, Shape
  <1>3. n \in Node
    BY <1>2
  <1>4. Carries(Pop(n, s), wire', out)
    <2>1. \A f \in Listed(out) : f[1] \in Node /\ peers[n][f[1]] \in Socket
      BY <1>2, <1>3 DEF Addressed
    <2> QED
      BY <1>1, <1>3, <2>1, PopWires, TransmitCarries DEF Addressed
  <1>5. Told(ends, chan, Pop(n, s))
    <2>1. Head(wire[s][n]) # Bye
      BY <1>1, NotBye
    <2>2. chan = [chan EXCEPT ![s][n] = "open"]
      BY <1>1, <1>2, <1>3
    <2> QED
      BY <1>1, <2>1, <2>2, PopTold
  <1>6. Told(ends, chan, wire')
    BY <1>2, <1>4, <1>5, CarriesTold
  <1>7. IsWires(wire')
    BY <1>4 DEF Carries
  <1>8. Comes(wire, wire', out)
    BY <1>1, <1>3, <1>4, PopComes
  <1> QED
    BY <1>1, <1>6, <1>7, <1>8 DEF ConnInv, Shape

LEMMA EmitStep ==
  ASSUME ConnInv, NEW n \in Node, NEW out, Addressed(out, peers[n]), Emit(n, out)
  PROVE  ConnInv' /\ Comes(wire, wire', out)
  <1>1. /\ wire' = Transmit(wire, peers[n], out)
        /\ ends' = ends /\ chan' = chan /\ peers' = peers /\ stopped' = stopped
    BY DEF Emit
  <1>2. /\ ends \in [Socket -> SUBSET Node]
        /\ peers \in [Node -> [Node -> Socket \cup {NoSocket}]]
        /\ IsWires(wire)
    BY DEF ConnInv, Shape
  <1>3. Carries(wire, wire', out)
    <2>1. \A f \in Listed(out) : f[1] \in Node /\ peers[n][f[1]] \in Socket
      BY <1>2 DEF Addressed
    <2> QED
      BY <1>1, <1>2, <2>1, TransmitCarries DEF Addressed
  <1>4. Told(ends, chan, wire')
    BY <1>2, <1>3, CarriesTold DEF ConnInv
  <1>5. IsWires(wire') /\ Comes(wire, wire', out)
    BY <1>3 DEF Carries, Comes, Grown
  <1> QED
    BY <1>1, <1>4, <1>5 DEF ConnInv, Shape

LEMMA OpenStep ==
  ASSUME ConnInv, NEW s \in Socket, NEW n \in ends[s], NEW out,
         Addressed(out, [peers[n] EXCEPT ![Other(s, n)] = s]), Open(n, s, out)
  PROVE  ConnInv' /\ Comes(wire, wire', out)
  <1> DEFINE m == Other(s, n)
             p == [peers[n] EXCEPT ![m] = s]
  <1>1. n \in Node /\ m \in Node /\ m # n /\ ends[s] = {n, m}
    BY OtherEnd
  <1>2. /\ ends \in [Socket -> SUBSET Node]
        /\ chan \in [Socket -> [Node -> {"new", "open", "closed"}]]
        /\ peers \in [Node -> [Node -> Socket \cup {NoSocket}]]
    BY DEF ConnInv, Shape
  <1>3. /\ wire[s][n] # <<>> /\ Head(wire[s][n])[1] = "hello" /\ peers[n][m] = NoSocket
        /\ chan' = [chan EXCEPT ![s][n] = "open"]
        /\ peers' = [peers EXCEPT ![n][m] = s]
        /\ wire' = Transmit(Pop(n, s), [peers EXCEPT ![n][m] = s][n], out)
        /\ ends' = ends /\ stopped' = stopped
    BY DEF Open, NextFrame
  <1>4. Addressed(out, p)
    OBVIOUS
  <1> HIDE DEF m
  <1>5. [peers EXCEPT ![n][m] = s][n] = p
    BY <1>1, <1>2
  <1>6. /\ \A x, y \in Node : peers'[x][y] = IF x = n /\ y = m THEN s ELSE peers[x][y]
        /\ \A t \in Socket, x \in Node :
               chan'[t][x] = IF t = s /\ x = n THEN "open" ELSE chan[t][x]
        /\ peers' \in [Node -> [Node -> Socket \cup {NoSocket}]]
        /\ chan' \in [Socket -> [Node -> {"new", "open", "closed"}]]
    BY <1>1, <1>2, <1>3
  <1>7. p \in [Node -> Socket \cup {NoSocket}]
    BY <1>1, <1>2
  <1> HIDE DEF p
  <1>8. Carries(Pop(n, s), wire', out)
    <2>1. \A f \in Listed(out) : f[1] \in Node /\ p[f[1]] \in Socket
      BY <1>4, <1>7 DEF Addressed
    <2> QED
      BY <1>1, <1>3, <1>4, <1>5, <2>1, PopWires, TransmitCarries DEF Addressed
  <1>9. chan[s][n] = "new"
    <2>1. chan[s][n] # "closed"
      BY <1>3 DEF ConnInv, Told
    <2>2. chan[s][n] # "open"
      <3>1. Linked(ends, chan, peers)
        BY DEF ConnInv
      <3>2. chan[s][n] = "open" <=> peers[n][m] = s
        BY <1>1, <3>1 DEF Linked
      <3> QED
        BY <1>3, <3>2, ConnectionsAssumption
    <2> QED
      BY <1>1, <1>2, <2>1, <2>2
  <1>10. Told(ends, chan', wire')
    <2>1. Head(wire[s][n]) # Bye
      BY <1>3, NotBye
    <2>2. Told(ends, chan', Pop(n, s))
      BY <1>3, <2>1, PopTold
    <2>3. \A t \in Socket, x \in Node : chan'[t][x] = "closed" => chan[t][x] = "closed"
      BY <1>6
    <2> QED
      BY <1>2, <1>8, <2>2, <2>3, CarriesTold
  <1>11. Linked(ends, chan', peers')
    <2>1. Linked(ends, chan, peers)
      BY DEF ConnInv
    <2>2. ASSUME NEW t \in Socket, NEW x \in ends[t], NEW y \in ends[t], x # y
          PROVE  chan'[t][x] = "open" <=> peers'[x][y] = t
      <3>1. x \in Node /\ y \in Node
        BY <1>2
      <3>2. chan[t][x] = "open" <=> peers[x][y] = t
        BY <2>1, <2>2 DEF Linked
      <3>3. CASE x = n /\ y = m
        <4>1. peers[x][y] # t
          BY <1>3, <3>3, ConnectionsAssumption
        <4> QED
          BY <1>6, <3>1, <3>2, <3>3, <4>1
      <3>4. CASE ~(x = n /\ y = m)
        <4>1. ~(t = s /\ x = n)
          BY <1>1, <2>2, <3>4
        <4> QED
          BY <1>6, <3>1, <3>2, <3>4, <4>1
      <3> QED
        BY <3>3, <3>4
    <2>3. ASSUME NEW x \in Node, NEW y \in Node, peers'[x][y] # NoSocket
          PROVE  x # y /\ ends[peers'[x][y]] = {x, y}
      <3>1. CASE x = n /\ y = m
        BY <1>1, <1>6, <3>1
      <3>2. CASE ~(x = n /\ y = m)
        <4>1. peers'[x][y] = peers[x][y]
          BY <1>6, <3>2
        <4> QED
          BY <2>1, <2>3, <4>1 DEF Linked
      <3> QED
        BY <3>1, <3>2
    <2> QED
      BY <2>2, <2>3 DEF Linked
  <1>12. IsWires(wire')
    BY <1>8 DEF Carries
  <1>13. Comes(wire, wire', out)
    BY <1>1, <1>3, <1>8, PopComes
  <1> QED
    BY <1>3, <1>6, <1>10, <1>11, <1>12, <1>13 DEF ConnInv, Shape

\* Both ends know the same once all that was sent has come.
LEMMA ConnSamePeers ==
  ASSUME ConnInv
  PROVE  SamePeers
  <1>1. Linked(ends, chan, peers) /\ Told(ends, chan, wire)
    BY DEF ConnInv
  <1>2. /\ ends \in [Socket -> SUBSET Node]
        /\ chan \in [Socket -> [Node -> {"new", "open", "closed"}]]
    BY DEF ConnInv, Shape
  <1>3. ASSUME NEW s \in Socket, NEW n \in ends[s]
        PROVE  chan[s][n] = "open" <=> peers[n][Other(s, n)] = s
    <2>1. Other(s, n) \in ends[s] /\ Other(s, n) # n
      BY OtherEnd
    <2> QED
      BY <1>1, <2>1 DEF Linked
  <1>4. ASSUME Quiet, NEW n \in Node, NEW m \in Node, peers[n][m] # NoSocket
        PROVE  peers[m][n] = peers[n][m]
    <2> DEFINE s == peers[n][m]
    <2>1. s \in Socket /\ n # m /\ ends[s] = {n, m} /\ chan[s][n] = "open"
      BY <1>4, PeerSocket
    <2> HIDE DEF s
    <2>2. wire[s][n] = <<>> /\ wire[s][m] = <<>>
      BY <1>4, <2>1 DEF Quiet
    <2>3. chan[s][m] # "new"
      BY <1>1, <2>1, <2>2 DEF Told
    <2>4. chan[s][m] # "closed"
      <3>1. Bye \notin Listed(wire[s][n])
        BY <2>2, EmptyListed
      <3> QED
        BY <1>1, <2>1, <3>1 DEF Told
    <2>5. chan[s][m] = "open"
      BY <1>2, <2>1, <2>3, <2>4
    <2>6. peers[m][n] = s
      BY <1>1, <2>1, <2>5 DEF Linked
    <2> QED
      BY <2>6 DEF s
  <1>5. ASSUME Quiet, NEW n \in Node, NEW m \in Node PROVE peers[n][m] = peers[m][n]
    BY <1>4, <1>5
  <1> QED
    BY <1>3, <1>5 DEF SamePeers

-----------------------------------------------------------------------------
(* The routers.  What a router believes rests on what the messages claim: those
   on the wires and those that wait in a queue.  B is what the application and
   the nodes may send: keys of messages with their types; arr is what has come. *)

Born(sc) ==
    {<<KeyOf(m), m.type>> : m \in sc.plan}
        \cup {<<<<<<n, s>>, ">", 0>>, "req">> : n \in Node, s \in Socket}

OneType(B) == \A x, y \in B : x[1] = y[1] => x[2] = y[2]

Fields == {"from", "to", "type", "cmd", "req", "seq", "fuzzy", "acks", "dir", "vv",
           "hops", "rt", "rtts", "range"}

\* The message key was handed to a node.
HandedOver(key, arr, B) ==
    \A T : <<key, T>> \in B => \E a \in arr : a[2] = key /\ a[3] = T /\ a[4]

\* It has come to another node than x.
CameTo(key, x, arr) == \E a \in arr : a[2] = key /\ a[1] # x

\* A message that may be sent on: what it acknowledges has been handed over.
Claim(m, arr, B) ==
    /\ DOMAIN m = Fields
    /\ m.type = "ack" => m.vv = TRUE /\ HandedOver(KeyOf(m), arr, B)
    /\ m.type # "ack" => /\ <<KeyOf(m), m.type>> \in B /\ IsSeq(m.acks)
                         /\ \A key \in Acknowledged(m) : HandedOver(key, arr, B)

\* The acknowledgement of a node that passes a message on: it stays with x.
PassedOn(m, x, arr) ==
    /\ DOMAIN m = Fields
    /\ m.type = "ack" /\ m.vv = FALSE /\ m.to = x /\ m.rt = <<>>
    /\ CameTo(KeyOf(m), x, arr)

WireClaim(m, x, arr, B) == Claim(m, arr, B) \/ PassedOn(m, x, arr)

SeqFields == {"state", "type", "src", "dst", "measured"}

GoodSeq(n, key, s, arr, B) ==
    /\ DOMAIN s = SeqFields /\ <<key, s.type>> \in B
    /\ s.state = "done" => \E a \in arr : a[2] = key /\ a[4]
    /\ s.state = "ack" => CameTo(key, n, arr)

Closed(q, arr) == \E a \in arr : a[2][1] = q /\ a[3] \in LastTypes /\ a[4]

GoodRouter(n, r, arr, B) ==
    /\ DOMAIN r = {"map", "rtt", "queue", "seqs", "reqs"}
    /\ DOMAIN r.reqs = {k[1] : k \in DOMAIN r.seqs}
    /\ \A key \in DOMAIN r.seqs : GoodSeq(n, key, r.seqs[key], arr, B)
    /\ \A q \in DOMAIN r.reqs : r.reqs[q] = "close" => Closed(q, arr)
    /\ IsSeq(r.queue) /\ \A m \in Listed(r.queue) : Claim(m, arr, B)

LEMMA ClaimMore ==
  ASSUME NEW arr, NEW arr2, arr \subseteq arr2, NEW B, NEW m, NEW x
  PROVE  /\ Claim(m, arr, B) => Claim(m, arr2, B)
         /\ WireClaim(m, x, arr, B) => WireClaim(m, x, arr2, B)
  <1>1. \A key : HandedOver(key, arr, B) => HandedOver(key, arr2, B)
    BY DEF HandedOver
  <1>2. \A key : CameTo(key, x, arr) => CameTo(key, x, arr2)
    BY DEF CameTo
  <1>3. Claim(m, arr, B) => Claim(m, arr2, B)
    BY <1>1 DEF Claim
  <1>4. PassedOn(m, x, arr) => PassedOn(m, x, arr2)
    BY <1>2 DEF PassedOn
  <1> QED
    BY <1>3, <1>4 DEF WireClaim

LEMMA RouterMore ==
  ASSUME NEW arr, NEW arr2, arr \subseteq arr2, NEW B, NEW n, NEW r, GoodRouter(n, r, arr, B)
  PROVE  GoodRouter(n, r, arr2, B)
  <1>1. ASSUME NEW key, NEW s, GoodSeq(n, key, s, arr, B) PROVE GoodSeq(n, key, s, arr2, B)
    BY <1>1 DEF GoodSeq, CameTo
  <1>2. \A q : Closed(q, arr) => Closed(q, arr2)
    BY DEF Closed
  <1>3. \A m : Claim(m, arr, B) => Claim(m, arr2, B)
    BY ClaimMore
  <1> QED
    BY <1>1, <1>2, <1>3 DEF GoodRouter

\* The measured time and the routing table are nothing that a message claims.
LEMMA RttGood ==
  ASSUME NEW n, NEW r, NEW P, NEW key, NEW from, NEW direct, NEW arr, NEW B,
         GoodRouter(n, r, arr, B), key \in DOMAIN r.seqs
  PROVE  GoodRouter(n, UpdateRttFromAck(n, r, P, key, from, direct), arr, B)
  <1> DEFINE R == UpdateRttFromAck(n, r, P, key, from, direct)
             T == [r.seqs EXCEPT ![key].measured = TRUE]
  <1>1. /\ DOMAIN r = {"map", "rtt", "queue", "seqs", "reqs"}
        /\ DOMAIN r.seqs[key] = SeqFields
    BY DEF GoodRouter, GoodSeq
  <1>2. /\ DOMAIN R = DOMAIN r /\ R.queue = r.queue /\ R.reqs = r.reqs
        /\ R.seqs = r.seqs \/ R.seqs = T
    BY <1>1 DEF UpdateRttFromAck
  <1>3. /\ DOMAIN T = DOMAIN r.seqs
        /\ \A k \in DOMAIN T : k # key => T[k] = r.seqs[k]
        /\ DOMAIN T[key] = SeqFields
        /\ T[key].type = r.seqs[key].type /\ T[key].state = r.seqs[key].state
    BY <1>1 DEF SeqFields
  <1> HIDE DEF R, T
  <1>4. ASSUME NEW k \in DOMAIN r.seqs PROVE GoodSeq(n, k, T[k], arr, B)
    <2>1. GoodSeq(n, k, r.seqs[k], arr, B)
      BY DEF GoodRouter
    <2>2. CASE k = key
      BY <1>3, <2>1, <2>2 DEF GoodSeq
    <2>3. CASE k # key
      BY <1>3, <2>1, <2>3
    <2> QED
      BY <2>2, <2>3
  <1>5. GoodRouter(n, R, arr, B)
    BY <1>2, <1>3, <1>4 DEF GoodRouter
  <1> QED
    BY <1>5 DEF R

LEMMA TrackAckGood ==
  ASSUME NEW n, NEW r, NEW P, NEW from, NEW key, NEW vv \in BOOLEAN, NEW direct, NEW arr, NEW B,
         GoodRouter(n, r, arr, B),
         vv => HandedOver(key, arr, B), ~vv => CameTo(key, n, arr)
  PROVE  GoodRouter(n, TrackAck(n, r, P, from, key, vv, direct), arr, B)
  <1> DEFINE s == SeqOf(r, key)
             state == IF vv THEN "done" ELSE "ack"
             req == CASE vv /\ s.type \in LastTypes -> "close"
                      [] vv /\ s.type \notin LastTypes /\ key[2] = ">" -> "open"
                      [] OTHER -> ReqOf(r, key[1])
             R == [r EXCEPT !.seqs[key].state = state, !.reqs[key[1]] = req]
  <1>1. TrackAck(n, r, P, from, key, vv, direct) =
            IF s.state = None THEN r ELSE UpdateRttFromAck(n, R, P, key, from, direct)
    BY DEF TrackAck
  <1>2. CASE s.state = None
    BY <1>1, <1>2
  <1>3. CASE s.state # None
    <2>1. key \in DOMAIN r.seqs /\ s = r.seqs[key]
      BY <1>3 DEF SeqOf, Untracked
    <2>2. /\ DOMAIN r = {"map", "rtt", "queue", "seqs", "reqs"}
          /\ DOMAIN r.reqs = {k[1] : k \in DOMAIN r.seqs}
          /\ \A k \in DOMAIN r.seqs : GoodSeq(n, k, r.seqs[k], arr, B)
          /\ \A q \in DOMAIN r.reqs : r.reqs[q] = "close" => Closed(q, arr)
          /\ IsSeq(r.queue) /\ \A m \in Listed(r.queue) : Claim(m, arr, B)
      BY DEF GoodRouter
    <2>3. GoodSeq(n, key, s, arr, B)
      BY <2>1, <2>2
    <2>4. key[1] \in DOMAIN r.reqs
      BY <2>1, <2>2
    <2>5. req = "close" => Closed(key[1], arr)
      <3>1. CASE vv /\ s.type \in LastTypes
        <4>1. PICK a \in arr : a[2] = key /\ a[3] = s.type /\ a[4]
          BY <2>3, <3>1 DEF HandedOver, GoodSeq
        <4> QED
          BY <3>1, <4>1 DEF Closed
      <3>2. CASE vv /\ s.type \notin LastTypes /\ key[2] = ">"
        <4>1. req = "open"
          BY <3>2
        <4> HIDE DEF req
        <4> QED
          BY <4>1
      <3>3. CASE ~(vv /\ s.type \in LastTypes) /\ ~(vv /\ s.type \notin LastTypes /\ key[2] = ">")
        <4>1. req = ReqOf(r, key[1])
          BY <3>3
        <4>2. req = r.reqs[key[1]]
          BY <2>4, <4>1 DEF ReqOf
        <4> HIDE DEF req
        <4> QED
          BY <2>2, <2>4, <4>2
      <3> QED
        BY <3>1, <3>2, <3>3
    <2> DEFINE t == [s EXCEPT !.state = state]
    <2>6. GoodSeq(n, key, t, arr, B)
      <3>1. DOMAIN t = SeqFields /\ t.type = s.type /\ t.state = state
        BY <2>3 DEF GoodSeq, SeqFields
      <3>2. <<key, s.type>> \in B
        BY <2>3 DEF GoodSeq
      <3> HIDE DEF t
      <3>3. CASE vv
        <4>1. \E a \in arr : a[2] = key /\ a[4]
          BY <3>2, <3>3 DEF HandedOver
        <4>2. t.state = "done"
          BY <3>1, <3>3
        <4> QED
          BY <3>1, <3>2, <4>1, <4>2 DEF GoodSeq
      <3>4. CASE ~vv
        <4>1. t.state = "ack"
          BY <3>1, <3>4
        <4> QED
          BY <3>1, <3>2, <3>4, <4>1 DEF GoodSeq
      <3> QED
        BY <3>3, <3>4
    <2> HIDE DEF state, req, s, t
    <2>7. /\ DOMAIN R = DOMAIN r /\ R.queue = r.queue
          /\ R.seqs = [r.seqs EXCEPT ![key].state = state]
          /\ R.reqs = [r.reqs EXCEPT ![key[1]] = req]
      BY <2>2
    <2> HIDE DEF R
    <2>8. /\ DOMAIN R.seqs = DOMAIN r.seqs /\ DOMAIN R.reqs = DOMAIN r.reqs
          /\ \A k \in DOMAIN r.seqs : R.seqs[k] = IF k = key THEN t ELSE r.seqs[k]
          /\ \A q \in DOMAIN r.reqs : R.reqs[q] = IF q = key[1] THEN req ELSE r.reqs[q]
      BY <2>1, <2>4, <2>7 DEF t
    <2>9. \A k \in DOMAIN R.seqs : GoodSeq(n, k, R.seqs[k], arr, B)
      BY <2>2, <2>6, <2>8
    <2>10. \A q \in DOMAIN R.reqs : R.reqs[q] = "close" => Closed(q, arr)
      BY <2>2, <2>5, <2>8
    <2>11. GoodRouter(n, R, arr, B)
      BY <2>2, <2>7, <2>8, <2>9, <2>10 DEF GoodRouter
    <2>12. key \in DOMAIN R.seqs
      BY <2>1, <2>8
    <2> QED
      BY <1>1, <1>3, <2>11, <2>12, RttGood DEF s
  <1> QED
    BY <1>2, <1>3

\* at[k] is the router after k of the numbers that m acknowledges.
Tracks(at, K, n, r, P, m) ==
    at = [k \in 0 .. K |->
             IF k = 0 THEN r
             ELSE TrackAck(n, at[k - 1], P, m.from, <<m.req, TypeToRdir(m.type), m.acks[k]>>,
                           TRUE, From0(m) = m.from)]

LEMMA TracksExist ==
  ASSUME NEW n, NEW r, NEW P, NEW m, NEW K \in Nat
  PROVE  \E at : Tracks(at, K, n, r, P, m)
  <1> DEFINE Bad == {j \in Nat : ~ \E at : Tracks(at, j, n, r, P, m)}
  <1>1. SUFFICES ASSUME Bad # {} PROVE FALSE
    BY <1>1
  <1>2. PICK j \in Bad : \A i \in Bad : j <= i
    <2>1. Bad \subseteq Nat
      OBVIOUS
    <2> HIDE DEF Bad
    <2> QED
      BY <1>1, <2>1, LeastNat
  <1>3. j \in Nat /\ ~ \E at : Tracks(at, j, n, r, P, m)
    OBVIOUS
  <1>4. CASE j = 0
    <2> DEFINE at == [k \in 0 .. 0 |-> r]
    <2>1. \A k \in 0 .. 0 : k = 0
      OBVIOUS
    <2>2. Tracks(at, 0, n, r, P, m)
      BY <2>1 DEF Tracks
    <2> QED
      BY <1>3, <1>4, <2>2
  <1>5. CASE j # 0
    <2>1. j - 1 \in Nat /\ j - 1 \notin Bad
      BY <1>2, <1>3, <1>5
    <2>2. PICK g : Tracks(g, j - 1, n, r, P, m)
      BY <2>1
    <2> DEFINE Step(k, v) ==
                 IF k = 0 THEN r
                 ELSE TrackAck(n, v, P, m.from, <<m.req, TypeToRdir(m.type), m.acks[k]>>,
                               TRUE, From0(m) = m.from)
               h == [k \in 0 .. j |-> IF k \in 0 .. j - 1 THEN g[k] ELSE Step(k, g[k - 1])]
    <2>3. \A k \in 0 .. j - 1 : g[k] = Step(k, g[k - 1])
      BY <2>2 DEF Tracks
    <2>4. ASSUME NEW k \in 0 .. j PROVE h[k] = Step(k, h[k - 1])
      <3>1. CASE k = 0
        BY <3>1, <2>1, <2>3
      <3>2. CASE k # 0
        <4>1. k - 1 \in 0 .. j - 1 /\ k - 1 \in 0 .. j
          BY <3>2, <1>3
        <4>2. h[k - 1] = g[k - 1]
          BY <4>1
        <4>3. h[k] = Step(k, g[k - 1])
          <5> HIDE DEF Step
          <5> QED
            BY <2>3
        <4> HIDE DEF h, Step
        <4> QED
          BY <4>2, <4>3
      <3> QED
        BY <3>1, <3>2
    <2>5. h = [k \in 0 .. j |-> Step(k, h[k - 1])]
      <3>1. \A k \in 0 .. j : h[k] = Step(k, h[k - 1])
        BY <2>4
      <3>2. h = [k \in 0 .. j |-> h[k]]
        OBVIOUS
      <3> HIDE DEF h, Step
      <3> QED
        BY <3>1, <3>2
    <2>6. Tracks(h, j, n, r, P, m)
      BY <2>5 DEF Tracks
    <2> QED
      BY <1>3, <2>6
  <1> QED
    BY <1>4, <1>5

LEMMA TrackAcksGood ==
  ASSUME NEW n, NEW r, NEW P, NEW m, NEW arr, NEW B, GoodRouter(n, r, arr, B),
         Claim(m, arr, B), m.type # "ack"
  PROVE  GoodRouter(n, TrackAcks(n, r, P, m), arr, B)
  <1>1. IsSeq(m.acks) /\ \A key \in Acknowledged(m) : HandedOver(key, arr, B)
    BY DEF Claim
  <1>2. Len(m.acks) \in Nat /\ DOMAIN m.acks = 1 .. Len(m.acks)
    BY <1>1 DEF IsSeq
  <1> DEFINE K == Len(m.acks)
             at == CHOOSE g : Tracks(g, K, n, r, P, m)
  <1>3. Tracks(at, K, n, r, P, m)
    BY <1>2, TracksExist
  <1>4. TrackAcks(n, r, P, m) = at[K]
    BY DEF TrackAcks, Tracks
  <1> HIDE DEF at
  <1> DEFINE Bad == {k \in 0 .. K : ~GoodRouter(n, at[k], arr, B)}
  <1>5. SUFFICES ASSUME Bad # {} PROVE FALSE
    BY <1>2, <1>4, <1>5
  <1>6. PICK k \in Bad : \A i \in Bad : k <= i
    <2>1. Bad \subseteq Nat
      BY <1>2
    <2> HIDE DEF Bad
    <2> QED
      BY <1>5, <2>1, LeastNat
  <1>7. k \in 0 .. K /\ ~GoodRouter(n, at[k], arr, B)
    OBVIOUS
  <1>8. CASE k = 0
    <2>1. at[k] = r
      BY <1>3, <1>7, <1>8 DEF Tracks
    <2> QED
      BY <1>7, <2>1
  <1>9. CASE k # 0
    <2>1. k - 1 \in 0 .. K /\ k - 1 \notin Bad /\ k \in DOMAIN m.acks
      BY <1>2, <1>6, <1>7, <1>9
    <2> DEFINE v == at[k - 1]
               key == <<m.req, TypeToRdir(m.type), m.acks[k]>>
               direct == From0(m) = m.from
    <2>2. GoodRouter(n, v, arr, B)
      BY <2>1
    <2>3. at[k] = TrackAck(n, v, P, m.from, key, TRUE, direct)
      BY <1>3, <1>7, <1>9 DEF Tracks
    <2>4. HandedOver(key, arr, B)
      BY <1>1, <2>1 DEF Acknowledged
    <2> HIDE DEF v, key, direct, Bad
    <2>5. GoodRouter(n, TrackAck(n, v, P, m.from, key, TRUE, direct), arr, B)
      BY <2>2, <2>4, TrackAckGood
    <2> QED
      BY <1>7, <2>3, <2>5
  <1> QED
    BY <1>8, <1>9

LEMMA TrackMsgGood ==
  ASSUME NEW n, NEW r, NEW m, NEW arr, NEW B, GoodRouter(n, r, arr, B),
         <<KeyOf(m), m.type>> \in B
  PROVE  GoodRouter(n, TrackMsg(n, r, m), arr, B)
  <1> DEFINE key == KeyOf(m)
             s == IF key \in DOMAIN r.seqs THEN r.seqs[key]
                  ELSE [state |-> "in", type |-> m.type, src |-> From0(m), dst |-> To0(m),
                        measured |-> FALSE]
             state == IF From0(m) = n THEN "out" ELSE "in"
             now == [s EXCEPT !.state = state]
             req == CASE m.type \in LastTypes -> "closing"
                      [] m.type \notin LastTypes /\ ReqOf(r, m.req) = None -> "opening"
                      [] OTHER -> ReqOf(r, m.req)
             R == [r EXCEPT !.seqs = Noted(@, key, now), !.reqs = Noted(@, m.req, req)]
  <1>1. TrackMsg(n, r, m) = IF s.state = "ack" THEN r ELSE R
    BY DEF TrackMsg
  <1>2. /\ DOMAIN r = {"map", "rtt", "queue", "seqs", "reqs"}
        /\ DOMAIN r.reqs = {k[1] : k \in DOMAIN r.seqs}
        /\ \A k \in DOMAIN r.seqs : GoodSeq(n, k, r.seqs[k], arr, B)
        /\ \A q \in DOMAIN r.reqs : r.reqs[q] = "close" => Closed(q, arr)
        /\ IsSeq(r.queue) /\ \A x \in Listed(r.queue) : Claim(x, arr, B)
    BY DEF GoodRouter
  <1>3. key[1] = m.req
    BY DEF KeyOf
  <1>4. DOMAIN s = SeqFields /\ <<key, s.type>> \in B
    <2>1. CASE key \in DOMAIN r.seqs
      BY <1>2, <2>1 DEF GoodSeq
    <2>2. CASE key \notin DOMAIN r.seqs
      <3> DEFINE t == [state |-> "in", type |-> m.type, src |-> From0(m), dst |-> To0(m),
                       measured |-> FALSE]
      <3>1. DOMAIN t = SeqFields /\ t.type = m.type
        BY DEF SeqFields
      <3>2. s = t
        BY <2>2
      <3> HIDE DEF s, t
      <3> QED
        BY <3>1, <3>2
    <2> QED
      BY <2>1, <2>2
  <1> HIDE DEF s
  <1>5. GoodSeq(n, key, now, arr, B)
    <2>1. /\ DOMAIN now = SeqFields /\ now.type = s.type
          /\ now.state = "out" \/ now.state = "in"
      BY <1>4 DEF SeqFields
    <2> HIDE DEF now
    <2> QED
      BY <1>4, <2>1 DEF GoodSeq
  <1>6. req = "close" => Closed(m.req, arr)
    <2>1. CASE m.type \in LastTypes
      BY <2>1
    <2>2. CASE m.type \notin LastTypes /\ ReqOf(r, m.req) = None
      <3>1. req = "opening"
        BY <2>2
      <3> HIDE DEF req
      <3> QED
        BY <3>1
    <2>3. CASE m.type \notin LastTypes /\ ReqOf(r, m.req) # None
      <3>1. req = ReqOf(r, m.req)
        BY <2>3
      <3>2. m.req \in DOMAIN r.reqs /\ req = r.reqs[m.req]
        BY <2>3, <3>1 DEF ReqOf
      <3> HIDE DEF req
      <3> QED
        BY <1>2, <3>2
    <2> QED
      BY <2>1, <2>2, <2>3
  <1> HIDE DEF req, now, key
  <1>7. /\ DOMAIN R = DOMAIN r /\ R.queue = r.queue
        /\ R.seqs = Noted(r.seqs, key, now) /\ R.reqs = Noted(r.reqs, m.req, req)
    BY <1>2
  <1> HIDE DEF R
  <1>8. /\ DOMAIN R.seqs = DOMAIN r.seqs \cup {key}
        /\ DOMAIN R.reqs = DOMAIN r.reqs \cup {m.req}
        /\ \A k \in DOMAIN R.seqs : R.seqs[k] = IF k = key THEN now ELSE r.seqs[k]
        /\ \A q \in DOMAIN R.reqs : R.reqs[q] = IF q = m.req THEN req ELSE r.reqs[q]
    BY <1>7 DEF Noted
  <1>9. DOMAIN R.reqs = {k[1] : k \in DOMAIN R.seqs}
    BY <1>2, <1>3, <1>8
  <1>10. \A k \in DOMAIN R.seqs : GoodSeq(n, k, R.seqs[k], arr, B)
    BY <1>2, <1>5, <1>8
  <1>11. \A q \in DOMAIN R.reqs : R.reqs[q] = "close" => Closed(q, arr)
    BY <1>2, <1>6, <1>8
  <1>12. GoodRouter(n, R, arr, B)
    BY <1>2, <1>7, <1>9, <1>10, <1>11 DEF GoodRouter
  <1> QED
    BY <1>1, <1>12

\* A message is tracked where it comes, or where it is sent on.
LEMMA TrackGood ==
  ASSUME NEW n, NEW r, NEW P, NEW m, NEW arr, NEW B, GoodRouter(n, r, arr, B),
         WireClaim(m, n, arr, B)
  PROVE  GoodRouter(n, Track(n, r, P, m), arr, B)
  <1> DEFINE direct == From0(m) = m.from
             key == KeyOf(m)
  <1>1. CASE m.type = "ack"
    <2>1. Track(n, r, P, m) = TrackAck(n, r, P, m.from, key, m.vv, direct)
      BY <1>1 DEF Track
    <2>2. (m.vv = TRUE /\ HandedOver(key, arr, B)) \/ (m.vv = FALSE /\ CameTo(key, n, arr))
      BY <1>1 DEF WireClaim, Claim, PassedOn
    <2> HIDE DEF direct, key
    <2>3. CASE m.vv = TRUE /\ HandedOver(key, arr, B)
      <3>1. GoodRouter(n, TrackAck(n, r, P, m.from, key, TRUE, direct), arr, B)
        BY <2>3, TrackAckGood
      <3> QED
        BY <2>1, <2>3, <3>1
    <2>4. CASE m.vv = FALSE /\ CameTo(key, n, arr)
      <3>1. GoodRouter(n, TrackAck(n, r, P, m.from, key, FALSE, direct), arr, B)
        BY <2>4, TrackAckGood
      <3> QED
        BY <2>1, <2>4, <3>1
    <2> QED
      BY <2>2, <2>3, <2>4
  <1>2. CASE m.type # "ack"
    <2>1. Claim(m, arr, B) /\ <<KeyOf(m), m.type>> \in B
      BY <1>2 DEF WireClaim, PassedOn, Claim
    <2>2. GoodRouter(n, TrackAcks(n, r, P, m), arr, B)
      BY <1>2, <2>1, TrackAcksGood
    <2>3. GoodRouter(n, TrackMsg(n, TrackAcks(n, r, P, m), m), arr, B)
      BY <2>1, <2>2, TrackMsgGood
    <2> QED
      BY <1>2, <2>3 DEF Track
  <1> QED
    BY <1>1, <1>2

\* send_prepare: the next node is a neighbour, and what a message claims, and
\* whose it is, stays.
LEMMA PrepareGood ==
  ASSUME NEW n, NEW r, NEW P, NEW m, NEW arr, NEW B, Claim(m, arr, B)
  PROVE  LET o == SendPrepare(n, r, P, m)
         IN  (o.next = NoNode \/ o.next \in P) /\ Claim(o.m, arr, B)
  <1> DEFINE o == SendPrepare(n, r, P, m)
             Same(w) == /\ DOMAIN w = Fields /\ w.type = m.type /\ w.vv = m.vv /\ w.req = m.req
                        /\ w.dir = m.dir /\ w.seq = m.seq /\ w.acks = m.acks
  <1>1. DOMAIN m = Fields
    BY DEF Claim
  <1>2. ASSUME NEW w, Same(w) PROVE Claim(w, arr, B)
    <2>1. KeyOf(w) = KeyOf(m) /\ Acknowledged(w) = Acknowledged(m)
      BY <1>2 DEF KeyOf, Acknowledged
    <2> QED
      BY <1>2, <2>1 DEF Claim
  <1>3. ASSUME NEW path PROVE Same(Wrap(n, r, m, path))
    BY <1>1 DEF Wrap, Fields
  <1>4. ASSUME NEW path
        PROVE  LET v == Over(n, r, P, m, path)
               IN  (v.next = NoNode \/ v.next \in P) /\ Same(v.m)
    <2>1. CASE Usable(P, path)
      <3>1. Over(n, r, P, m, path) = [next |-> Head(path), m |-> Wrap(n, r, m, path), vv |-> FALSE]
        BY <2>1 DEF Over
      <3>2. Head(path) \in P
        BY <2>1 DEF Usable
      <3> HIDE DEF Same
      <3> QED
        BY <1>3, <3>1, <3>2
    <2>2. CASE ~Usable(P, path)
      <3>1. Over(n, r, P, m, path) = [next |-> NoNode, m |-> m, vv |-> m.fuzzy /\ m.rt = <<>>]
        BY <2>2 DEF Over
      <3>2. Same(m)
        BY <1>1
      <3> HIDE DEF Same
      <3> QED
        BY <3>1, <3>2
    <2> QED
      BY <2>1, <2>2
  <1>5. Same(m)
    BY <1>1
  <1> HIDE DEF Same
  <1>6. (o.next = NoNode \/ o.next \in P) /\ Same(o.m)
    <2>1. CASE Len(m.hops) >= MaxHops
      <3>1. o = [next |-> NoNode, m |-> m, vv |-> FALSE]
        BY <2>1 DEF SendPrepare
      <3> HIDE DEF o
      <3> QED
        BY <1>5, <3>1
    <2>2. CASE ~(Len(m.hops) >= MaxHops)
      <3> DEFINE path == IF m.fuzzy THEN FuzzyPath(n, r, P, m) ELSE ExactPath(n, r, P, m)
      <3>1. o = Over(n, r, P, m, path)
        BY <2>2 DEF SendPrepare
      <3> HIDE DEF path, o
      <3> QED
        BY <1>4, <3>1
    <2> QED
      BY <2>1, <2>2
  <1> HIDE DEF o
  <1>7. (o.next = NoNode \/ o.next \in P) /\ Claim(o.m, arr, B)
    BY <1>2, <1>6
  <1> QED
    BY <1>7 DEF o

-----------------------------------------------------------------------------
(* What a step of the router of n leaves behind.                              *)

\* The messages out go to nodes of P, as they may.
Sends(out, P, arr, B) ==
    IsSeq(out) /\ \A f \in Listed(out) : f[1] \in P /\ WireClaim(f[2], f[1], arr, B)

\* The messages that the node is given are such as may be sent.
Given(up, B) == \A m \in up : m.type # "ack" => <<KeyOf(m), m.type>> \in B

Good(n, d, P, arr, B) ==
    GoodRouter(n, d.r, arr, B) /\ Sends(d.out, P, arr, B) /\ Given(d.up, B)

LEMMA SendsNone ==
  ASSUME NEW P, NEW arr, NEW B
  PROVE  Sends(<<>>, P, arr, B)
  BY EmptyListed DEF Sends

LEMMA SendsOne ==
  ASSUME NEW P, NEW arr, NEW B, NEW x \in P, NEW m, WireClaim(m, x, arr, B)
  PROVE  Sends(<<<<x, m>>>>, P, arr, B)
  <1> DEFINE f == <<x, m>>
  <1>1. f[1] = x /\ f[2] = m
    OBVIOUS
  <1> HIDE DEF f
  <1>2. Listed(<<f>>) = {f} /\ IsSeq(<<f>>)
    BY OneListed
  <1>3. Sends(<<f>>, P, arr, B)
    BY <1>1, <1>2 DEF Sends
  <1> QED
    BY <1>3 DEF f

LEMMA SendsBoth ==
  ASSUME NEW P, NEW arr, NEW B, NEW v, NEW w, Sends(v, P, arr, B), Sends(w, P, arr, B)
  PROVE  Sends(v \o w, P, arr, B)
  <1>1. IsSeq(v \o w) /\ Listed(v \o w) \subseteq Listed(v) \cup Listed(w)
    BY ConcatListed DEF Sends
  <1> QED
    BY <1>1 DEF Sends

LEMMA GoodThen ==
  ASSUME NEW n, NEW P, NEW arr, NEW B, NEW d, NEW e,
         Sends(d.out, P, arr, B), Given(d.up, B), Good(n, e, P, arr, B)
  PROVE  Good(n, Then(d, e), P, arr, B)
  <1>1. Sends(d.out \o e.out, P, arr, B)
    BY SendsBoth DEF Good
  <1>2. Given(d.up \cup e.up, B)
    BY DEF Good, Given
  <1>3. GoodRouter(n, e.r, arr, B)
    BY DEF Good
  <1>4. /\ Then(d, e).r = e.r /\ Then(d, e).out = d.out \o e.out
        /\ Then(d, e).up = d.up \cup e.up
    BY DEF Then
  <1> QED
    BY <1>1, <1>2, <1>3, <1>4 DEF Good

LEMMA GoodDone ==
  ASSUME NEW n, NEW P, NEW arr, NEW B, NEW r, GoodRouter(n, r, arr, B)
  PROVE  Good(n, Done(r), P, arr, B)
  <1>1. Done(r).r = r /\ Done(r).out = <<>> /\ Done(r).up = {}
    BY DEF Done
  <1>2. Given({}, B)
    BY DEF Given
  <1> QED
    BY <1>1, <1>2, SendsNone DEF Good

LEMMA QueueGood ==
  ASSUME NEW n, NEW r, NEW arr, NEW B, NEW m, GoodRouter(n, r, arr, B), Claim(m, arr, B)
  PROVE  GoodRouter(n, [r EXCEPT !.queue = Append(@, m)], arr, B)
  <1> DEFINE R == [r EXCEPT !.queue = Append(@, m)]
  <1>1. DOMAIN r = {"map", "rtt", "queue", "seqs", "reqs"}
    BY DEF GoodRouter
  <1>2. /\ DOMAIN R = DOMAIN r /\ R.queue = Append(r.queue, m)
        /\ R.seqs = r.seqs /\ R.reqs = r.reqs
    BY <1>1
  <1> HIDE DEF R
  <1>3. Grown(r.queue, r.queue, {m})
    BY GrownSelf DEF GoodRouter
  <1>4. Grown(r.queue, R.queue, {m})
    BY <1>2, <1>3, GrownAppend
  <1>5. IsSeq(R.queue) /\ \A x \in Listed(R.queue) : Claim(x, arr, B)
    BY <1>4 DEF Grown, GoodRouter
  <1>6. GoodRouter(n, R, arr, B)
    BY <1>2, <1>5 DEF GoodRouter
  <1> QED
    BY <1>6 DEF R

\* _send.
LEMMA SendOverGood ==
  ASSUME NEW n, NEW r, NEW P, NEW m, NEW o, NEW arr, NEW B, GoodRouter(n, r, arr, B),
         Claim(m, arr, B), Claim(o.m, arr, B), o.next = NoNode \/ o.next \in P
  PROVE  Good(n, SendOver(n, r, P, m, o), P, arr, B)
  <1> DEFINE d == SendOver(n, r, P, m, o)
  <1>1. GoodRouter(n, Track(n, r, P, o.m), arr, B)
    BY TrackGood DEF WireClaim
  <1>2. Sends(<<>>, P, arr, B)
    BY SendsNone
  <1>3. o.next # NoNode => Sends(<<<<o.next, o.m>>>>, P, arr, B)
    BY SendsOne DEF WireClaim
  <1>4. Given({m}, B) /\ Given({}, B)
    BY DEF Given, Claim
  <1>5. /\ d.r = Track(n, r, P, o.m)
        /\ d.out = IF o.next # NoNode THEN <<<<o.next, o.m>>>> ELSE <<>>
        /\ d.up = IF o.vv THEN {m} ELSE {}
    BY DEF SendOver
  <1> HIDE DEF d
  <1>6. Good(n, d, P, arr, B)
    BY <1>1, <1>2, <1>3, <1>4, <1>5 DEF Good
  <1> QED
    BY <1>6 DEF d

LEMMA SendGood ==
  ASSUME NEW n, NEW r, NEW P, NEW m, NEW arr, NEW B, GoodRouter(n, r, arr, B), Claim(m, arr, B)
  PROVE  Good(n, Send(n, r, P, m), P, arr, B)
  <1>1. CASE P = {}
    <2> DEFINE R == [r EXCEPT !.queue = Append(@, m)]
    <2>1. GoodRouter(n, R, arr, B)
      BY QueueGood
    <2>2. Send(n, r, P, m) = Done(R)
      BY <1>1 DEF Send
    <2> HIDE DEF R
    <2> QED
      BY <2>1, <2>2, GoodDone
  <1>2. CASE P # {}
    <2> DEFINE o == SendPrepare(n, r, P, m)
    <2>1. (o.next = NoNode \/ o.next \in P) /\ Claim(o.m, arr, B)
      BY PrepareGood
    <2>2. Send(n, r, P, m) = SendOver(n, r, P, m, o)
      BY <1>2 DEF Send
    <2> HIDE DEF o
    <2> QED
      BY <2>1, <2>2, SendOverGood
  <1> QED
    BY <1>1, <1>2

IsAck(a, m, to) ==
    /\ DOMAIN a = Fields /\ a.type = "ack" /\ a.to = to /\ a.rt = <<>>
    /\ m.type # "ack" => KeyOf(a) = KeyOf(m)

LEMMA AckMessage ==
  ASSUME NEW n, NEW m, NEW to
  PROVE  /\ IsAck(Ack(n, m, to, TRUE), m, to) /\ Ack(n, m, to, TRUE).vv = TRUE
         /\ IsAck(Ack(n, m, to, FALSE), m, to) /\ Ack(n, m, to, FALSE).vv = FALSE
  <1> DEFINE w == Message(n, to, "ack", "", m.req, m.seq, FALSE, <<>>)
  <1>1. /\ DOMAIN w = Fields /\ w.type = "ack" /\ w.to = to /\ w.rt = <<>>
        /\ w.req = m.req /\ w.seq = m.seq
    BY DEF Message, Fields
  <1>2. ASSUME NEW a, DOMAIN a = DOMAIN w, a.dir = TypeToDir(m.type),
               \A f \in Fields \ {"dir", "vv"} : a[f] = w[f]
        PROVE  IsAck(a, m, to)
    <2> HIDE DEF w
    <2>1. /\ DOMAIN a = Fields /\ a.type = "ack" /\ a.to = to /\ a.rt = <<>>
          /\ a.req = m.req /\ a.seq = m.seq
      BY <1>1, <1>2 DEF Fields
    <2> QED
      BY <1>2, <2>1 DEF IsAck, KeyOf
  <1>3. /\ Ack(n, m, to, TRUE) = [w EXCEPT !.dir = TypeToDir(m.type), !.vv = TRUE]
        /\ Ack(n, m, to, FALSE) = [w EXCEPT !.dir = TypeToDir(m.type), !.vv = FALSE]
    BY DEF Ack
  <1> HIDE DEF w
  <1> DEFINE yes == [w EXCEPT !.dir = TypeToDir(m.type), !.vv = TRUE]
             no == [w EXCEPT !.dir = TypeToDir(m.type), !.vv = FALSE]
  <1>4. /\ DOMAIN yes = DOMAIN w /\ yes.dir = TypeToDir(m.type) /\ yes.vv = TRUE
        /\ \A f \in Fields \ {"dir", "vv"} : yes[f] = w[f]
    BY <1>1 DEF Fields
  <1>5. /\ DOMAIN no = DOMAIN w /\ no.dir = TypeToDir(m.type) /\ no.vv = FALSE
        /\ \A f \in Fields \ {"dir", "vv"} : no[f] = w[f]
    BY <1>1 DEF Fields
  <1>6. Ack(n, m, to, TRUE) = yes /\ Ack(n, m, to, FALSE) = no
    BY <1>3
  <1> HIDE DEF yes, no
  <1> QED
    BY <1>2, <1>4, <1>5, <1>6

\* An acknowledgement of a message that has been handed to n.
LEMMA AckHanded ==
  ASSUME NEW n, NEW m, NEW to, NEW arr, NEW B, OneType(B), <<KeyOf(m), m.type>> \in B,
         m.type # "ack", <<n, KeyOf(m), m.type, TRUE>> \in arr
  PROVE  Claim(Ack(n, m, to, TRUE), arr, B)
  <1> DEFINE a == Ack(n, m, to, TRUE)
             key == KeyOf(m)
             e == <<n, key, m.type, TRUE>>
  <1>1. DOMAIN a = Fields /\ a.type = "ack" /\ a.vv = TRUE /\ KeyOf(a) = key
    <2>1. IsAck(Ack(n, m, to, TRUE), m, to) /\ Ack(n, m, to, TRUE).vv = TRUE
      BY AckMessage
    <2>2. IsAck(a, m, to) /\ a.vv = TRUE
      BY <2>1
    <2> HIDE DEF a
    <2> QED
      BY <2>2 DEF IsAck
  <1>2. HandedOver(key, arr, B)
    <2>1. e \in arr /\ e[2] = key /\ e[3] = m.type /\ e[4] = TRUE
      OBVIOUS
    <2>2. ASSUME NEW T, <<key, T>> \in B PROVE T = m.type
      <3> DEFINE x == <<key, T>>
                 y == <<key, m.type>>
      <3>1. x \in B /\ y \in B /\ x[1] = y[1] /\ x[2] = T /\ y[2] = m.type
        BY <2>2
      <3> HIDE DEF x, y
      <3> QED
        BY <3>1 DEF OneType
    <2> HIDE DEF e
    <2> QED
      BY <2>1, <2>2 DEF HandedOver
  <1> HIDE DEF a
  <1>3. Claim(a, arr, B)
    BY <1>1, <1>2 DEF Claim
  <1> QED
    BY <1>3 DEF a

LEMMA DeliverGood ==
  ASSUME NEW n, NEW r, NEW P, NEW channel \in P, NEW m, NEW arr, NEW B, OneType(B),
         GoodRouter(n, r, arr, B),
         m.type # "ack" => <<KeyOf(m), m.type>> \in B /\ <<n, KeyOf(m), m.type, TRUE>> \in arr
  PROVE  Good(n, Deliver(n, r, P, channel, m), P, arr, B)
  <1> DEFINE ack == Ack(n, m, m.from, TRUE)
             e == AckArrived(n, r, P, channel, m, ack)
             d == [r |-> r, out |-> <<>>, up |-> {m}]
  <1>1. Deliver(n, r, P, channel, m) = Then(d, e)
    BY DEF Deliver
  <1>2. Good(n, e, P, arr, B)
    <2>1. CASE m.type = "ack"
      <3>1. e = Done(r)
        BY <2>1 DEF AckArrived
      <3> HIDE DEF e
      <3> QED
        BY <3>1, GoodDone
    <2>2. CASE m.type # "ack"
      <3>1. Claim(ack, arr, B)
        BY <2>2, AckHanded
      <3> HIDE DEF ack
      <3>2. CASE m.from = channel
        <4> DEFINE f == [r |-> Track(n, r, P, ack), out |-> <<<<channel, ack>>>>, up |-> {}]
        <4>1. e = f
          BY <2>2, <3>2 DEF AckArrived
        <4>2. GoodRouter(n, Track(n, r, P, ack), arr, B)
          BY <3>1, TrackGood DEF WireClaim
        <4>3. Sends(<<<<channel, ack>>>>, P, arr, B)
          BY <3>1, SendsOne DEF WireClaim
        <4>4. f.r = Track(n, r, P, ack) /\ f.out = <<<<channel, ack>>>> /\ f.up = {}
          OBVIOUS
        <4> HIDE DEF e, f
        <4>5. Given(f.up, B)
          BY <4>4 DEF Given
        <4>6. Good(n, f, P, arr, B)
          BY <4>2, <4>3, <4>4, <4>5 DEF Good
        <4> QED
          BY <4>1, <4>6
      <3>3. CASE m.from # channel
        <4>1. e = Send(n, r, P, ack)
          BY <2>2, <3>3 DEF AckArrived
        <4> HIDE DEF e
        <4> QED
          BY <3>1, <4>1, SendGood
      <3> QED
        BY <3>2, <3>3
    <2> QED
      BY <2>1, <2>2
  <1>3. d.out = <<>> /\ d.up = {m}
    OBVIOUS
  <1>4. Given({m}, B)
    BY DEF Given
  <1> HIDE DEF d, e
  <1>5. Sends(d.out, P, arr, B)
    BY <1>3, SendsNone
  <1> QED
    BY <1>1, <1>2, <1>3, <1>4, <1>5, GoodThen

LEMMA ForwardGood ==
  ASSUME NEW n, NEW r, NEW P, NEW channel \in P, NEW m, NEW o, NEW arr, NEW B,
         GoodRouter(n, r, arr, B), Claim(o.m, arr, B), o.next = NoNode \/ o.next \in P,
         m.type # "ack" => CameTo(KeyOf(m), channel, arr)
  PROVE  Good(n, ForwardOver(n, r, m, channel, o), P, arr, B)
  <1> DEFINE ack == Ack(n, m, channel, FALSE)
             v == IF o.next # NoNode THEN <<<<o.next, o.m>>>> ELSE <<>>
             w == IF m.type # "ack" THEN <<<<channel, ack>>>> ELSE <<>>
             d == ForwardOver(n, r, m, channel, o)
  <1>1. Sends(v, P, arr, B)
    <2>1. CASE o.next = NoNode
      BY <2>1, SendsNone
    <2>2. CASE o.next # NoNode
      BY <2>2, SendsOne DEF WireClaim
    <2> QED
      BY <2>1, <2>2
  <1>2. Sends(w, P, arr, B)
    <2>1. CASE m.type = "ack"
      BY <2>1, SendsNone
    <2>2. CASE m.type # "ack"
      <3>1. PassedOn(ack, channel, arr)
        <4>1. IsAck(Ack(n, m, channel, FALSE), m, channel) /\ Ack(n, m, channel, FALSE).vv = FALSE
          BY AckMessage
        <4>2. IsAck(ack, m, channel) /\ ack.vv = FALSE
          BY <4>1
        <4> HIDE DEF ack
        <4> QED
          BY <2>2, <4>2 DEF PassedOn, IsAck
      <3> HIDE DEF ack
      <3> QED
        BY <2>2, <3>1, SendsOne DEF WireClaim
    <2> QED
      BY <2>1, <2>2
  <1>3. d.r = r /\ d.out = v \o w /\ d.up = {}
    BY DEF ForwardOver
  <1> HIDE DEF d, v, w
  <1>4. Sends(d.out, P, arr, B) /\ Given(d.up, B)
    BY <1>1, <1>2, <1>3, SendsBoth DEF Given
  <1>5. Good(n, d, P, arr, B)
    BY <1>3, <1>4 DEF Good
  <1> QED
    BY <1>5 DEF d

LEMMA LearnGood ==
  ASSUME NEW n, NEW r, NEW m, NEW arr, NEW B, GoodRouter(n, r, arr, B)
  PROVE  GoodRouter(n, LearnConn(n, r, m), arr, B)
  <1> DEFINE R == LearnConn(n, r, m)
  <1>1. DOMAIN r = {"map", "rtt", "queue", "seqs", "reqs"}
    BY DEF GoodRouter
  <1>2. DOMAIN R = DOMAIN r /\ R.queue = r.queue /\ R.seqs = r.seqs /\ R.reqs = r.reqs
    BY <1>1 DEF LearnConn
  <1> HIDE DEF R
  <1>3. GoodRouter(n, R, arr, B)
    BY <1>2 DEF GoodRouter
  <1> QED
    BY <1>3 DEF R

LEMMA OnMsgGood ==
  ASSUME NEW n, NEW r0, NEW P, NEW channel \in P, NEW m, NEW arr, NEW B, OneType(B),
         GoodRouter(n, r0, arr, B), WireClaim(m, n, arr, B),
         m.type # "ack" => CameTo(KeyOf(m), channel, arr),
         Handed(n, OnMsg(n, r0, P, channel, m).up) \subseteq arr
  PROVE  Good(n, OnMsg(n, r0, P, channel, m), P, arr, B)
  <1> DEFINE r == Track(n, LearnConn(n, r0, m), P, m)
             d == OnMsg(n, r0, P, channel, m)
  <1>0. SUFFICES Good(n, d, P, arr, B)
    OBVIOUS
  <1>1. GoodRouter(n, r, arr, B)
    BY LearnGood, TrackGood
  <1>2. m.type # "ack" => <<KeyOf(m), m.type>> \in B
    BY DEF WireClaim, Claim, PassedOn
  <1>3. m \in d.up => (m.type # "ack" => <<n, KeyOf(m), m.type, TRUE>> \in arr)
    BY DEF Handed
  <1>4. d = Seen(n, r, P, channel, m)
    BY DEF OnMsg
  <1> HIDE DEF d, r
  <1>5. ASSUME NEW q, GoodRouter(n, q, arr, B), d = Deliver(n, q, P, channel, m)
        PROVE  Good(n, d, P, arr, B)
    <2>1. m \in d.up
      BY <1>5 DEF Deliver, Then
    <2> QED
      BY <1>2, <1>3, <1>5, <2>1, DeliverGood
  <1>6. CASE m.rt = <<>> /\ m.to = n
    <2>1. d = Deliver(n, r, P, channel, m)
      BY <1>4, <1>6 DEF Seen
    <2> QED
      BY <1>1, <1>5, <2>1
  <1>7. CASE ~(m.rt = <<>> /\ m.to = n)
    <2> DEFINE o == SendPrepare(n, r, P, m)
    <2>1. Claim(m, arr, B)
      BY <1>7 DEF WireClaim, PassedOn
    <2>2. (o.next = NoNode \/ o.next \in P) /\ Claim(o.m, arr, B)
      BY <2>1, PrepareGood
    <2>3. d = PassOn(n, r, P, channel, m, o)
      BY <1>4, <1>7 DEF Seen
    <2> HIDE DEF o
    <2>4. CASE o.vv
      <3>1. d = Deliver(n, Track(n, r, P, m), P, channel, m)
        BY <2>3, <2>4 DEF PassOn
      <3>2. GoodRouter(n, Track(n, r, P, m), arr, B)
        BY <1>1, TrackGood
      <3> QED
        BY <1>5, <3>1, <3>2
    <2>5. CASE ~o.vv
      <3> DEFINE q == Track(n, r, P, o.m)
      <3>1. d = ForwardOver(n, q, m, channel, o)
        BY <2>3, <2>5 DEF PassOn
      <3>2. GoodRouter(n, q, arr, B)
        BY <1>1, <2>2, TrackGood DEF WireClaim
      <3> HIDE DEF q
      <3>3. Good(n, ForwardOver(n, q, m, channel, o), P, arr, B)
        BY <2>2, <3>2, ForwardGood
      <3> QED
        BY <3>1, <3>3
    <2> QED
      BY <2>4, <2>5
  <1> QED
    BY <1>6, <1>7

\* at[k] is what k of the messages that waited have left behind.
Flushes(at, K, n, r, P, start) ==
    at = [k \in 0 .. K |->
             IF k = 0 THEN start ELSE Then(at[k - 1], Send(n, at[k - 1].r, P, r.queue[k]))]

LEMMA FlushesExist ==
  ASSUME NEW n, NEW r, NEW P, NEW start, NEW K \in Nat
  PROVE  \E at : Flushes(at, K, n, r, P, start)
  <1> DEFINE Bad == {j \in Nat : ~ \E at : Flushes(at, j, n, r, P, start)}
  <1>1. SUFFICES ASSUME Bad # {} PROVE FALSE
    BY <1>1
  <1>2. PICK j \in Bad : \A i \in Bad : j <= i
    <2>1. Bad \subseteq Nat
      OBVIOUS
    <2> HIDE DEF Bad
    <2> QED
      BY <1>1, <2>1, LeastNat
  <1>3. j \in Nat /\ ~ \E at : Flushes(at, j, n, r, P, start)
    OBVIOUS
  <1>4. CASE j = 0
    <2> DEFINE at == [k \in 0 .. 0 |-> start]
    <2>1. \A k \in 0 .. 0 : k = 0
      OBVIOUS
    <2>2. Flushes(at, 0, n, r, P, start)
      BY <2>1 DEF Flushes
    <2> QED
      BY <1>3, <1>4, <2>2
  <1>5. CASE j # 0
    <2>1. j - 1 \in Nat /\ j - 1 \notin Bad
      BY <1>2, <1>3, <1>5
    <2>2. PICK g : Flushes(g, j - 1, n, r, P, start)
      BY <2>1
    <2> DEFINE Step(k, v) == IF k = 0 THEN start ELSE Then(v, Send(n, v.r, P, r.queue[k]))
               h == [k \in 0 .. j |-> IF k \in 0 .. j - 1 THEN g[k] ELSE Step(k, g[k - 1])]
    <2>3. \A k \in 0 .. j - 1 : g[k] = Step(k, g[k - 1])
      BY <2>2 DEF Flushes
    <2>4. ASSUME NEW k \in 0 .. j PROVE h[k] = Step(k, h[k - 1])
      <3>1. CASE k = 0
        BY <3>1, <2>1, <2>3
      <3>2. CASE k # 0
        <4>1. k - 1 \in 0 .. j - 1 /\ k - 1 \in 0 .. j
          BY <3>2, <1>3
        <4>2. h[k - 1] = g[k - 1]
          BY <4>1
        <4>3. h[k] = Step(k, g[k - 1])
          <5> HIDE DEF Step
          <5> QED
            BY <2>3
        <4> HIDE DEF h, Step
        <4> QED
          BY <4>2, <4>3
      <3> QED
        BY <3>1, <3>2
    <2>5. h = [k \in 0 .. j |-> Step(k, h[k - 1])]
      <3>1. \A k \in 0 .. j : h[k] = Step(k, h[k - 1])
        BY <2>4
      <3>2. h = [k \in 0 .. j |-> h[k]]
        OBVIOUS
      <3> HIDE DEF h, Step
      <3> QED
        BY <3>1, <3>2
    <2>6. Flushes(h, j, n, r, P, start)
      BY <2>5 DEF Flushes
    <2> QED
      BY <1>3, <2>6
  <1> QED
    BY <1>4, <1>5

LEMMA ChannelAddedGood ==
  ASSUME NEW n, NEW r, NEW P, NEW x, NEW arr, NEW B, GoodRouter(n, r, arr, B)
  PROVE  Good(n, OnChannelAdded(n, r, P, x), P, arr, B)
  <1> DEFINE R == [r EXCEPT !.map = UpdateConn(n, r.map, n, x, DefRtt, TRUE),
                            !.rtt[x] = NoConn, !.queue = <<>>]
             start == Done(R)
             K == Len(r.queue)
             at == CHOOSE g : Flushes(g, K, n, r, P, start)
  <1>1. IsSeq(r.queue) /\ \A m \in Listed(r.queue) : Claim(m, arr, B)
    BY DEF GoodRouter
  <1>2. K \in Nat /\ DOMAIN r.queue = 1 .. K
    BY <1>1 DEF IsSeq
  <1>3. Flushes(at, K, n, r, P, start)
    BY <1>2, FlushesExist
  <1>4. OnChannelAdded(n, r, P, x) = at[K]
    BY DEF OnChannelAdded, Flushes
  <1>5. Good(n, start, P, arr, B)
    <2>1. DOMAIN r = {"map", "rtt", "queue", "seqs", "reqs"}
      BY DEF GoodRouter
    <2>2. DOMAIN R = DOMAIN r /\ R.queue = <<>> /\ R.seqs = r.seqs /\ R.reqs = r.reqs
      BY <2>1
    <2> HIDE DEF R
    <2>3. GoodRouter(n, R, arr, B)
      BY <2>2, EmptyListed DEF GoodRouter
    <2> QED
      BY <2>3, GoodDone
  <1> HIDE DEF at, start, R
  <1> DEFINE Bad == {k \in 0 .. K : ~Good(n, at[k], P, arr, B)}
  <1>6. SUFFICES ASSUME Bad # {} PROVE FALSE
    BY <1>2, <1>4, <1>6
  <1>7. PICK k \in Bad : \A i \in Bad : k <= i
    <2>1. Bad \subseteq Nat
      BY <1>2
    <2> HIDE DEF Bad
    <2> QED
      BY <1>6, <2>1, LeastNat
  <1>8. k \in 0 .. K /\ ~Good(n, at[k], P, arr, B)
    OBVIOUS
  <1>9. CASE k = 0
    <2>1. at[k] = start
      BY <1>3, <1>8, <1>9 DEF Flushes
    <2> QED
      BY <1>5, <1>8, <2>1
  <1>10. CASE k # 0
    <2>1. k - 1 \in 0 .. K /\ k - 1 \notin Bad /\ k \in DOMAIN r.queue
      BY <1>2, <1>7, <1>8, <1>10
    <2> DEFINE d == at[k - 1]
               m == r.queue[k]
    <2>2. Good(n, d, P, arr, B)
      BY <2>1
    <2>3. at[k] = Then(d, Send(n, d.r, P, m))
      BY <1>3, <1>8, <1>10 DEF Flushes
    <2>4. Claim(m, arr, B)
      BY <1>1, <2>1 DEF Listed
    <2> HIDE DEF d, m, Bad
    <2>5. Good(n, Send(n, d.r, P, m), P, arr, B)
      BY <2>2, <2>4, SendGood DEF Good
    <2>6. Good(n, Then(d, Send(n, d.r, P, m)), P, arr, B)
      BY <2>2, <2>5, GoodThen DEF Good
    <2> QED
      BY <1>8, <2>3, <2>6
  <1> QED
    BY <1>9, <1>10

\* The connect request that a node sends over its new channel.
LEMMA GreetGood ==
  ASSUME NEW n, NEW m, NEW s, NEW P, NEW d, NEW arr, NEW B, Good(n, d, P, arr, B),
         <<<<<<n, s>>, ">", 0>>, "req">> \in B
  PROVE  Good(n, Greet(n, m, s, P, d), P, arr, B)
  <1> DEFINE w == Message(n, m, "req", "connect", <<n, s>>, 0, FALSE, <<>>)
  <1>1. /\ DOMAIN w = Fields /\ w.type = "req" /\ w.req = <<n, s>> /\ w.seq = 0
        /\ w.acks = <<>>
    BY DEF Message, Fields
  <1>2. Greet(n, m, s, P, d) = Then(d, Send(n, d.r, P, w))
    BY DEF Greet
  <1> HIDE DEF w
  <1>3. KeyOf(w) = <<<<n, s>>, ">", 0>>
    <2>1. TypeToDir("req") = ">"
      <3>1. "req" \in ReqTypes /\ "req" \notin ResTypes
        BY DEF ReqTypes, ResTypes
      <3> QED
        BY <3>1 DEF TypeToDir
    <2>2. w.type # "ack"
      BY <1>1
    <2> QED
      BY <1>1, <2>1, <2>2 DEF KeyOf
  <1>4. Acknowledged(w) = {}
    <2>1. DOMAIN <<>> = {}
      OBVIOUS
    <2> QED
      BY <1>1, <2>1 DEF Acknowledged
  <1>5. Claim(w, arr, B)
    BY <1>1, <1>3, <1>4, EmptyListed DEF Claim
  <1>6. Good(n, Send(n, d.r, P, w), P, arr, B)
    BY <1>5, SendGood DEF Good
  <1> QED
    BY <1>2, <1>6, GoodThen DEF Good

-----------------------------------------------------------------------------
(* The invariant, for a set B that holds what may be sent.                    *)

Fit(B) == OneType(B) /\ \A n \in Node, s \in Socket : <<<<<<n, s>>, ">", 0>>, "req">> \in B

GoodFrame(f, x, arr, B) ==
    f \in {Hello, Bye} \/ \E m : f = Data(m) /\ WireClaim(m, x, arr, B)

Planned(m, B) ==
    DOMAIN m = Fields /\ m.type # "ack" /\ <<KeyOf(m), m.type>> \in B /\ IsSeq(m.acks)

NetInv(B) ==
    /\ ConnInv /\ events \in Nat
    /\ DOMAIN router = Node /\ \A n \in Node : GoodRouter(n, router[n], arrived, B)
    /\ \A s \in Socket, x \in Node : \A f \in Listed(wire[s][x]) : GoodFrame(f, x, arrived, B)
    /\ \A a \in arrived : <<a[2], a[3]>> \in B
    /\ \A m \in todo : Planned(m, B)

\* A node asks for the addresses of others.
AskInv == asked \in [Node -> SUBSET Node] /\ \A n \in Node : n \notin asked[n]

LEMMA FrameMore ==
  ASSUME NEW arr, NEW arr2, arr \subseteq arr2, NEW B, NEW f, NEW x, GoodFrame(f, x, arr, B)
  PROVE  GoodFrame(f, x, arr2, B)
  BY ClaimMore DEF GoodFrame

\* A step of the router of n, with what its connections make of it.
LEMMA RouterStepGood ==
  ASSUME NEW B, NetInv(B), NEW n \in Node, NEW d, NEW P, NEW came,
         router' = [router EXCEPT ![n] = d.r],
         arrived' = arrived \cup came \cup Handed(n, d.up),
         \A a \in came : <<a[2], a[3]>> \in B,
         Good(n, d, P, arrived', B), Comes(wire, wire', d.out),
         ConnInv', events' \in Nat, todo' \subseteq todo
  PROVE  NetInv(B)'
  <1>1. arrived \subseteq arrived'
    OBVIOUS
  <1>2. ASSUME NEW x \in Node PROVE GoodRouter(x, router'[x], arrived', B)
    <2>1. CASE x = n
      BY <2>1 DEF NetInv, Good
    <2>2. CASE x # n
      <3>1. router'[x] = router[x] /\ GoodRouter(x, router[x], arrived, B)
        BY <2>2 DEF NetInv
      <3> QED
        BY <1>1, <3>1, RouterMore
    <2> QED
      BY <2>1, <2>2
  <1>3. DOMAIN router' = Node
    BY DEF NetInv
  <1>4. ASSUME NEW s \in Socket, NEW x \in Node, NEW f \in Listed(wire'[s][x])
        PROVE  GoodFrame(f, x, arrived', B)
    <2>1. CASE f \in Listed(wire[s][x])
      <3>1. GoodFrame(f, x, arrived, B)
        BY <2>1 DEF NetInv
      <3> QED
        BY <1>1, <3>1, FrameMore
    <2>2. CASE f \in {Hello, Bye}
      BY <2>2 DEF GoodFrame
    <2>3. CASE f \in Posted(d.out, x)
      <3>1. PICK g \in Listed(d.out) : g[1] = x /\ f = Data(g[2])
        BY <2>3 DEF Posted
      <3>2. WireClaim(g[2], x, arrived', B)
        BY <3>1 DEF Good, Sends
      <3> QED
        BY <3>1, <3>2 DEF GoodFrame
    <2> QED
      BY <2>1, <2>2, <2>3 DEF Comes
  <1>5. ASSUME NEW a \in arrived' PROVE <<a[2], a[3]>> \in B
    <2>1. CASE a \in arrived
      BY <2>1 DEF NetInv
    <2>2. CASE a \in came
      BY <2>2
    <2>3. CASE a \in Handed(n, d.up)
      <3>1. PICK m \in d.up : m.type # "ack" /\ a = <<n, KeyOf(m), m.type, TRUE>>
        BY <2>3 DEF Handed
      <3>2. a[2] = KeyOf(m) /\ a[3] = m.type
        BY <3>1
      <3> QED
        BY <3>1, <3>2 DEF Good, Given
    <2> QED
      BY <2>1, <2>2, <2>3
  <1>6. \A m \in todo' : Planned(m, B)
    BY DEF NetInv
  <1> QED
    BY <1>2, <1>3, <1>4, <1>5, <1>6 DEF NetInv

\* A step without messages.
LEMMA QuietStepGood ==
  ASSUME NEW B, NetInv(B), NEW n \in Node, NEW r, GoodRouter(n, r, arrived, B),
         router' = [router EXCEPT ![n] = Done(r).r], arrived' = arrived, todo' = todo,
         Comes(wire, wire', <<>>), ConnInv', events' \in Nat
  PROVE  NetInv(B)'
  <1> DEFINE d == Done(r)
  <1>1. d.r = r /\ d.out = <<>> /\ d.up = {}
    BY DEF Done
  <1> HIDE DEF d
  <1>2. Handed(n, d.up) = {}
    BY <1>1 DEF Handed
  <1>3. arrived' = arrived \cup {} \cup Handed(n, d.up)
    BY <1>2
  <1>4. Good(n, d, {}, arrived', B)
    BY GoodDone DEF d
  <1>5. Comes(wire, wire', d.out) /\ router' = [router EXCEPT ![n] = d.r]
    BY <1>1 DEF d
  <1>6. todo' \subseteq todo /\ \A a \in {} : <<a[2], a[3]>> \in B
    OBVIOUS
  <1> QED
    BY <1>3, <1>4, <1>5, <1>6, RouterStepGood

\* A step in which no router takes part.
LEMMA SameStepGood ==
  ASSUME NEW B, NetInv(B), router' = router, arrived' = arrived, todo' = todo,
         Comes(wire, wire', <<>>), ConnInv', events' \in Nat
  PROVE  NetInv(B)'
  <1>1. ASSUME NEW s \in Socket, NEW x \in Node, NEW f \in Listed(wire'[s][x])
        PROVE  GoodFrame(f, x, arrived, B)
    <2>1. Posted(<<>>, x) = {}
      BY EmptyListed DEF Posted
    <2>2. f \in Listed(wire[s][x]) \/ f \in {Hello, Bye}
      BY <2>1 DEF Comes
    <2> QED
      BY <2>2 DEF NetInv, GoodFrame
  <1> QED
    BY <1>1 DEF NetInv

\* Nothing moves.
LEMMA ComesSame ==
  ASSUME wire' = wire, NEW out
  PROVE  Comes(wire, wire', out)
  BY DEF Comes

LEMMA ConnSame ==
  ASSUME ConnInv, ends' = ends, chan' = chan, wire' = wire, peers' = peers, stopped' = stopped
  PROVE  ConnInv'
  BY DEF ConnInv

LEMMA BootstrapGood ==
  ASSUME NEW B, NetInv(B), NEW n \in Node, NEW m \in Node, Bootstrap(n, m)
  PROVE  NetInv(B)'
  <1>1. /\ Dial(n, m) /\ router' = router /\ todo' = todo /\ arrived' = arrived
        /\ events > 0 /\ events' = events - 1
    BY DEF Bootstrap, Event
  <1>2. n # m /\ NewSocket(n, m) /\ peers' = peers /\ stopped' = stopped
    BY <1>1 DEF Dial
  <1>3. ConnInv' /\ Comes(wire, wire', <<>>)
    BY <1>2, NewSocketStep DEF NetInv
  <1>4. events' \in Nat
    BY <1>1 DEF NetInv
  <1> QED
    BY <1>1, <1>3, <1>4, SameStepGood

LEMMA AskAddressGood ==
  ASSUME NEW B, NetInv(B), NEW n \in Node, NEW m \in Node, AskAddress(n, m)
  PROVE  NetInv(B)'
  <1>1. /\ Connect(n, m) /\ router' = router /\ todo' = todo /\ arrived' = arrived
        /\ events > 0 /\ events' = events - 1
    BY DEF AskAddress, Event
  <1>2. ends' = ends /\ chan' = chan /\ wire' = wire /\ peers' = peers /\ stopped' = stopped
    BY <1>1 DEF Connect
  <1>3. ConnInv' /\ Comes(wire, wire', <<>>)
    BY <1>2, ConnSame, ComesSame DEF NetInv
  <1>4. events' \in Nat
    BY <1>1 DEF NetInv
  <1> QED
    BY <1>1, <1>3, <1>4, SameStepGood

LEMMA AddressComesGood ==
  ASSUME NEW B, NetInv(B), AskInv, NEW n \in Node, NEW m \in Node, AddressComes(n, m)
  PROVE  NetInv(B)'
  <1>1. /\ OnConnInfo(n, m) /\ router' = router /\ todo' = todo /\ arrived' = arrived
        /\ events' = events
    BY DEF AddressComes
  <1>2. /\ peers' = peers /\ stopped' = stopped
        /\ (ends' = ends /\ chan' = chan /\ wire' = wire) \/ NewSocket(n, m)
        /\ m \in asked[n]
    BY <1>1 DEF OnConnInfo
  <1>3. ConnInv' /\ Comes(wire, wire', <<>>)
    <2>1. CASE ends' = ends /\ chan' = chan /\ wire' = wire
      BY <1>2, <2>1, ConnSame, ComesSame DEF NetInv
    <2>2. CASE NewSocket(n, m)
      <3>1. n # m
        BY <1>2 DEF AskInv
      <3> QED
        BY <1>2, <2>2, <3>1, NewSocketStep DEF NetInv
    <2> QED
      BY <1>2, <2>1, <2>2
  <1>4. events' \in Nat
    BY <1>1 DEF NetInv
  <1> QED
    BY <1>1, <1>3, <1>4, SameStepGood

LEMMA GiveUpGood ==
  ASSUME NEW B, NetInv(B), NEW n \in Node, NEW m \in Node, GiveUp(n, m)
  PROVE  NetInv(B)'
  <1>1. /\ Disconnect(n, m) /\ todo' = todo /\ arrived' = arrived
        /\ router' = [router EXCEPT ![n] = Done(router[n]).r]
        /\ events > 0 /\ events' = events - 1
    BY DEF GiveUp, Event, RouterStep, OnChannelRemoved
  <1>2. ConnInv' /\ Comes(wire, wire', <<>>)
    BY <1>1, DisconnectStep DEF NetInv
  <1>3. events' \in Nat /\ GoodRouter(n, router[n], arrived, B)
    BY <1>1 DEF NetInv
  <1> QED
    BY <1>1, <1>2, <1>3, QuietStepGood

LEMMA DestroyNodeGood ==
  ASSUME NEW B, NetInv(B), NEW n \in Node, DestroyNode(n)
  PROVE  NetInv(B)'
  <1> DEFINE r == [router[n] EXCEPT !.map.timer = FALSE]
  <1>1. /\ Stop(n) /\ todo' = todo /\ arrived' = arrived
        /\ router' = [router EXCEPT ![n] = Done(r).r]
        /\ events > 0 /\ events' = events - 1
    BY DEF DestroyNode, Event, RouterStep
  <1>2. ConnInv' /\ Comes(wire, wire', <<>>)
    BY <1>1, StopStep DEF NetInv
  <1>3. events' \in Nat /\ GoodRouter(n, router[n], arrived, B)
    BY <1>1 DEF NetInv
  <1>4. /\ DOMAIN r = DOMAIN router[n] /\ r.queue = router[n].queue
        /\ r.seqs = router[n].seqs /\ r.reqs = router[n].reqs
    <2>1. DOMAIN router[n] = {"map", "rtt", "queue", "seqs", "reqs"}
      BY <1>3 DEF GoodRouter
    <2> QED
      BY <2>1
  <1> HIDE DEF r
  <1>5. GoodRouter(n, r, arrived, B)
    BY <1>3, <1>4 DEF GoodRouter
  <1> QED
    BY <1>1, <1>2, <1>3, <1>5, QuietStepGood

LEMMA BuildTimerGood ==
  ASSUME NEW B, NetInv(B), NEW n \in Node, BuildTimer(n)
  PROVE  NetInv(B)'
  <1> DEFINE r == OnBuildTimer(n, router[n])
  <1>1. /\ router' = [router EXCEPT ![n] = Done(r).r]
        /\ ends' = ends /\ chan' = chan /\ wire' = wire /\ peers' = peers /\ stopped' = stopped
        /\ todo' = todo /\ arrived' = arrived /\ events' = events
    BY DEF BuildTimer, RouterStep
  <1>2. ConnInv' /\ Comes(wire, wire', <<>>)
    BY <1>1, ConnSame, ComesSame DEF NetInv
  <1>3. events' \in Nat /\ GoodRouter(n, router[n], arrived, B)
    BY <1>1 DEF NetInv
  <1>4. /\ DOMAIN r = DOMAIN router[n] /\ r.queue = router[n].queue
        /\ r.seqs = router[n].seqs /\ r.reqs = router[n].reqs
    <2>1. DOMAIN router[n] = {"map", "rtt", "queue", "seqs", "reqs"}
      BY <1>3 DEF GoodRouter
    <2> QED
      BY <2>1 DEF OnBuildTimer
  <1> HIDE DEF r
  <1>5. GoodRouter(n, r, arrived, B)
    BY <1>3, <1>4 DEF GoodRouter
  <1> QED
    BY <1>1, <1>2, <1>3, <1>5, QuietStepGood

LEMMA DuplicateDroppedGood ==
  ASSUME NEW B, NetInv(B), NEW s \in Socket, NEW n \in ends[s], n \in Node, DuplicateDropped(n, s)
  PROVE  NetInv(B)'
  <1>1. /\ Duplicate(n, s) /\ todo' = todo /\ arrived' = arrived /\ events' = events
        /\ router' = [router EXCEPT ![n] = Done(router[n]).r]
    BY DEF DuplicateDropped, RouterStep, OnChannelRemoved
  <1>2. ConnInv' /\ Comes(wire, wire', <<>>)
    BY <1>1, DuplicateStep DEF NetInv
  <1>3. events' \in Nat /\ GoodRouter(n, router[n], arrived, B)
    BY <1>1 DEF NetInv
  <1> QED
    BY <1>1, <1>2, <1>3, QuietStepGood

LEMMA ChannelClosesGood ==
  ASSUME NEW B, NetInv(B), NEW s \in Socket, NEW n \in ends[s], n \in Node, ChannelCloses(n, s)
  PROVE  NetInv(B)'
  <1>1. /\ OnClose(n, s) /\ todo' = todo /\ arrived' = arrived /\ events' = events
        /\ router' = [router EXCEPT ![n] = Done(router[n]).r]
    BY DEF ChannelCloses, RouterStep, OnChannelRemoved
  <1>2. ConnInv' /\ Comes(wire, wire', <<>>)
    BY <1>1, OnCloseStep DEF NetInv
  <1>3. events' \in Nat /\ GoodRouter(n, router[n], arrived, B)
    BY <1>1 DEF NetInv
  <1> QED
    BY <1>1, <1>2, <1>3, QuietStepGood

LEMMA MessageComesGood ==
  ASSUME NEW B, Fit(B), NetInv(B), NEW s \in Socket, NEW n \in ends[s], MessageComes(n, s)
  PROVE  NetInv(B)'
  <1> DEFINE m == Head(wire[s][n])[2]
             x == Other(s, n)
             P == Peers(n)
             d == OnMsg(n, router[n], P, x, m)
             came == IF m.type = "ack" THEN {} ELSE {<<n, KeyOf(m), m.type, FALSE>>}
  <1>1. /\ wire[s][n] # <<>> /\ Head(wire[s][n])[1] = "data"
        /\ Receive(n, s, d.out)
        /\ router' = [router EXCEPT ![n] = d.r]
        /\ arrived' = arrived \cup came \cup Handed(n, d.up)
        /\ todo' = todo /\ events' = events
    BY DEF MessageComes, MessageStep, NextFrame, Routed, RouterStep
  <1>2. ConnInv
    BY DEF NetInv
  <1>3. n \in Node /\ x \in Node /\ x # n /\ ends[s] = {n, x}
    BY <1>2, OtherEnd
  <1>4. x \in P
    <2>1. chan[s][n] = "open"
      BY <1>1 DEF Receive
    <2>2. peers[n][x] = s
      BY <1>2, <1>3, <2>1 DEF ConnInv, Linked
    <2> QED
      BY <1>3, <2>2, ConnectionsAssumption DEF Peers
  <1>5. WireClaim(m, n, arrived, B)
    <2>1. Head(wire[s][n]) \in Listed(wire[s][n])
      BY <1>1, <1>2, <1>3, WiresSeq, TailListed DEF ConnInv, Shape
    <2>2. GoodFrame(Head(wire[s][n]), n, arrived, B)
      BY <1>3, <2>1 DEF NetInv
    <2>3. Hello[1] # "data" /\ Bye[1] # "data"
      BY DEF Hello, Bye
    <2>4. PICK w : Head(wire[s][n]) = Data(w) /\ WireClaim(w, n, arrived, B)
      BY <1>1, <2>2, <2>3 DEF GoodFrame
    <2>5. Data(w)[2] = w
      BY DEF Data
    <2> QED
      BY <2>4, <2>5
  <1> HIDE DEF m, x, P
  <1>6. arrived \subseteq arrived'
    BY <1>1
  <1>7. m.type # "ack" => <<KeyOf(m), m.type>> \in B
    BY <1>5 DEF WireClaim, Claim, PassedOn
  <1>8. m.type # "ack" => CameTo(KeyOf(m), x, arrived')
    <2>1. ASSUME m.type # "ack" PROVE CameTo(KeyOf(m), x, arrived')
      <3> DEFINE a == <<n, KeyOf(m), m.type, FALSE>>
      <3>1. a \in arrived' /\ a[1] = n /\ a[2] = KeyOf(m)
        BY <1>1, <2>1
      <3> HIDE DEF a
      <3> QED
        BY <1>3, <3>1 DEF CameTo
    <2> QED
      BY <2>1
  <1>9. ASSUME NEW a \in came PROVE <<a[2], a[3]>> \in B
    <2>1. m.type # "ack" /\ a = <<n, KeyOf(m), m.type, FALSE>>
      BY <1>9
    <2>2. a[2] = KeyOf(m) /\ a[3] = m.type
      BY <2>1
    <2> QED
      BY <1>7, <2>1, <2>2
  <1>10. GoodRouter(n, router[n], arrived', B)
    BY <1>3, <1>6, RouterMore DEF NetInv
  <1>11. WireClaim(m, n, arrived', B)
    BY <1>5, <1>6, ClaimMore
  <1>12. Handed(n, d.up) \subseteq arrived'
    BY <1>1
  <1>13. Good(n, d, P, arrived', B)
    BY <1>4, <1>8, <1>10, <1>11, <1>12, OnMsgGood DEF Fit
  <1> HIDE DEF d, came
  <1>14. Addressed(d.out, peers[n])
    BY <1>13 DEF Good, Sends, Addressed, Peers, P
  <1>15. ConnInv' /\ Comes(wire, wire', d.out)
    BY <1>1, <1>2, <1>14, ReceiveStep
  <1>16. events' \in Nat /\ todo' \subseteq todo
    BY <1>1 DEF NetInv
  <1> QED
    BY <1>1, <1>3, <1>9, <1>13, <1>15, <1>16, RouterStepGood

LEMMA ChannelOpensGood ==
  ASSUME NEW B, Fit(B), NetInv(B), NEW s \in Socket, NEW n \in ends[s], ChannelOpens(n, s)
  PROVE  NetInv(B)'
  <1> DEFINE m == Other(s, n)
             P == Peers(n) \cup {m}
             d == Greet(n, m, s, P, OnChannelAdded(n, router[n], P, m))
             p == [peers[n] EXCEPT ![m] = s]
  <1>1. /\ Open(n, s, d.out)
        /\ router' = [router EXCEPT ![n] = d.r]
        /\ arrived' = arrived \cup {} \cup Handed(n, d.up)
        /\ todo' = todo /\ events' = events
    BY DEF ChannelOpens, ChannelStep, Routed, RouterStep
  <1>2. ConnInv
    BY DEF NetInv
  <1>3. n \in Node /\ m \in Node
    BY <1>2, OtherEnd
  <1>4. arrived \subseteq arrived'
    BY <1>1
  <1>5. GoodRouter(n, router[n], arrived', B)
    BY <1>3, <1>4, RouterMore DEF NetInv
  <1>6. <<<<<<n, s>>, ">", 0>>, "req">> \in B
    BY <1>3 DEF Fit
  <1>7. Addressed(d.out, p) /\ Good(n, d, P, arrived', B)
    <2> HIDE DEF m, P
    <2>1. Good(n, OnChannelAdded(n, router[n], P, m), P, arrived', B)
      BY <1>5, ChannelAddedGood
    <2>2. Good(n, d, P, arrived', B)
      BY <1>6, <2>1, GreetGood
    <2> HIDE DEF d
    <2>3. ASSUME NEW y \in P PROVE y \in Node /\ p[y] # NoSocket
      <3>1. peers[n] \in [Node -> Socket \cup {NoSocket}]
        BY <1>2, <1>3 DEF ConnInv, Shape
      <3>2. CASE y = m
        BY <1>3, <3>1, <3>2, ConnectionsAssumption
      <3>3. CASE y # m
        <4>1. y \in Node /\ peers[n][y] # NoSocket
          BY <3>3 DEF P, Peers
        <4> QED
          BY <3>1, <3>3, <4>1
      <3> QED
        BY <3>2, <3>3
    <2> HIDE DEF p
    <2> QED
      BY <2>2, <2>3 DEF Good, Sends, Addressed
  <1>8. ConnInv' /\ Comes(wire, wire', d.out)
    BY <1>1, <1>2, <1>7, OpenStep
  <1> HIDE DEF d, m, P, p
  <1> DEFINE came == {}
  <1>9. /\ events' \in Nat /\ todo' \subseteq todo
        /\ arrived' = arrived \cup came \cup Handed(n, d.up)
        /\ \A a \in came : <<a[2], a[3]>> \in B
    BY <1>1 DEF NetInv
  <1> HIDE DEF came
  <1> QED
    BY <1>1, <1>3, <1>7, <1>8, <1>9, RouterStepGood

LEMMA ApplicationGood ==
  ASSUME NEW B, Fit(B), NetInv(B), NEW n \in Node, Application(n)
  PROVE  NetInv(B)'
  <1>1. PICK m \in todo :
            /\ \A key \in Acknowledged(m) : \E a \in arrived : a[1] = n /\ a[2] = key /\ a[4]
            /\ SendStep(n, m, Send(n, router[n], Peers(n), m))
    BY DEF Application
  <1> DEFINE P == Peers(n)
             d == Send(n, router[n], P, m)
  <1>2. /\ Emit(n, d.out)
        /\ router' = [router EXCEPT ![n] = d.r]
        /\ arrived' = arrived \cup {} \cup Handed(n, d.up)
        /\ todo' = todo \ {m} /\ events' = events
    BY <1>1 DEF SendStep, Routed, RouterStep
  <1>3. ConnInv
    BY DEF NetInv
  <1>4. arrived \subseteq arrived'
    BY <1>2
  <1>5. GoodRouter(n, router[n], arrived', B)
    BY <1>4, RouterMore DEF NetInv
  <1>6. ASSUME NEW key \in Acknowledged(m) PROVE HandedOver(key, arrived, B)
    <2>1. PICK a \in arrived : a[2] = key /\ a[4]
      BY <1>1
    <2>2. <<a[2], a[3]>> \in B
      BY DEF NetInv
    <2>3. ASSUME NEW T, <<key, T>> \in B PROVE a[3] = T
      <3> DEFINE x == <<key, T>>
                 y == <<a[2], a[3]>>
      <3>1. x \in B /\ y \in B /\ x[1] = y[1] /\ x[2] = T /\ y[2] = a[3]
        BY <2>1, <2>2, <2>3
      <3> HIDE DEF x, y
      <3> QED
        BY <3>1 DEF Fit, OneType
    <2> QED
      BY <2>1, <2>3 DEF HandedOver
  <1>7. Claim(m, arrived, B)
    BY <1>6 DEF NetInv, Planned, Claim
  <1>8. Claim(m, arrived', B)
    BY <1>4, <1>7, ClaimMore
  <1> HIDE DEF P
  <1>9. Good(n, d, P, arrived', B)
    BY <1>5, <1>8, SendGood
  <1> HIDE DEF d
  <1>10. Addressed(d.out, peers[n])
    BY <1>9 DEF Good, Sends, Addressed, Peers, P
  <1>11. ConnInv' /\ Comes(wire, wire', d.out)
    BY <1>2, <1>3, <1>10, EmitStep
  <1> DEFINE came == {}
  <1>12. /\ events' \in Nat /\ todo' \subseteq todo
         /\ arrived' = arrived \cup came \cup Handed(n, d.up)
         /\ \A a \in came : <<a[2], a[3]>> \in B
    BY <1>2 DEF NetInv
  <1> HIDE DEF came
  <1> QED
    BY <1>2, <1>9, <1>11, <1>12, RouterStepGood

\* Every step keeps what the connections and the routers rest on.
LEMMA NetNext ==
  ASSUME NEW B, Fit(B), NetInv(B), AskInv, [Next]_netVars
  PROVE  NetInv(B)'
  <1>1. ASSUME NEW n \in Node, NEW m \in Node,
               Bootstrap(n, m) \/ AskAddress(n, m) \/ AddressComes(n, m) \/ GiveUp(n, m)
        PROVE  NetInv(B)'
    BY <1>1, BootstrapGood, AskAddressGood, AddressComesGood, GiveUpGood
  <1>2. ASSUME NEW n \in Node, NEW s \in Socket, n \in ends[s],
               \/ ChannelOpens(n, s) \/ DuplicateDropped(n, s)
               \/ MessageComes(n, s) \/ ChannelCloses(n, s)
        PROVE  NetInv(B)'
    BY <1>2, ChannelOpensGood, DuplicateDroppedGood, MessageComesGood, ChannelClosesGood
  <1>3. ASSUME NEW n \in Node, DestroyNode(n) \/ Application(n) \/ BuildTimer(n)
        PROVE  NetInv(B)'
    BY <1>3, DestroyNodeGood, ApplicationGood, BuildTimerGood
  <1>4. ASSUME UNCHANGED netVars PROVE NetInv(B)'
    <2>1. /\ ends' = ends /\ chan' = chan /\ wire' = wire /\ peers' = peers /\ stopped' = stopped
          /\ router' = router /\ todo' = todo /\ arrived' = arrived /\ events' = events
      BY <1>4 DEF netVars
    <2>2. ConnInv' /\ Comes(wire, wire', <<>>)
      BY <2>1, ConnSame, ComesSame DEF NetInv
    <2>3. events' \in Nat
      BY <2>1 DEF NetInv
    <2> QED
      BY <2>1, <2>2, <2>3, SameStepGood
  <1> QED
    BY <1>1, <1>2, <1>3, <1>4 DEF Next, Arrivals

LEMMA AskNext ==
  ASSUME AskInv, [Next]_netVars
  PROVE  AskInv'
  <1>1. ASSUME asked' = asked PROVE AskInv'
    BY <1>1 DEF AskInv
  <1>2. ASSUME NEW n \in Node, NEW m \in Node, Connect(n, m) PROVE AskInv'
    BY <1>2 DEF AskInv, Connect
  <1>3. ASSUME NEW n \in Node, NEW m \in Node, OnConnInfo(n, m) PROVE AskInv'
    BY <1>3 DEF AskInv, OnConnInfo
  <1>4. ASSUME NEW n \in Node, NEW m \in Node,
               Bootstrap(n, m) \/ AskAddress(n, m) \/ AddressComes(n, m) \/ GiveUp(n, m)
        PROVE  AskInv'
    <2>1. CASE Bootstrap(n, m)
      BY <1>1, <2>1 DEF Bootstrap, Dial
    <2>2. CASE GiveUp(n, m)
      BY <1>1, <2>2 DEF GiveUp, Disconnect, DestroyChannel
    <2>3. CASE AskAddress(n, m)
      BY <1>2, <2>3 DEF AskAddress
    <2>4. CASE AddressComes(n, m)
      BY <1>3, <2>4 DEF AddressComes
    <2> QED
      BY <1>4, <2>1, <2>2, <2>3, <2>4
  <1>5. ASSUME NEW n \in Node, NEW s \in Socket,
               \/ ChannelOpens(n, s) \/ DuplicateDropped(n, s)
               \/ MessageComes(n, s) \/ ChannelCloses(n, s)
        PROVE  AskInv'
    <2>1. CASE ChannelOpens(n, s)
      BY <1>1, <2>1 DEF ChannelOpens, ChannelStep, Open
    <2>2. CASE DuplicateDropped(n, s)
      BY <1>1, <2>2 DEF DuplicateDropped, Duplicate
    <2>3. CASE MessageComes(n, s)
      BY <1>1, <2>3 DEF MessageComes, MessageStep, Receive
    <2>4. CASE ChannelCloses(n, s)
      BY <1>1, <2>4 DEF ChannelCloses, OnClose, DestroyChannel
    <2> QED
      BY <1>5, <2>1, <2>2, <2>3, <2>4
  <1>6. ASSUME NEW n \in Node, DestroyNode(n) \/ Application(n) \/ BuildTimer(n)
        PROVE  AskInv'
    <2>1. CASE DestroyNode(n)
      BY <1>1, <2>1 DEF DestroyNode, Stop
    <2>2. CASE Application(n)
      BY <1>1, <2>2 DEF Application, SendStep, Emit
    <2>3. CASE BuildTimer(n)
      BY <1>1, <2>3 DEF BuildTimer
    <2> QED
      BY <1>6, <2>1, <2>2, <2>3
  <1>7. CASE UNCHANGED netVars
    BY <1>1, <1>7 DEF netVars
  <1> QED
    BY <1>4, <1>5, <1>6, <1>7 DEF Next, Arrivals

\* The invariant holds for the messages of the scenario that the network
\* starts from.
LEMMA FitBorn ==
  ASSUME NEW sc \in Scenarios
  PROVE  Fit(Born(sc))
  <1> DEFINE B == Born(sc)
             Own == {<<<<<<n, s>>, ">", 0>>, "req">> : n \in Node, s \in Socket}
             App == {<<KeyOf(m), m.type>> : m \in sc.plan}
  <1>1. \A m \in sc.plan : /\ \A n \in Node, s \in Socket : m.req # <<n, s>>
                           /\ \A x \in sc.plan : KeyOf(x) = KeyOf(m) => x.type = m.type
    BY NetAssumption DEF ScenariosAssumption
  <1>2. ASSUME NEW x \in App
        PROVE  \E m \in sc.plan : x[1] = KeyOf(m) /\ x[2] = m.type /\ x[1][1] = m.req
    <2>1. PICK m \in sc.plan : x = <<KeyOf(m), m.type>>
      OBVIOUS
    <2>2. KeyOf(m)[1] = m.req
      BY DEF KeyOf
    <2> QED
      BY <2>1, <2>2
  <1>3. ASSUME NEW x \in Own
        PROVE  x[2] = "req" /\ \E n \in Node, s \in Socket : x[1][1] = <<n, s>>
    <2>1. PICK n \in Node, s \in Socket : x = <<<<<<n, s>>, ">", 0>>, "req">>
      OBVIOUS
    <2> QED
      BY <2>1
  <1>4. ASSUME NEW x \in B, NEW y \in B, x[1] = y[1] PROVE x[2] = y[2]
    <2>1. x \in App \cup Own /\ y \in App \cup Own
      BY DEF Born
    <2> HIDE DEF App, Own, B
    <2>2. CASE x \in App /\ y \in App
      <3>1. PICK m \in sc.plan : x[1] = KeyOf(m) /\ x[2] = m.type
        BY <1>2, <2>2
      <3>2. PICK w \in sc.plan : y[1] = KeyOf(w) /\ y[2] = w.type
        BY <1>2, <2>2
      <3> QED
        BY <1>1, <1>4, <3>1, <3>2
    <2>3. CASE x \in Own /\ y \in Own
      BY <1>3, <2>3
    <2>4. CASE x \in App /\ y \in Own
      <3>1. PICK m \in sc.plan : x[1][1] = m.req
        BY <1>2, <2>4
      <3> QED
        BY <1>1, <1>3, <1>4, <2>4, <3>1
    <2>5. CASE x \in Own /\ y \in App
      <3>1. PICK m \in sc.plan : y[1][1] = m.req
        BY <1>2, <2>5
      <3> QED
        BY <1>1, <1>3, <1>4, <2>5, <3>1
    <2> QED
      BY <2>1, <2>2, <2>3, <2>4, <2>5
  <1>5. \A n \in Node, s \in Socket : <<<<<<n, s>>, ">", 0>>, "req">> \in B
    BY DEF Born
  <1> QED
    BY <1>4, <1>5 DEF Fit, OneType

\* A router that has seen no message believes nothing.
LEMMA NewRouterGood ==
  ASSUME NEW n, NEW links, NEW B
  PROVE  GoodRouter(n, LinkedRouter(n, links), {}, B)
  <1> DEFINE r == LinkedRouter(n, links)
  <1>1. DOMAIN r = {"map", "rtt", "queue", "seqs", "reqs"}
    BY DEF LinkedRouter, NewRouter
  <1>2. r.queue = <<>> /\ r.seqs = <<>> /\ r.reqs = <<>>
    BY DEF LinkedRouter, NewRouter
  <1> HIDE DEF r
  <1>3. DOMAIN <<>> = {}
    OBVIOUS
  <1>4. DOMAIN r.seqs = {} /\ DOMAIN r.reqs = {}
    BY <1>2, <1>3
  <1>5. IsSeq(r.queue) /\ Listed(r.queue) = {}
    BY <1>2, EmptyListed
  <1>6. GoodRouter(n, r, {}, B)
    BY <1>1, <1>4, <1>5 DEF GoodRouter
  <1> QED
    BY <1>6 DEF r

\* What the application plans is what it may send.
LEMMA PlanFits ==
  ASSUME NEW sc \in Scenarios, NEW m \in sc.plan
  PROVE  Planned(m, Born(sc))
  <1>1. /\ m = Message(m.from, m.to, m.type, m.cmd, m.req, m.seq, m.fuzzy, m.acks)
        /\ m.type \in ReqTypes \cup ResTypes
        /\ m.acks \in Seq(Nat)
    BY NetAssumption DEF ScenariosAssumption
  <1>2. DOMAIN m = Fields
    BY <1>1 DEF Message, Fields
  <1>3. m.type # "ack"
    BY <1>1 DEF ReqTypes, ResTypes
  <1>4. <<KeyOf(m), m.type>> \in Born(sc)
    BY DEF Born
  <1>5. IsSeq(m.acks)
    BY <1>1 DEF IsSeq
  <1> QED
    BY <1>2, <1>3, <1>4, <1>5 DEF Planned

LEMMA NetStart ==
  ASSUME Init
  PROVE  AskInv /\ \E sc \in Scenarios : NetInv(Born(sc))
  <1>1. PICK sc \in Scenarios : /\ Start(sc.links, sc.down)
                                /\ todo = sc.plan /\ events = sc.events /\ arrived = {}
    BY DEF Init
  <1> DEFINE B == Born(sc)
  <1>2. /\ sc.events \in Nat /\ sc.down \subseteq Node
        /\ \A l \in DOMAIN sc.links :
              /\ sc.links[l] \in Socket
              /\ IsPair(l)
              /\ \A k \in DOMAIN sc.links : sc.links[k] = sc.links[l] => k = l
    BY NetAssumption DEF ScenariosAssumption, IsPair
  <1>3. ConnInv
    <2> DEFINE links == sc.links
               down == sc.down
    <2>1. /\ down \in SUBSET Node /\ Start(links, down)
          /\ \A l \in DOMAIN links :
                /\ links[l] \in Socket
                /\ IsPair(l)
                /\ \A k \in DOMAIN links : links[k] = links[l] => k = l
      BY <1>1, <1>2
    <2> HIDE DEF links, down
    <2> QED
      BY <2>1, ConnStart
  <1>4. DOMAIN router = Node /\ \A n \in Node : router[n] = LinkedRouter(n, sc.links)
    BY <1>1 DEF Start
  <1>5. \A n \in Node : GoodRouter(n, router[n], arrived, B)
    <2> HIDE DEF B
    <2> QED
      BY <1>1, <1>4, NewRouterGood
  <1>6. \A s \in Socket, x \in Node : Listed(wire[s][x]) = {}
    <2>1. wire = [s \in Socket |-> [n \in Node |-> <<>>]]
      BY <1>1 DEF Start
    <2>2. \A s \in Socket, x \in Node : wire[s][x] = <<>>
      BY <2>1
    <2> QED
      BY <2>2, EmptyListed
  <1>7. \A m \in todo : Planned(m, B)
    BY <1>1, PlanFits
  <1>8. AskInv
    <2>1. asked = [n \in Node |-> {}]
      BY <1>1 DEF Start
    <2> QED
      BY <2>1 DEF AskInv
  <1>9. NetInv(B)
    <2> HIDE DEF B
    <2> QED
      BY <1>1, <1>2, <1>3, <1>4, <1>5, <1>6, <1>7 DEF NetInv
  <1> QED
    BY <1>8, <1>9

\* The invariant, for what may be sent in some scenario.
Inv == AskInv /\ \E sc \in Scenarios : NetInv(Born(sc))

LEMMA InvStart ==
  ASSUME Init
  PROVE  Inv
  BY NetStart DEF Inv

LEMMA InvNext ==
  ASSUME Inv, [Next]_netVars
  PROVE  Inv'
  <1>1. AskInv
    BY DEF Inv
  <1>2. PICK sc \in Scenarios : NetInv(Born(sc))
    BY DEF Inv
  <1> DEFINE B == Born(sc)
  <1>3. Fit(B)
    BY FitBorn
  <1>4. NetInv(B)
    BY <1>2
  <1>5. NetInv(B)'
    <2> HIDE DEF B
    <2> QED
      BY <1>1, <1>3, <1>4, NetNext
  <1>6. AskInv'
    BY <1>1, AskNext
  <1> QED
    BY <1>5, <1>6 DEF Inv

LEMMA InvTypes ==
  ASSUME Inv
  PROVE  TypeOK
  <1>1. PICK sc \in Scenarios : NetInv(Born(sc))
    BY DEF Inv
  <1>2. /\ ends \in [Socket -> SUBSET Node]
        /\ chan \in [Socket -> [Node -> {"new", "open", "closed"}]]
        /\ peers \in [Node -> [Node -> Socket \cup {NoSocket}]]
        /\ stopped \subseteq Node /\ events \in Nat
    BY <1>1 DEF NetInv, ConnInv, Shape
  <1>3. \A n \in Node : DOMAIN router[n].reqs = {k[1] : k \in DOMAIN router[n].seqs}
    BY <1>1 DEF NetInv, GoodRouter
  <1> QED
    BY <1>2, <1>3 DEF TypeOK

LEMMA InvAcks ==
  ASSUME Inv
  PROVE  AcksTrue
  <1>1. PICK sc \in Scenarios : NetInv(Born(sc))
    BY DEF Inv
  <1>2. \A n \in Node : GoodRouter(n, router[n], arrived, Born(sc))
    BY <1>1 DEF NetInv
  <1>3. ASSUME NEW n \in Node, NEW key \in DOMAIN router[n].seqs
        PROVE  LET state == router[n].seqs[key].state
               IN  /\ state = "done" => \E a \in arrived : a[2] = key /\ a[4]
                   /\ state = "ack" => \E a \in arrived : a[2] = key /\ a[1] # n
    <2>1. GoodSeq(n, key, router[n].seqs[key], arrived, Born(sc))
      BY <1>2, <1>3 DEF GoodRouter
    <2>2. /\ router[n].seqs[key].state = "done" => \E a \in arrived : a[2] = key /\ a[4]
          /\ router[n].seqs[key].state = "ack" => \E a \in arrived : a[2] = key /\ a[1] # n
      BY <2>1 DEF GoodSeq, CameTo
    <2> QED
      BY <2>2
  <1>4. ASSUME NEW n \in Node, NEW q \in DOMAIN router[n].reqs, router[n].reqs[q] = "close"
        PROVE  \E a \in arrived : a[2][1] = q /\ a[3] \in LastTypes /\ a[4]
    BY <1>2, <1>4 DEF GoodRouter, Closed
  <1> QED
    BY <1>3, <1>4, InvTypes DEF AcksTrue

LEMMA InvHolds == Spec => []Inv
  <1>1. Init => Inv
    BY InvStart
  <1>2. Inv /\ [Next]_netVars => Inv'
    BY InvNext
  <1> QED
    BY <1>1, <1>2, PTL DEF Spec

-----------------------------------------------------------------------------
(* The variables keep their types, and a router keeps the state of a request
   just as long as it tracks a message of it (Router.track, router.js). *)
THEOREM TypesHold == Spec => []TypeOK
  <1>1. Inv => TypeOK
    BY InvTypes
  <1> QED
    BY <1>1, InvHolds, PTL

(* For any number of nodes and sockets: a node has a peer in its table just when
   the channel to it is open, and once all that was sent has come the other
   node has it too, over the same socket: whoever dials, asks for an address,
   gives up or ends, and in whatever order the frames come (Node._onConnection,
   node.js; WsChannel.destroy, ws.js). *)
THEOREM SamePeersHold == Spec => []SamePeers
  <1>1. Inv => SamePeers
    BY ConnSamePeers DEF Inv, NetInv
  <1> QED
    BY <1>1, InvHolds, PTL

(* For any number of nodes, any plan of messages and any route they take: what
   a router takes for done has been handed to a node, what it takes for
   acknowledged has come to another node, and a request it takes for closed had
   its last message handed over (Router.track, track_ack and ack, router.js). *)
THEOREM AcksHold == Spec => []AcksTrue
  <1>1. Inv => AcksTrue
    BY InvAcks
  <1> QED
    BY <1>1, InvHolds, PTL
=============================================================================
