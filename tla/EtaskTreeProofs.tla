-------------------------- MODULE EtaskTreeProofs --------------------------
(***************************************************************************)
(* The tree of the tasks, for every number of tasks and every program of   *)
(* the user: as long as no timer wakes a list of states, every task hangs  *)
(* in exactly one place and the place knows it.                            *)
(***************************************************************************)
EXTENDS EtaskProofs

-----------------------------------------------------------------------------
\* Lists of children.

LEMMA AppendSet ==
  ASSUME NEW S, NEW s \in Seq(S), NEW e \in S
  PROVE  /\ ToSet(Append(s, e)) = ToSet(s) \cup {e}
         /\ IsInjective(s) /\ e \notin ToSet(s) => IsInjective(Append(s, e))
         /\ Append(s, e) # <<>>
  <1> DEFINE q == Append(s, e)
  <1>1. /\ q \in Seq(S) /\ DOMAIN q = 1 .. Len(s) + 1 /\ q[Len(s) + 1] = e
        /\ DOMAIN s = 1 .. Len(s) /\ Len(s) \in Nat
        /\ \A i \in DOMAIN s : i \in DOMAIN q /\ q[i] = s[i]
    OBVIOUS
  <1> HIDE DEF q
  <1>2. \A i \in DOMAIN q : i \in DOMAIN s \/ i = Len(s) + 1
    BY <1>1
  <1>3. ToSet(q) = ToSet(s) \cup {e}
    <2>1. ASSUME NEW x \in ToSet(q) PROVE x \in ToSet(s) \cup {e}
      BY <1>1, <1>2 DEF ToSet
    <2>2. ASSUME NEW x \in ToSet(s) PROVE x \in ToSet(q)
      BY <1>1 DEF ToSet
    <2>3. e \in ToSet(q)
      <3>1. Len(s) + 1 \in DOMAIN q
        BY <1>1
      <3> QED
        BY <1>1, <3>1 DEF ToSet
    <2> QED
      BY <2>1, <2>2, <2>3
  <1>4. ASSUME IsInjective(s), e \notin ToSet(s) PROVE IsInjective(q)
    <2>1. \A i \in DOMAIN s : s[i] # e
      BY <1>4 DEF ToSet
    <2> SUFFICES ASSUME NEW i \in DOMAIN q, NEW j \in DOMAIN q, q[i] = q[j] PROVE i = j
      BY DEF IsInjective
    <2> QED
      BY <1>1, <1>2, <1>4, <2>1 DEF IsInjective
  <1>5. q # <<>>
    BY <1>1
  <1> QED
    BY <1>3, <1>4, <1>5 DEF q

LEMMA ConcatParts ==
  ASSUME NEW S, NEW a \in Seq(S), NEW b \in Seq(S)
  PROVE  /\ DOMAIN (a \o b) = 1 .. Len(a) + Len(b)
         /\ \A i \in 1 .. Len(a) : (a \o b)[i] = a[i]
         /\ \A i \in DOMAIN (a \o b) : i \notin 1 .. Len(a) => (a \o b)[i] = b[i - Len(a)]
  OBVIOUS

LEMMA RemoveSet ==
  ASSUME NEW S, NEW s \in Seq(S), IsInjective(s), NEW e \in ToSet(s)
  PROVE  /\ ToSet(RemoveFirst(s, e)) = ToSet(s) \ {e}
         /\ IsInjective(RemoveFirst(s, e))
  <1> DEFINE Is == {i \in 1 .. Len(s) : s[i] = e}
             k == IF Is # {} THEN Min(Is) ELSE 0
             q == RemoveFirst(s, e)
  <1>0. Len(s) \in Nat /\ DOMAIN s = 1 .. Len(s)
    OBVIOUS
  <1>1. \E i \in 1 .. Len(s) : s[i] = e
    BY <1>0 DEF ToSet
  <1>2. k \in Is
    <2>1. Is # {} /\ Is \subseteq Nat
      BY <1>1
    <2>2. Min(Is) \in Is
      <3> HIDE DEF Is
      <3>1. \E n \in Is : \A m \in Is : n <= m
        BY <2>1, LeastNat
      <3> QED
        BY <3>1 DEF Min
    <2> QED
      BY <2>1, <2>2
  <1>3. q = RemoveAt(s, k)
    BY <1>1 DEF RemoveFirst, SelectInSeq
  <1>4. k \in 1 .. Len(s) /\ s[k] = e
    BY <1>2
  <1> HIDE DEF k, Is, q
  <1> DEFINE a == SubSeq(s, 1, k - 1)
             b == SubSeq(s, k + 1, Len(s))
  <1>5. /\ a \in Seq(S) /\ Len(a) = k - 1 /\ \A i \in 1 .. k - 1 : a[i] = s[i]
    BY <1>4
  <1>6. /\ b \in Seq(S) /\ Len(b) = Len(s) - k /\ \A i \in 1 .. Len(s) - k : b[i] = s[k + i]
    BY <1>4
  <1>7. q = a \o b
    BY <1>3 DEF RemoveAt
  <1> HIDE DEF a, b
  <1>8. /\ DOMAIN q = 1 .. Len(s) - 1
        /\ \A i \in 1 .. Len(a) : q[i] = a[i]
        /\ \A i \in DOMAIN q : i \notin 1 .. Len(a) => q[i] = b[i - Len(a)]
    <2>1. /\ DOMAIN (a \o b) = 1 .. Len(a) + Len(b)
          /\ \A i \in 1 .. Len(a) : (a \o b)[i] = a[i]
          /\ \A i \in DOMAIN (a \o b) : i \notin 1 .. Len(a) => (a \o b)[i] = b[i - Len(a)]
      BY <1>5, <1>6, ConcatParts
    <2>2. Len(a) + Len(b) = Len(s) - 1
      BY <1>0, <1>4, <1>5, <1>6
    <2> QED
      BY <1>7, <2>1, <2>2
  <1>9. \A i \in 1 .. Len(s) - 1 : q[i] = IF i < k THEN s[i] ELSE s[i + 1]
    <2> SUFFICES ASSUME NEW i \in 1 .. Len(s) - 1 PROVE q[i] = IF i < k THEN s[i] ELSE s[i + 1]
      OBVIOUS
    <2>1. CASE i < k
      <3>1. i \in 1 .. Len(a)
        BY <1>4, <1>5, <2>1
      <3> QED
        BY <1>5, <1>8, <2>1, <3>1
    <2>2. CASE ~(i < k)
      <3>1. i - Len(a) \in 1 .. Len(b) /\ i \notin 1 .. Len(a) /\ k + (i - Len(a)) = i + 1
        BY <1>0, <1>4, <1>5, <1>6, <2>2
      <3>2. q[i] = b[i - Len(a)]
        BY <1>8, <3>1
      <3> QED
        BY <1>6, <2>2, <3>1, <3>2
    <2> QED
      BY <2>1, <2>2
  <1>10. ASSUME NEW i \in DOMAIN q
         PROVE  (IF i < k THEN i ELSE i + 1) \in DOMAIN s \ {k}
    BY <1>0, <1>4, <1>8
  <1>11. ASSUME NEW j \in DOMAIN s, j # k
         PROVE  \E i \in DOMAIN q : q[i] = s[j]
    <2>1. CASE j < k
      <3>1. j \in DOMAIN q /\ j \in 1 .. Len(s) - 1
        BY <1>0, <1>4, <1>8, <2>1
      <3> QED
        BY <1>9, <2>1, <3>1
    <2>2. CASE ~(j < k)
      <3>1. j - 1 \in DOMAIN q /\ j - 1 \in 1 .. Len(s) - 1 /\ ~(j - 1 < k) /\ (j - 1) + 1 = j
        BY <1>0, <1>4, <1>8, <1>11, <2>2
      <3> QED
        BY <1>9, <3>1
    <2> QED
      BY <2>1, <2>2
  <1>12. ToSet(q) = ToSet(s) \ {e}
    <2>1. ASSUME NEW x \in ToSet(q) PROVE x \in ToSet(s) \ {e}
      <3>1. PICK i \in DOMAIN q : x = q[i]
        BY <2>1 DEF ToSet
      <3> DEFINE j == IF i < k THEN i ELSE i + 1
      <3>2. j \in DOMAIN s /\ j # k /\ x = s[j]
        BY <1>8, <1>9, <1>10, <3>1
      <3> HIDE DEF j
      <3>3. x # e
        BY <1>0, <1>4, <3>2 DEF IsInjective
      <3> QED
        BY <3>2, <3>3 DEF ToSet
    <2>2. ASSUME NEW x \in ToSet(s) \ {e} PROVE x \in ToSet(q)
      <3>1. PICK j \in DOMAIN s : x = s[j]
        BY <2>2 DEF ToSet
      <3>2. j # k
        BY <1>4, <2>2, <3>1
      <3>3. PICK i \in DOMAIN q : q[i] = s[j]
        BY <1>11, <3>2
      <3> QED
        BY <3>1, <3>3 DEF ToSet
    <2> QED
      BY <2>1, <2>2
  <1>13. IsInjective(q)
    <2> SUFFICES ASSUME NEW i \in DOMAIN q, NEW j \in DOMAIN q, q[i] = q[j] PROVE i = j
      BY DEF IsInjective
    <2> DEFINE m == IF i < k THEN i ELSE i + 1
               n == IF j < k THEN j ELSE j + 1
    <2>1. m \in DOMAIN s /\ n \in DOMAIN s /\ q[i] = s[m] /\ q[j] = s[n]
      BY <1>8, <1>9, <1>10
    <2>2. m = n
      <3> HIDE DEF m, n
      <3> QED
        BY <2>1 DEF IsInjective
    <2> QED
      BY <1>0, <1>4, <1>8, <2>2
  <1> QED
    BY <1>12, <1>13 DEF q

LEMMA NoChild ==
  ASSUME NEW S, NEW s \in Seq(S)
  PROVE  s = <<>> <=> ToSet(s) = {}
  <1>1. DOMAIN s = 1 .. Len(s) /\ Len(s) \in Nat /\ (s = <<>> <=> Len(s) = 0)
    OBVIOUS
  <1>2. ASSUME s # <<>> PROVE ToSet(s) # {}
    <2>1. 1 \in DOMAIN s
      BY <1>1, <1>2
    <2> QED
      BY <2>1 DEF ToSet
  <1>3. ASSUME s = <<>> PROVE ToSet(s) = {}
    BY <1>1, <1>3 DEF ToSet
  <1> QED
    BY <1>2, <1>3

-----------------------------------------------------------------------------
\* The tree.  A task hangs in one place, but for those of A, which hang
\* nowhere; what it hangs under was created before the one that created it, or
\* by the same task and later.

OnePlace(x) ==
    /\ x.root \/ x.up # Nobody \/ x.parent # Nobody \/ x.free
    /\ x.root => x.up = Nobody /\ x.parent = Nobody /\ ~x.free
    /\ x.up # Nobody => x.parent = Nobody /\ ~x.free
    /\ x.parent # Nobody => ~x.free
Adrift(x) == ~x.root /\ x.up = Nobody /\ x.parent = Nobody /\ ~x.free
Lower(T, u, t) == T[u].by < T[t].by \/ (T[u].by = T[t].by /\ u > t)

Links(T, B) == \A t \in B :
    /\ T[t].up # Nobody => T[T[t].up].down = t
    /\ T[t].down # Nobody => T[T[t].down].up = t
    /\ \A p \in B : t \in ToSet(T[p].child) <=> T[t].parent = p
    /\ IsInjective(T[t].child)
Hangs(T, B, A) == \A t \in B : IF t \in A THEN Adrift(T[t]) ELSE OnePlace(T[t])
Ranked(T, B) == \A t \in B : Holder(T, t) # Nobody => Lower(T, Holder(T, t), t)
Spared(T, B) == \A t \in B : T[t].free => T[t].done /\ Bare(T, t)
Tree(T, B, A) == Links(T, B) /\ Hangs(T, B, A) /\ Ranked(T, B) /\ Spared(T, B)

\* x, which hangs nowhere, becomes a child of p or what p has called.
MadeChild(T, x, p) == [T EXCEPT ![x].parent = p, ![p].child = Append(@, x)]
MadeCall(T, x, p) == [T EXCEPT ![p].down = x, ![x].up = p]

\* x has left what it hung under.
Shed(T, R, x) == \A u \in Tasks :
    /\ u # x => /\ R[u].up = T[u].up /\ R[u].parent = T[u].parent /\ R[u].root = T[u].root
                /\ Holder(R, u) = Holder(T, u)
    /\ R[u].free = T[u].free
    /\ R[u].down \in {T[u].down, Nobody}
    /\ u # Holder(T, x) => R[u].down = T[u].down /\ R[u].child = T[u].child

LEMMA UnhangTree ==
  ASSUME NEW B \in SUBSET Tasks, NEW T, IsTable(T), TreeTypes(T, B), NEW A, Tree(T, B, A),
         NEW x \in B, x \notin A, ~T[x].free, NEW R, R = Unhang(T, x)
  PROVE  Tree(R, B, A \cup {x}) /\ Shed(T, R, x)
  <1> DEFINE h == Holder(T, x)
  <1>1. /\ Shape(T) /\ x \in Tasks /\ Nobody \notin Tasks /\ OnePlace(T[x])
        /\ T[x].up \in Ref(B) /\ T[x].parent \in Ref(B) /\ T[x].down \in Ref(B)
    BY DEF IsTable, TreeTypes, Tree, Hangs, Tasks, Nobody
  <1> DEFINE no == FALSE
  <1>2. /\ T[x].up # Nobody => T[x].up \in Tasks /\ T[x].parent = Nobody /\ T[x].root = no
        /\ T[x].parent # Nobody => T[x].parent \in Tasks /\ T[x].up = Nobody /\ T[x].root = no
    BY <1>1 DEF OnePlace, Ref, TreeTypes
  <1> HIDE DEF no
  <1>3. ASSUME NEW v \in Tasks
        PROVE  /\ R[v].up = IF v = x THEN Nobody ELSE T[v].up
               /\ R[v].parent = IF v = x THEN Nobody ELSE T[v].parent
               /\ R[v].root = IF v = x THEN no ELSE T[v].root
               /\ R[v].free = T[v].free
               /\ R[v].down = IF v = h /\ T[x].up # Nobody THEN Nobody ELSE T[v].down
               /\ R[v].child = IF v = h /\ T[x].up = Nobody THEN RemoveFirst(T[v].child, x)
                               ELSE T[v].child
    <2>1. CASE T[x].up # Nobody
      <3> DEFINE u == T[x].up
                 Q == [T EXCEPT ![x].up = Nobody, ![u].down = Nobody]
      <3>1. R = Q /\ h = u
        BY <2>1 DEF Unhang, Holder
      <3>2. u \in Tasks
        BY <1>2, <2>1
      <3>3. /\ Q[v].up = IF v = x THEN Nobody ELSE T[v].up
            /\ Q[v].parent = T[v].parent /\ Q[v].root = T[v].root /\ Q[v].free = T[v].free
            /\ Q[v].child = T[v].child
            /\ Q[v].down = IF v = u THEN Nobody ELSE T[v].down
        <4> HIDE DEF u
        <4> QED
          BY <1>1, <3>2 DEF Shape, Fields
      <3> HIDE DEF Q, u, h
      <3> QED
        BY <1>2, <2>1, <3>1, <3>3
    <2>2. CASE T[x].up = Nobody /\ T[x].parent # Nobody
      <3> DEFINE p == T[x].parent
                 Q == [T EXCEPT ![x].parent = Nobody, ![p].child = RemoveFirst(@, x)]
      <3>1. R = Q /\ h = p
        BY <2>2 DEF Unhang, Holder
      <3>2. p \in Tasks
        BY <1>2, <2>2
      <3>3. /\ Q[v].parent = IF v = x THEN Nobody ELSE T[v].parent
            /\ Q[v].up = T[v].up /\ Q[v].root = T[v].root /\ Q[v].free = T[v].free
            /\ Q[v].down = T[v].down
            /\ Q[v].child = IF v = p THEN RemoveFirst(T[v].child, x) ELSE T[v].child
        <4> HIDE DEF p
        <4> QED
          BY <1>1, <3>2 DEF Shape, Fields
      <3> HIDE DEF Q, p, h
      <3> QED
        BY <1>2, <2>2, <3>1, <3>3
    <2>3. CASE T[x].up = Nobody /\ T[x].parent = Nobody
      <3> DEFINE z == FALSE
                 Q == [T EXCEPT ![x].root = z]
      <3>1. R = Q /\ h = Nobody
        BY <2>3 DEF Unhang, Holder
      <3> HIDE DEF z
      <3>3. /\ Q[v].root = IF v = x THEN z ELSE T[v].root
            /\ Q[v].up = T[v].up /\ Q[v].parent = T[v].parent /\ Q[v].free = T[v].free
            /\ Q[v].down = T[v].down /\ Q[v].child = T[v].child
        BY <1>1 DEF Shape, Fields
      <3> HIDE DEF Q, h
      <3> QED
        BY <1>1, <2>3, <3>1, <3>3 DEF z, no
    <2> QED
      BY <2>1, <2>2, <2>3
  <1>4. TreeKept(T, R, B) /\ h \in Ref(B)
    BY UnhangKept
  <1>5. \A v \in Tasks : R[v].by = T[v].by /\ R[v].done = T[v].done
    BY <1>4 DEF TreeKept, Fields, TreeFields
  <1>6. h = IF T[x].up # Nobody THEN T[x].up ELSE T[x].parent
    BY DEF Holder
  <1> HIDE DEF h
  <1>7. ASSUME NEW v \in B
        PROVE  /\ R[v].down = IF T[v].down = x THEN Nobody ELSE T[v].down
               /\ ToSet(R[v].child) = ToSet(T[v].child) \ {x} /\ IsInjective(R[v].child)
               /\ T[v].child = <<>> => R[v].child = <<>>
    <2>1. v \in Tasks /\ IsInjective(T[v].child) /\ T[v].child \in Seq(B)
      BY DEF Tree, Links, TreeTypes
    <2>2. R[v].down = IF T[v].down = x THEN Nobody ELSE T[v].down
      <3>1. T[x].up # Nobody => T[h].down = x
        BY <1>6 DEF Tree, Links
      <3>2. T[v].down = x => T[x].up = v
        BY <1>1 DEF Tree, Links, Nobody
      <3>3. v # Nobody
        BY <1>1
      <3> QED
        BY <1>3, <1>6, <2>1, <3>1, <3>2, <3>3
    <2>3. x \in ToSet(T[v].child) <=> T[x].parent = v
      BY DEF Tree, Links
    <2>4. CASE v = h /\ T[x].up = Nobody
      <3>1. R[v].child = RemoveFirst(T[v].child, x) /\ x \in ToSet(T[v].child)
        BY <1>3, <1>6, <2>1, <2>3, <2>4
      <3>2. ToSet(T[v].child) # {}
        BY <3>1
      <3>3. T[v].child # <<>>
        BY <2>1, <3>2, NoChild
      <3> QED
        BY <2>1, <2>2, <3>1, <3>3, RemoveSet
    <2>5. CASE ~(v = h /\ T[x].up = Nobody)
      <3>1. R[v].child = T[v].child
        BY <1>3, <2>1, <2>5
      <3>2. T[x].parent # v
        BY <1>1, <1>2, <1>6, <2>5
      <3> QED
        BY <2>1, <2>2, <2>3, <3>1, <3>2
    <2> QED
      BY <2>4, <2>5
  <1>8. Links(R, B)
    <2> SUFFICES ASSUME NEW t \in B
                 PROVE  /\ R[t].up # Nobody => R[R[t].up].down = t
                        /\ R[t].down # Nobody => R[R[t].down].up = t
                        /\ \A p \in B : t \in ToSet(R[p].child) <=> R[t].parent = p
                        /\ IsInjective(R[t].child)
      BY DEF Links
    <2>1. t \in Tasks /\ T[t].up \in Ref(B) /\ T[t].down \in Ref(B)
      BY DEF TreeTypes
    <2>2. /\ T[t].up # Nobody => T[T[t].up].down = t
          /\ T[t].down # Nobody => T[T[t].down].up = t
          /\ \A p \in B : t \in ToSet(T[p].child) <=> T[t].parent = p
      BY DEF Tree, Links
    <2>3. ASSUME R[t].up # Nobody PROVE R[R[t].up].down = t
      <3>1. t # x /\ R[t].up = T[t].up /\ T[t].up \in B
        BY <1>3, <2>1, <2>3 DEF Ref
      <3> QED
        BY <1>7, <2>2, <2>3, <3>1
    <2>4. ASSUME R[t].down # Nobody PROVE R[R[t].down].up = t
      <3>1. R[t].down = T[t].down /\ T[t].down # x
        BY <1>7, <2>4
      <3> DEFINE w == T[t].down
      <3>2. w \in Tasks /\ T[w].up = t
        BY <2>1, <2>2, <2>4, <3>1 DEF Ref
      <3> HIDE DEF w
      <3>3. R[w].up = t
        BY <1>3, <3>1, <3>2 DEF w
      <3> QED
        BY <3>1, <3>3 DEF w
    <2>5. ASSUME NEW p \in B PROVE t \in ToSet(R[p].child) <=> R[t].parent = p
      <3>1. p # Nobody
        BY <1>1
      <3>2. ToSet(R[p].child) = ToSet(T[p].child) \ {x}
        BY <1>7
      <3>3. R[t].parent = IF t = x THEN Nobody ELSE T[t].parent
        BY <1>3, <2>1
      <3> QED
        BY <2>2, <3>1, <3>2, <3>3
    <2> QED
      BY <1>7, <2>3, <2>4, <2>5
  <1>9. Hangs(R, B, A \cup {x})
    <2> SUFFICES ASSUME NEW t \in B
                 PROVE  IF t \in A \cup {x} THEN Adrift(R[t]) ELSE OnePlace(R[t])
      BY DEF Hangs
    <2>1. t \in Tasks /\ IF t \in A THEN Adrift(T[t]) ELSE OnePlace(T[t])
      BY DEF Tree, Hangs
    <2>2. CASE t = x
      BY <1>3, <2>1, <2>2 DEF Adrift, no
    <2>3. CASE t # x
      <3>1. /\ R[t].up = T[t].up /\ R[t].parent = T[t].parent /\ R[t].root = T[t].root
            /\ R[t].free = T[t].free
        BY <1>3, <2>1, <2>3
      <3> QED
        BY <2>1, <2>3, <3>1 DEF Adrift, OnePlace
    <2> QED
      BY <2>2, <2>3
  <1>10. ASSUME NEW u \in Tasks, u # x PROVE Holder(R, u) = Holder(T, u)
    BY <1>3, <1>10 DEF Holder
  <1>11. Ranked(R, B)
    <2> SUFFICES ASSUME NEW t \in B, Holder(R, t) # Nobody PROVE Lower(R, Holder(R, t), t)
      BY DEF Ranked
    <2>1. t # x
      BY <1>3 DEF Holder
    <2>2. Holder(R, t) = Holder(T, t) /\ Lower(T, Holder(T, t), t)
      BY <1>10, <2>1 DEF Tree, Ranked
    <2>3. Holder(T, t) \in Ref(B)
      BY DEF Holder, TreeTypes
    <2> QED
      BY <1>5, <2>2, <2>3 DEF Lower, Ref
  <1>12. Spared(R, B)
    <2> SUFFICES ASSUME NEW t \in B, R[t].free PROVE R[t].done /\ Bare(R, t)
      BY DEF Spared
    <2>1. T[t].free
      BY <1>3
    <2>2. T[t].done /\ Bare(T, t)
      BY <2>1 DEF Tree, Spared
    <2> QED
      BY <1>5, <1>7, <2>2 DEF Bare
  <1>13. Shed(T, R, x)
    <2> SUFFICES ASSUME NEW u \in Tasks
                 PROVE  /\ u # x => /\ R[u].up = T[u].up /\ R[u].parent = T[u].parent
                                    /\ R[u].root = T[u].root /\ Holder(R, u) = Holder(T, u)
                        /\ R[u].free = T[u].free
                        /\ R[u].down \in {T[u].down, Nobody}
                        /\ u # h => R[u].down = T[u].down /\ R[u].child = T[u].child
      BY DEF Shed, h
    <2> QED
      BY <1>3, <1>10
  <1> QED
    BY <1>8, <1>9, <1>11, <1>12, <1>13 DEF Tree

LEMMA LinksSame ==
  ASSUME NEW B \in SUBSET Tasks, NEW T, TreeTypes(T, B), Links(T, B), NEW R,
         \A v \in Tasks : /\ R[v].up = T[v].up /\ R[v].down = T[v].down
                           /\ R[v].parent = T[v].parent /\ R[v].child = T[v].child
  PROVE  Links(R, B)
  <1> SUFFICES ASSUME NEW t \in B
               PROVE  /\ R[t].up # Nobody => R[R[t].up].down = t
                      /\ R[t].down # Nobody => R[R[t].down].up = t
                      /\ \A p \in B : t \in ToSet(R[p].child) <=> R[t].parent = p
                      /\ IsInjective(R[t].child)
    BY DEF Links
  <1>1. /\ T[t].up # Nobody => T[t].up \in Tasks /\ T[T[t].up].down = t
        /\ T[t].down # Nobody => T[t].down \in Tasks /\ T[T[t].down].up = t
        /\ \A p \in B : t \in ToSet(T[p].child) <=> T[t].parent = p
        /\ IsInjective(T[t].child)
    BY DEF Links, TreeTypes, Ref
  <1>2. /\ R[t].up = T[t].up /\ R[t].down = T[t].down /\ R[t].parent = T[t].parent
        /\ R[t].child = T[t].child
    OBVIOUS
  <1>3. R[t].up # Nobody => R[R[t].up].down = t
    BY <1>1, <1>2
  <1>4. R[t].down # Nobody => R[R[t].down].up = t
    BY <1>1, <1>2
  <1>5. \A p \in B : t \in ToSet(R[p].child) <=> R[t].parent = p
    BY <1>1, <1>2
  <1> QED
    BY <1>1, <1>2, <1>3, <1>4, <1>5

LEMMA RankedSame ==
  ASSUME NEW B \in SUBSET Tasks, NEW T, TreeTypes(T, B), Ranked(T, B), NEW R,
         \A v \in B : R[v].up = T[v].up /\ R[v].parent = T[v].parent /\ R[v].by = T[v].by
  PROVE  Ranked(R, B)
  <1> SUFFICES ASSUME NEW t \in B, Holder(R, t) # Nobody PROVE Lower(R, Holder(R, t), t)
    BY DEF Ranked
  <1> DEFINE h == Holder(T, t)
  <1>1. Holder(R, t) = h
    BY DEF Holder
  <1>2. h \in Ref(B)
    BY DEF Holder, TreeTypes
  <1>3. Lower(T, h, t)
    BY <1>1 DEF Ranked
  <1> HIDE DEF h
  <1>4. R[h].by = T[h].by /\ R[t].by = T[t].by
    BY <1>1, <1>2 DEF Ref
  <1> QED
    BY <1>1, <1>3, <1>4 DEF Lower

\* x hangs in one place again: nothing keeps it or it is a root.
LEMMA LooseTree ==
  ASSUME NEW B \in SUBSET Tasks, NEW T, IsTable(T), TreeTypes(T, B), NEW A,
         NEW x \in B, x \notin A, Tree(T, B, A \cup {x}), NEW f \in {"free", "root"},
         f = "free" => T[x].done /\ Bare(T, x), NEW R, R = SetOne(T, x, f, TRUE)
  PROVE  Tree(R, B, A)
  <1> DEFINE yes == TRUE
  <1>1. R = SetOne(T, x, f, yes) /\ f \in Fields /\ x \in Tasks /\ Shape(T)
    BY DEF Fields, IsTable
  <1> HIDE DEF yes
  <1>2. FieldsKept(T, R, {f}) /\ OthersKept(T, R, x) /\ R[x][f] = yes
    BY ONLY <1>1, IsTable(T), OneField
  <1>3. ASSUME NEW v \in Tasks
        PROVE  /\ R[v].up = T[v].up /\ R[v].parent = T[v].parent /\ R[v].down = T[v].down
               /\ R[v].child = T[v].child /\ R[v].by = T[v].by /\ R[v].done = T[v].done
               /\ Holder(R, v) = Holder(T, v) /\ Bare(R, v) = Bare(T, v)
               /\ v # x => R[v].root = T[v].root /\ R[v].free = T[v].free
    <2>1. /\ R[v].up = T[v].up /\ R[v].parent = T[v].parent /\ R[v].down = T[v].down
          /\ R[v].child = T[v].child /\ R[v].by = T[v].by /\ R[v].done = T[v].done
      BY <1>2 DEF FieldsKept, Fields
    <2> QED
      BY <1>2, <2>1 DEF Holder, Bare, OthersKept
  <1>4. /\ f = "free" => R[x].free = yes /\ R[x].root = T[x].root
        /\ f = "root" => R[x].root = yes /\ R[x].free = T[x].free
    BY <1>1, <1>2 DEF FieldsKept, Fields
  <1>5. Links(R, B)
    <2>1. \A v \in Tasks : /\ R[v].up = T[v].up /\ R[v].down = T[v].down
                             /\ R[v].parent = T[v].parent /\ R[v].child = T[v].child
      BY <1>3
    <2>2. Links(T, B) /\ TreeTypes(T, B) /\ B \in SUBSET Tasks
      BY DEF Tree
    <2> QED
      BY ONLY <2>1, <2>2, LinksSame
  <1>6. Hangs(R, B, A)
    <2> SUFFICES ASSUME NEW t \in B PROVE IF t \in A THEN Adrift(R[t]) ELSE OnePlace(R[t])
      BY DEF Hangs
    <2>1. IF t \in A \cup {x} THEN Adrift(T[t]) ELSE OnePlace(T[t])
      BY DEF Tree, Hangs
    <2>2. CASE t = x
      <3>1. Adrift(T[x]) /\ R[x].up = Nobody /\ R[x].parent = Nobody
        BY <1>1, <1>3, <2>1, <2>2 DEF Adrift
      <3> QED
        BY <1>4, <2>2, <3>1 DEF Adrift, OnePlace, yes
    <2>3. CASE t # x
      <3>1. /\ R[t].up = T[t].up /\ R[t].parent = T[t].parent /\ R[t].root = T[t].root
            /\ R[t].free = T[t].free
        BY <1>3, <2>3
      <3> QED
        BY <2>1, <2>3, <3>1 DEF Adrift, OnePlace
    <2> QED
      BY <2>2, <2>3
  <1>7. Ranked(R, B)
    <2>1. \A v \in B : R[v].up = T[v].up /\ R[v].parent = T[v].parent /\ R[v].by = T[v].by
      BY <1>3
    <2>2. Ranked(T, B) /\ TreeTypes(T, B) /\ B \in SUBSET Tasks
      BY DEF Tree
    <2> QED
      BY ONLY <2>1, <2>2, RankedSame
  <1>8. Spared(R, B)
    <2> SUFFICES ASSUME NEW t \in B, R[t].free PROVE R[t].done /\ Bare(R, t)
      BY DEF Spared
    <2>1. CASE t = x
      <3>1. Adrift(T[x])
        BY DEF Tree, Hangs
      <3> QED
        BY <1>3, <1>4, <2>1, <3>1 DEF Adrift
    <2>2. CASE t # x
      <3>1. T[t].free
        BY <1>3, <2>2
      <3> QED
        BY <1>3, <3>1 DEF Tree, Spared
    <2> QED
      BY <2>1, <2>2
  <1> QED
    BY <1>5, <1>6, <1>7, <1>8 DEF Tree

\* x is a child of p.
LEMMA ChildTree ==
  ASSUME NEW B \in SUBSET Tasks, NEW T, IsTable(T), TreeTypes(T, B),
         NEW x \in B, Tree(T, B, {x}), NEW p \in B, ~T[p].free, Lower(T, p, x),
         NEW R, R = MadeChild(T, x, p)
  PROVE  Tree(R, B, {})
  <1>1. Shape(T) /\ x \in Tasks /\ p \in Tasks /\ Nobody \notin Tasks /\ Adrift(T[x])
    BY DEF IsTable, Tree, Hangs, Tasks, Nobody
  <1>2. ASSUME NEW v \in Tasks
        PROVE  /\ R[v].up = T[v].up /\ R[v].down = T[v].down /\ R[v].root = T[v].root
               /\ R[v].free = T[v].free /\ R[v].by = T[v].by /\ R[v].done = T[v].done
               /\ R[v].parent = IF v = x THEN p ELSE T[v].parent
               /\ R[v].child = IF v = p THEN Append(T[v].child, x) ELSE T[v].child
    BY <1>1 DEF Shape, Fields, MadeChild
  <1>3. ASSUME NEW v \in B
        PROVE  /\ ToSet(R[v].child) = IF v = p THEN ToSet(T[v].child) \cup {x} ELSE ToSet(T[v].child)
               /\ IsInjective(R[v].child)
    <2>1. v \in Tasks /\ T[v].child \in Seq(B) /\ IsInjective(T[v].child)
      BY DEF TreeTypes, Tree, Links
    <2>2. x \notin ToSet(T[v].child)
      BY <1>1 DEF Tree, Links, Adrift
    <2>3. /\ ToSet(Append(T[v].child, x)) = ToSet(T[v].child) \cup {x}
          /\ IsInjective(Append(T[v].child, x))
      BY <2>1, <2>2, AppendSet
    <2> QED
      BY <1>2, <2>1, <2>3
  <1>4. Links(R, B)
    <2> SUFFICES ASSUME NEW t \in B
                 PROVE  /\ R[t].up # Nobody => R[R[t].up].down = t
                        /\ R[t].down # Nobody => R[R[t].down].up = t
                        /\ \A q \in B : t \in ToSet(R[q].child) <=> R[t].parent = q
                        /\ IsInjective(R[t].child)
      BY DEF Links
    <2>1. /\ T[t].up # Nobody => T[T[t].up].down = t
          /\ T[t].down # Nobody => T[T[t].down].up = t
          /\ \A q \in B : t \in ToSet(T[q].child) <=> T[t].parent = q
      BY DEF Tree, Links
    <2>2. T[t].up \in Ref(B) /\ T[t].down \in Ref(B) /\ t \in Tasks
      BY DEF TreeTypes
    <2>3. ASSUME NEW q \in B PROVE t \in ToSet(R[q].child) <=> R[t].parent = q
      <3>1. T[x].parent = Nobody /\ q # Nobody
        BY <1>1 DEF Adrift
      <3>2. R[t].parent = IF t = x THEN p ELSE T[t].parent
        BY <1>2, <2>2
      <3>3. ToSet(R[q].child) = IF q = p THEN ToSet(T[q].child) \cup {x} ELSE ToSet(T[q].child)
        BY <1>3
      <3> HIDE DEF Links
      <3> QED
        BY <2>1, <3>1, <3>2, <3>3
    <2>4. R[t].up # Nobody => R[R[t].up].down = t
      <3>1. R[t].up = T[t].up /\ (T[t].up # Nobody => T[t].up \in Tasks)
        BY <1>2, <2>2 DEF Ref
      <3> QED
        BY <1>2, <2>1, <3>1
    <2>5. R[t].down # Nobody => R[R[t].down].up = t
      <3>1. R[t].down = T[t].down /\ (T[t].down # Nobody => T[t].down \in Tasks)
        BY <1>2, <2>2 DEF Ref
      <3> QED
        BY <1>2, <2>1, <3>1
    <2> QED
      BY <1>3, <2>3, <2>4, <2>5
  <1>5. Hangs(R, B, {})
    <2> SUFFICES ASSUME NEW t \in B PROVE OnePlace(R[t])
      BY DEF Hangs
    <2>1. IF t \in {x} THEN Adrift(T[t]) ELSE OnePlace(T[t])
      BY DEF Tree, Hangs
    <2>2. CASE t = x
      <3>1. R[x].parent = p /\ R[x].up = Nobody /\ ~R[x].root /\ ~R[x].free /\ p # Nobody
        BY <1>1, <1>2 DEF Adrift
      <3> QED
        BY <2>2, <3>1 DEF OnePlace
    <2>3. CASE t # x
      <3>1. /\ R[t].up = T[t].up /\ R[t].parent = T[t].parent /\ R[t].root = T[t].root
            /\ R[t].free = T[t].free
        BY <1>2, <2>3
      <3> QED
        BY <2>1, <2>3, <3>1 DEF OnePlace
    <2> QED
      BY <2>2, <2>3
  <1>6. Ranked(R, B)
    <2> SUFFICES ASSUME NEW t \in B, Holder(R, t) # Nobody PROVE Lower(R, Holder(R, t), t)
      BY DEF Ranked
    <2>1. CASE t = x
      <3>1. Holder(R, t) = p
        BY <1>1, <1>2, <2>1 DEF Holder, Adrift
      <3> QED
        BY <1>1, <1>2, <2>1, <3>1 DEF Lower
    <2>2. CASE t # x
      <3>1. Holder(R, t) = Holder(T, t)
        BY <1>2, <2>2 DEF Holder
      <3>2. Lower(T, Holder(T, t), t) /\ Holder(T, t) \in Ref(B)
        BY <3>1 DEF Tree, Ranked, Holder, TreeTypes
      <3> QED
        BY <1>2, <3>1, <3>2 DEF Lower, Ref
    <2> QED
      BY <2>1, <2>2
  <1>7. Spared(R, B)
    <2> SUFFICES ASSUME NEW t \in B, R[t].free PROVE R[t].done /\ Bare(R, t)
      BY DEF Spared
    <2>1. T[t].free /\ t # p
      BY <1>2
    <2>2. T[t].done /\ Bare(T, t)
      BY <2>1 DEF Tree, Spared
    <2> QED
      BY <1>2, <2>1, <2>2 DEF Bare
  <1> QED
    BY <1>4, <1>5, <1>6, <1>7 DEF Tree

\* p has called x.
LEMMA DownTree ==
  ASSUME NEW B \in SUBSET Tasks, NEW T, IsTable(T), TreeTypes(T, B),
         NEW x \in B, Tree(T, B, {x}), NEW p \in B, ~T[p].free, T[p].down = Nobody, Lower(T, p, x),
         NEW R, R = MadeCall(T, x, p)
  PROVE  Tree(R, B, {})
  <1>1. Shape(T) /\ x \in Tasks /\ p \in Tasks /\ Nobody \notin Tasks /\ Adrift(T[x])
    BY DEF IsTable, Tree, Hangs, Tasks, Nobody
  <1>2. ASSUME NEW v \in Tasks
        PROVE  /\ R[v].parent = T[v].parent /\ R[v].child = T[v].child /\ R[v].root = T[v].root
               /\ R[v].free = T[v].free /\ R[v].by = T[v].by /\ R[v].done = T[v].done
               /\ R[v].up = IF v = x THEN p ELSE T[v].up
               /\ R[v].down = IF v = p THEN x ELSE T[v].down
    BY <1>1 DEF Shape, Fields, MadeCall
  <1>3. Links(R, B)
    <2> SUFFICES ASSUME NEW t \in B
                 PROVE  /\ R[t].up # Nobody => R[R[t].up].down = t
                        /\ R[t].down # Nobody => R[R[t].down].up = t
                        /\ \A q \in B : t \in ToSet(R[q].child) <=> R[t].parent = q
                        /\ IsInjective(R[t].child)
      BY DEF Links
    <2>1. /\ T[t].up # Nobody => T[T[t].up].down = t
          /\ T[t].down # Nobody => T[T[t].down].up = t
          /\ \A q \in B : t \in ToSet(T[q].child) <=> T[t].parent = q
          /\ IsInjective(T[t].child)
      BY DEF Tree, Links
    <2>2. T[t].up \in Ref(B) /\ T[t].down \in Ref(B) /\ t \in Tasks /\ t # Nobody
      BY <1>1 DEF TreeTypes
    <2>3. ASSUME R[t].up # Nobody PROVE R[R[t].up].down = t
      <3>1. CASE t = x
        BY <1>1, <1>2, <3>1
      <3>2. CASE t # x
        <4>1. R[t].up = T[t].up /\ T[t].up # Nobody /\ T[t].up \in Tasks
          BY <1>2, <2>2, <2>3, <3>2 DEF Ref
        <4>2. T[t].up # p
          BY <2>1, <2>2, <4>1
        <4> QED
          BY <1>2, <2>1, <4>1, <4>2
      <3> QED
        BY <3>1, <3>2
    <2>4. ASSUME R[t].down # Nobody PROVE R[R[t].down].up = t
      <3>1. CASE t = p
        BY <1>1, <1>2, <3>1
      <3>2. CASE t # p
        <4>1. R[t].down = T[t].down /\ T[t].down # Nobody /\ T[t].down \in Tasks
          BY <1>2, <2>2, <2>4, <3>2 DEF Ref
        <4>2. T[t].down # x
          BY <1>1, <2>1, <2>2, <4>1 DEF Adrift
        <4> QED
          BY <1>2, <2>1, <4>1, <4>2
      <3> QED
        BY <3>1, <3>2
    <2> QED
      BY <1>2, <2>1, <2>2, <2>3, <2>4
  <1>4. Hangs(R, B, {})
    <2> SUFFICES ASSUME NEW t \in B PROVE OnePlace(R[t])
      BY DEF Hangs
    <2>1. IF t \in {x} THEN Adrift(T[t]) ELSE OnePlace(T[t])
      BY DEF Tree, Hangs
    <2>2. CASE t = x
      <3>1. R[x].up = p /\ R[x].parent = Nobody /\ ~R[x].root /\ ~R[x].free /\ p # Nobody
        BY <1>1, <1>2 DEF Adrift
      <3> QED
        BY <2>2, <3>1 DEF OnePlace
    <2>3. CASE t # x
      <3>1. /\ R[t].up = T[t].up /\ R[t].parent = T[t].parent /\ R[t].root = T[t].root
            /\ R[t].free = T[t].free
        BY <1>2, <2>3
      <3> QED
        BY <2>1, <2>3, <3>1 DEF OnePlace
    <2> QED
      BY <2>2, <2>3
  <1>5. Ranked(R, B)
    <2> SUFFICES ASSUME NEW t \in B, Holder(R, t) # Nobody PROVE Lower(R, Holder(R, t), t)
      BY DEF Ranked
    <2>1. CASE t = x
      <3>1. Holder(R, t) = p
        BY <1>1, <1>2, <2>1 DEF Holder
      <3> QED
        BY <1>1, <1>2, <2>1, <3>1 DEF Lower
    <2>2. CASE t # x
      <3>1. Holder(R, t) = Holder(T, t)
        BY <1>2, <2>2 DEF Holder
      <3>2. Lower(T, Holder(T, t), t) /\ Holder(T, t) \in Ref(B)
        BY <3>1 DEF Tree, Ranked, Holder, TreeTypes
      <3> QED
        BY <1>2, <3>1, <3>2 DEF Lower, Ref
    <2> QED
      BY <2>1, <2>2
  <1>6. Spared(R, B)
    <2> SUFFICES ASSUME NEW t \in B, R[t].free PROVE R[t].done /\ Bare(R, t)
      BY DEF Spared
    <2>1. T[t].free /\ t # p
      BY <1>2
    <2>2. T[t].done /\ Bare(T, t)
      BY <2>1 DEF Tree, Spared
    <2> QED
      BY <1>2, <2>1, <2>2 DEF Bare
  <1> QED
    BY <1>3, <1>4, <1>5, <1>6 DEF Tree

-----------------------------------------------------------------------------
\* A climb frees what has ended and has nothing left under it.

Numbered(T) == \A u \in Tasks : T[u].by \in Nat

LEMMA LowerOrder ==
  ASSUME NEW T, Numbered(T)
  PROVE  /\ \A u \in Tasks : ~Lower(T, u, u)
         /\ \A u, v, w \in Tasks : Lower(T, u, v) /\ Lower(T, v, w) => Lower(T, u, w)
  <1>1. ASSUME NEW u \in Tasks PROVE ~Lower(T, u, u)
    BY DEF Lower, Numbered, Tasks
  <1>2. ASSUME NEW u \in Tasks, NEW v \in Tasks, NEW w \in Tasks, Lower(T, u, v), Lower(T, v, w)
        PROVE  Lower(T, u, w)
    <2>1. T[u].by \in Nat /\ T[v].by \in Nat /\ T[w].by \in Nat /\ u \in Nat /\ v \in Nat /\ w \in Nat
      BY DEF Numbered, Tasks
    <2> QED
      BY <1>2, <2>1 DEF Lower
  <1> QED
    BY <1>1, <1>2

\* What a task hangs under has something under it.
LEMMA HolderIs ==
  ASSUME NEW B \in SUBSET Tasks, NEW T, TreeTypes(T, B), Numbered(T), NEW A, Tree(T, B, A),
         NEW x \in B, Holder(T, x) # Nobody
  PROVE  /\ Holder(T, x) \in B /\ ~Bare(T, Holder(T, x)) /\ ~T[Holder(T, x)].free
         /\ Lower(T, Holder(T, x), x) /\ Holder(T, x) # x
  <1> DEFINE h == Holder(T, x)
  <1>1. h \in B
    BY DEF Holder, TreeTypes, Ref
  <1>2. Lower(T, h, x)
    BY DEF Tree, Ranked
  <1>3. h # x
    BY <1>1, <1>2, LowerOrder
  <1>4. ~Bare(T, h)
    <2>1. CASE T[x].up # Nobody
      <3>1. h = T[x].up /\ T[h].down = x /\ x # Nobody
        BY <2>1 DEF Holder, Tree, Links, Tasks, Nobody
      <3> QED
        BY <3>1 DEF Bare
    <2>2. CASE T[x].up = Nobody
      <3>1. h = T[x].parent
        BY <2>2 DEF Holder
      <3>2. x \in ToSet(T[h].child)
        BY <1>1, <3>1 DEF Tree, Links
      <3>3. T[h].child \in Seq(B)
        BY <1>1 DEF TreeTypes
      <3>4. T[h].child # <<>>
        BY <3>2, <3>3, NoChild
      <3> QED
        BY <3>4 DEF Bare
    <2> QED
      BY <2>1, <2>2
  <1>5. ~T[h].free
    BY <1>1, <1>4 DEF Tree, Spared
  <1> QED
    BY <1>1, <1>2, <1>3, <1>4, <1>5

\* R is T without t; all but a are free when they and what is under them have
\* ended, unless that was so in T already.
Climbed(T, R, B, t, a) ==
    /\ Tree(R, B, {t})
    /\ \A u \in B : R[u].down \in {T[u].down, Nobody} /\ (T[u].free => R[u].free)
    /\ R[t].down = T[t].down /\ R[t].child = T[t].child
    /\ \A u \in B \ {t, a} : R[u].done /\ Bare(R, u) => R[u].free \/ (T[u].done /\ Bare(T, u))
FreeIn(T) == {u \in Tasks : T[u].free}
Climbing(c, T, B, t) ==
    c.at # Nobody => c.at \in B /\ ~c.T[c.at].free /\ Lower(T, c.at, t)

LEMMA ClimbStart ==
  ASSUME NEW B \in SUBSET Tasks, NEW T, IsTable(T), TreeTypes(T, B), Numbered(T), Tree(T, B, {}),
         NEW t \in B, ~T[t].free, NEW c, c = [T |-> Unhang(T, t), at |-> Holder(T, t)]
  PROVE  Climbed(T, c.T, B, t, c.at) /\ Climbing(c, T, B, t)
  <1> DEFINE R == Unhang(T, t)
             h == Holder(T, t)
  <1>1. Tree(R, B, {} \cup {t}) /\ Shed(T, R, t)
    BY UnhangTree
  <1>2. {} \cup {t} = {t}
    OBVIOUS
  <1>3. TreeKept(T, R, B)
    BY UnhangKept
  <1>4. h # Nobody => h \in B /\ ~T[h].free /\ Lower(T, h, t)
    BY HolderIs
  <1>5. h # t
    BY HolderIs DEF Tasks, Nobody
  <1>6. c.T = R /\ c.at = h
    OBVIOUS
  <1> HIDE DEF R, h
  <1>7. ASSUME NEW u \in B \ {t, h}, R[u].done, Bare(R, u) PROVE T[u].done /\ Bare(T, u)
    <2>1. u \in Tasks /\ R[u].down = T[u].down /\ R[u].child = T[u].child
      BY <1>1, <1>7 DEF Shed, h
    <2>2. R[u].done = T[u].done
      BY <1>3, <2>1 DEF TreeKept, Fields, TreeFields
    <2> QED
      BY <1>7, <2>1, <2>2 DEF Bare
  <1>8. R[t].down = T[t].down /\ R[t].child = T[t].child
    BY <1>1, <1>5 DEF Shed, h
  <1>9. \A u \in B : R[u].down \in {T[u].down, Nobody} /\ (T[u].free => R[u].free)
    BY <1>1 DEF Shed
  <1>10. Climbed(T, R, B, t, h)
    BY <1>1, <1>2, <1>7, <1>8, <1>9 DEF Climbed
  <1>11. h # Nobody => ~R[h].free
    BY <1>1, <1>4 DEF Shed
  <1> QED
    BY <1>4, <1>6, <1>10, <1>11 DEF Climbing

LEMMA ClimbOn ==
  ASSUME NEW B \in SUBSET Tasks, NEW T, Numbered(T), NEW t \in B,
         NEW c \in Climbs(T, B), Climbed(T, c.T, B, t, c.at), Climbing(c, T, B, t)
  PROVE  /\ Climbed(T, Climb(c).T, B, t, Climb(c).at) /\ Climbing(Climb(c), T, B, t)
         /\ Climb(c).at # Nobody =>
              /\ c.at \in Tasks /\ c.at \notin FreeIn(c.T)
              /\ FreeIn(Climb(c).T) = FreeIn(c.T) \cup {c.at}
  <1> DEFINE x == c.at
             S == c.T
             d == Climb(c)
  <1>1. TreeKept(T, S, B) /\ c = [T |-> S, at |-> x] /\ x \in Ref(B)
    BY DEF Climbs
  <1>2. CASE ~(x # Nobody /\ S[x].done /\ Bare(S, x))
    <2>1. d.T = S /\ d.at = Nobody
      BY <1>1, <1>2 DEF Climb
    <2>2. ASSUME NEW u \in B \ {t}, S[u].done, Bare(S, u) PROVE S[u].free \/ (T[u].done /\ Bare(T, u))
      <3>1. u # x
        BY <1>2, <2>2 DEF Tasks, Nobody
      <3> QED
        BY <2>2, <3>1 DEF Climbed
    <2>3. Climbed(T, S, B, t, Nobody)
      BY <2>2 DEF Climbed
    <2> QED
      BY <2>1, <2>3 DEF Climbing
  <1>3. CASE x # Nobody /\ S[x].done /\ Bare(S, x)
    <2> DEFINE P == Unhang(S, x)
               R == SetOne(P, x, "free", TRUE)
               h == Holder(S, x)
    <2>1. d = [T |-> R, at |-> h]
      BY <1>3 DEF Climb, SetOne
    <2>2. x \in B /\ ~S[x].free /\ Lower(T, x, t) /\ x \in Tasks
      BY <1>3 DEF Climbing
    <2>3. IsTable(S) /\ TreeTypes(S, B) /\ Tree(S, B, {t})
      BY <1>1 DEF TreeKept, Climbed
    <2>4. \A u \in Tasks : S[u].by = T[u].by
      BY <1>1 DEF TreeKept, Fields, TreeFields
    <2>5. Numbered(S)
      BY <2>4 DEF Numbered
    <2>6. x # t /\ t \in Tasks
      BY <2>2, LowerOrder
    <2>7. Tree(P, B, {t} \cup {x}) /\ Shed(S, P, x)
      BY <2>2, <2>3, <2>6, UnhangTree
    <2>8. TreeKept(S, P, B) /\ IsTable(P) /\ TreeTypes(P, B)
      BY <2>2, <2>3, UnhangKept DEF TreeKept
    <2>9. h # Nobody => /\ h \in B /\ h \in Tasks /\ ~S[h].free /\ Lower(S, h, x) /\ h # x
      BY <2>2, <2>3, <2>5, HolderIs
    <2>10. h # x
      BY <2>2, <2>9 DEF Tasks, Nobody
    <2>11. h # Nobody => Lower(T, h, x)
      BY <2>2, <2>4, <2>9 DEF Lower
    <2>12. h # Nobody => Lower(T, h, t)
      BY <2>2, <2>6, <2>9, <2>11, LowerOrder
    <2>13. h # t
      BY <2>6, <2>12, LowerOrder DEF Tasks, Nobody
    <2>14. \A u \in Tasks : u # h => P[u].down = S[u].down /\ P[u].child = S[u].child
      BY <2>7 DEF Shed
    <2>15. \A u \in Tasks : P[u].free = S[u].free /\ P[u].down \in {S[u].down, Nobody}
      BY <2>7 DEF Shed
    <2>16. \A u \in Tasks : P[u].done = S[u].done /\ S[u].done = T[u].done
      BY <1>1, <2>8 DEF TreeKept, Fields, TreeFields
    <2> HIDE DEF P, h, d
    <2>17. P[x].done /\ Bare(P, x)
      BY <1>3, <2>2, <2>10, <2>14, <2>16 DEF Bare
    <2>18. Tree(R, B, {t})
      BY <2>2, <2>6, <2>7, <2>8, <2>17, LooseTree
    <2> DEFINE f == "free"
               yes == TRUE
    <2>19. R = SetOne(P, x, f, yes) /\ f \in Fields /\ Shape(P)
      BY <2>8 DEF Fields, IsTable
    <2> HIDE DEF R, f, yes
    <2>20. FieldsKept(P, R, {f}) /\ OthersKept(P, R, x) /\ R[x][f] = yes
      BY ONLY <2>2, <2>8, <2>19, OneField
    <2>21. /\ \A u \in Tasks : R[u].down = P[u].down /\ R[u].child = P[u].child /\ R[u].done = P[u].done
           /\ R[x].free = yes
           /\ \A u \in Tasks : u # x => R[u].free = P[u].free
      BY <2>20 DEF f, FieldsKept, Fields, OthersKept
    <2>22. ASSUME NEW u \in B PROVE R[u].down \in {T[u].down, Nobody} /\ (T[u].free => R[u].free)
      <3>1. S[u].down \in {T[u].down, Nobody} /\ (T[u].free => S[u].free) /\ u \in Tasks
        BY DEF Climbed
      <3>2. R[u].down = P[u].down /\ (u # x => R[u].free = S[u].free) /\ (u = x => R[u].free)
        BY <2>15, <2>21, <3>1 DEF yes
      <3> QED
        BY <2>15, <3>1, <3>2
    <2>23. R[t].down = T[t].down /\ R[t].child = T[t].child
      BY <2>6, <2>13, <2>14, <2>21 DEF Climbed
    <2>24. ASSUME NEW u \in B \ {t, h}, R[u].done, Bare(R, u)
           PROVE  R[u].free \/ (T[u].done /\ Bare(T, u))
      <3>1. CASE u = x
        BY <2>21, <3>1 DEF yes
      <3>2. CASE u # x
        <4>1. S[u].done /\ Bare(S, u) /\ R[u].free = S[u].free
          BY <2>14, <2>15, <2>16, <2>21, <2>24, <3>2 DEF Bare
        <4> QED
          BY <3>2, <4>1 DEF Climbed
      <3> QED
        BY <3>1, <3>2
    <2>25. Climbed(T, R, B, t, h)
      BY <2>18, <2>22, <2>23, <2>24 DEF Climbed
    <2>26. h # Nobody => ~R[h].free
      BY <2>9, <2>15, <2>21
    <2>27. FreeIn(R) = FreeIn(S) \cup {x} /\ x \notin FreeIn(S)
      <3>1. \A u \in Tasks : R[u].free <=> (S[u].free \/ u = x)
        BY <2>15, <2>21 DEF yes
      <3> QED
        BY <2>2, <3>1 DEF FreeIn
    <2>28. d.T = R /\ d.at = h
      BY <2>1
    <2> QED
      BY <2>2, <2>9, <2>12, <2>25, <2>26, <2>27, <2>28 DEF Climbing, d
  <1> QED
    BY <1>2, <1>3

\* The climb ends: each step frees a task, and t is not freed.
LEMMA ParentRemoveTree ==
  ASSUME NEW B \in SUBSET Tasks, NEW T, IsTable(T), TreeTypes(T, B), Numbered(T), Tree(T, B, {}),
         NEW t \in B, ~T[t].free
  PROVE  Climbed(T, ParentRemove(T, t), B, t, t)
  <1> DEFINE K == NumTasks
  <1>1. PICK c : ClimbsTo(c, T, t, B)
    BY ClimbOf
  <1>2. K \in Nat /\ K \in 0 .. K /\ 0 \in 0 .. K
    BY TasksAssumption
  <1>3. /\ \A k \in 0 .. K : c[k] \in Climbs(T, B)
        /\ c[0] = [T |-> Unhang(T, t), at |-> Holder(T, t)]
        /\ \A k \in 1 .. K : c[k] = Climb(c[k - 1])
        /\ ParentRemove(T, t) = c[K].T
    BY <1>1 DEF ClimbsTo
  <1> DEFINE Count(k) == c[k].at # Nobody => Cardinality(FreeIn(c[k].T)) >= k
             G == {k \in 0 .. K : /\ Climbed(T, c[k].T, B, t, c[k].at)
                                  /\ Climbing(c[k], T, B, t) /\ Count(k)}
  <1>4. ASSUME NEW S PROVE IsFiniteSet(FreeIn(S)) /\ Cardinality(FreeIn(S)) \in Nat
    <2>1. IsFiniteSet(Tasks)
      BY <1>2, FS_Interval DEF Tasks
    <2>2. IsFiniteSet(FreeIn(S))
      BY <2>1, FS_Subset DEF FreeIn
    <2> QED
      BY <2>2, FS_CardinalityType
  <1>5. 0 \in G
    <2>1. Climbed(T, c[0].T, B, t, c[0].at) /\ Climbing(c[0], T, B, t)
      BY <1>3, ClimbStart
    <2>2. Count(0)
      BY <1>4
    <2> HIDE DEF Count
    <2> QED
      BY <1>2, <2>1, <2>2
  <1>6. ASSUME NEW k \in 1 .. K, k - 1 \in G PROVE k \in G
    <2> DEFINE a == c[k - 1]
    <2>1. /\ k \in 0 .. K /\ k - 1 \in 0 .. K /\ c[k] = Climb(a) /\ a \in Climbs(T, B)
          /\ Climbed(T, a.T, B, t, a.at) /\ Climbing(a, T, B, t) /\ Count(k - 1)
      BY <1>2, <1>3, <1>6
    <2> HIDE DEF a
    <2>2. /\ Climbed(T, c[k].T, B, t, c[k].at) /\ Climbing(c[k], T, B, t)
          /\ c[k].at # Nobody => /\ a.at \in Tasks /\ a.at \notin FreeIn(a.T)
                                 /\ FreeIn(c[k].T) = FreeIn(a.T) \cup {a.at}
      BY <2>1, ClimbOn
    <2>3. ASSUME c[k].at # Nobody PROVE Cardinality(FreeIn(c[k].T)) >= k
      <3>1. a.at # Nobody
        BY <2>2, <2>3 DEF Tasks, Nobody
      <3>2. Cardinality(FreeIn(a.T)) >= k - 1
        BY <2>1, <3>1 DEF a
      <3>3. Cardinality(FreeIn(c[k].T)) = Cardinality(FreeIn(a.T)) + 1
        BY <1>4, <2>2, <2>3, FS_AddElement
      <3> QED
        BY <1>4, <3>2, <3>3
    <2> QED
      BY <2>1, <2>2, <2>3
  <1>7. K \in G
    <2> HIDE DEF G, K
    <2> QED
      BY <1>2, <1>5, <1>6, UpTo
  <1> DEFINE R == c[K].T
  <1>8. Climbed(T, R, B, t, c[K].at) /\ Count(K)
    BY <1>7
  <1>9. c[K].at = Nobody
    <2> SUFFICES ASSUME c[K].at # Nobody PROVE FALSE
      OBVIOUS
    <2>1. Cardinality(FreeIn(R)) >= K
      BY <1>8
    <2>2. t \notin FreeIn(R)
      BY <1>8 DEF Climbed, Tree, Hangs, Adrift, FreeIn
    <2>3. FreeIn(R) \subseteq Tasks /\ t \in Tasks
      BY DEF FreeIn
    <2> HIDE DEF R
    <2>4. IsFiniteSet(Tasks) /\ Cardinality(Tasks) = K
      <3>1. ~(1 > K) /\ K - 1 + 1 = K /\ 1 \in Int /\ K \in Int
        BY TasksAssumption
      <3> QED
        BY <3>1, FS_Interval DEF Tasks
    <2>5. Cardinality(FreeIn(R)) <= Cardinality(Tasks) /\ (Cardinality(Tasks) = Cardinality(FreeIn(R)) => Tasks = FreeIn(R))
      BY <2>3, <2>4, FS_Subset
    <2> QED
      BY <1>2, <1>4, <2>1, <2>2, <2>3, <2>4, <2>5
  <1>10. Climbed(T, R, B, t, t)
    <2>1. \A u \in B \ {t} : u \in B \ {t, c[K].at}
      BY <1>9 DEF Tasks, Nobody
    <2> HIDE DEF R
    <2> QED
      BY <1>8, <2>1 DEF Climbed
  <1> QED
    BY <1>3, <1>10

-----------------------------------------------------------------------------
\* What the operations on the tree do.

\* A task that has ended with nothing under it is free, unless it had ended
\* so before.
Swept(T, R, B) == \A u \in B :
    /\ T[u].free => R[u].free
    /\ R[u].done /\ Bare(R, u) => R[u].free \/ (T[u].done /\ Bare(T, u))
Moved(T, R, B) == TreeKept(T, R, B) /\ Tree(R, B, {}) /\ Swept(T, R, B)

LEMMA MovedSelf ==
  ASSUME NEW B, NEW T, IsTable(T), TreeTypes(T, B), Tree(T, B, {})
  PROVE  Moved(T, T, B)
  BY TreeKeptSelf DEF Moved, Swept

LEMMA MovedTrans ==
  ASSUME NEW B, NEW T, NEW R, NEW Q, Moved(T, R, B), Moved(R, Q, B)
  PROVE  Moved(T, Q, B)
  <1>1. TreeKept(T, Q, B)
    BY TreeKeptTrans DEF Moved
  <1>2. Swept(T, Q, B)
    <2> SUFFICES ASSUME NEW u \in B
                 PROVE  /\ T[u].free => Q[u].free
                        /\ Q[u].done /\ Bare(Q, u) => Q[u].free \/ (T[u].done /\ Bare(T, u))
      BY DEF Swept
    <2>1. /\ T[u].free => R[u].free
          /\ R[u].done /\ Bare(R, u) => R[u].free \/ (T[u].done /\ Bare(T, u))
          /\ R[u].free => Q[u].free
          /\ Q[u].done /\ Bare(Q, u) => Q[u].free \/ (R[u].done /\ Bare(R, u))
      BY DEF Moved, Swept
    <2> QED
      BY <2>1
  <1> QED
    BY <1>1, <1>2 DEF Moved

\* t has been taken out and put in a place again.
LEMMA PlacedSwept ==
  ASSUME NEW B \in SUBSET Tasks, NEW T, NEW P, NEW Q, NEW t \in B, ~T[t].free,
         TreeKept(T, P, B), TreeKept(T, Q, B), Climbed(T, P, B, t, t),
         \A u \in B : (Bare(Q, u) => Bare(P, u)) /\ (u # t => Q[u].free = P[u].free)
  PROVE  Swept(T, Q, B)
  <1> SUFFICES ASSUME NEW u \in B
               PROVE  /\ T[u].free => Q[u].free
                      /\ Q[u].done /\ Bare(Q, u) => Q[u].free \/ (T[u].done /\ Bare(T, u))
    BY DEF Swept
  <1>1. u \in Tasks /\ P[u].done = T[u].done /\ Q[u].done = T[u].done
    BY DEF TreeKept, Fields, TreeFields
  <1>2. CASE u = t
    <2>1. Bare(P, t) => Bare(T, t)
      BY DEF Climbed, Bare
    <2> QED
      BY <1>1, <1>2, <2>1
  <1>3. CASE u # t
    <2>1. /\ T[u].free => P[u].free
          /\ P[u].done /\ Bare(P, u) => P[u].free \/ (T[u].done /\ Bare(T, u))
      BY <1>3 DEF Climbed
    <2>2. Q[u].free = P[u].free /\ (Bare(Q, u) => Bare(P, u))
      BY <1>3
    <2> QED
      BY <1>1, <2>1, <2>2
  <1> QED
    BY <1>2, <1>3

LEMMA MadeSame ==
  ASSUME NEW B \in SUBSET Tasks, NEW P, IsTable(P), TreeTypes(P, B), NEW x \in B, NEW p \in B, NEW u \in B
  PROVE  /\ Bare(MadeChild(P, x, p), u) => Bare(P, u)
         /\ Bare(MadeCall(P, x, p), u) => Bare(P, u)
         /\ MadeChild(P, x, p)[u].free = P[u].free /\ MadeCall(P, x, p)[u].free = P[u].free
  <1> DEFINE Q == MadeChild(P, x, p)
             R == MadeCall(P, x, p)
  <1>1. Shape(P) /\ x \in Tasks /\ p \in Tasks /\ u \in Tasks /\ x # Nobody
    BY DEF IsTable, Tasks, Nobody
  <1>2. /\ Q[u].down = P[u].down /\ Q[u].free = P[u].free
        /\ Q[u].child = IF u = p THEN Append(P[u].child, x) ELSE P[u].child
    BY <1>1 DEF MadeChild, Shape, Fields
  <1>3. /\ R[u].child = P[u].child /\ R[u].free = P[u].free
        /\ R[u].down = IF u = p THEN x ELSE P[u].down
    BY <1>1 DEF MadeCall, Shape, Fields
  <1>4. Append(P[u].child, x) # <<>>
    BY AppendSet DEF TreeTypes
  <1> HIDE DEF Q, R
  <1>5. (Bare(Q, u) => Bare(P, u)) /\ (Bare(R, u) => Bare(P, u))
    BY <1>1, <1>2, <1>3, <1>4 DEF Bare
  <1> QED
    BY <1>2, <1>3, <1>5 DEF Q, R

LEMMA CheckFreeTree ==
  ASSUME NEW B \in SUBSET Tasks, NEW T, IsTable(T), TreeTypes(T, B), Numbered(T), Tree(T, B, {}),
         NEW t \in B, T[t].done, Bare(T, t) => ~T[t].free
  PROVE  Moved(T, CheckFree(T, t), B) /\ (Bare(T, t) => CheckFree(T, t)[t].free)
  <1>1. CASE ~Bare(T, t)
    BY <1>1, MovedSelf DEF CheckFree
  <1>2. CASE Bare(T, t)
    <2> DEFINE P == ParentRemove(T, t)
               Q == SetOne(P, t, "free", TRUE)
    <2>1. CheckFree(T, t) = Q
      BY <1>2 DEF CheckFree, SetOne
    <2>2. TreeKept(T, P, B) /\ Climbed(T, P, B, t, t)
      BY <1>2, ParentRemoveKept, ParentRemoveTree
    <2>3. TreeKept(T, Q, B)
      BY <2>1, CheckFreeKept
    <2>4. t \in Tasks /\ IsTable(P) /\ Shape(P) /\ TreeTypes(P, B)
      BY <2>2 DEF TreeKept, IsTable
    <2> HIDE DEF P
    <2>5. P[t].done /\ Bare(P, t)
      BY <1>2, <2>2, <2>4 DEF Climbed, Bare, TreeKept, Fields, TreeFields
    <2>6. Tree(P, B, {} \cup {t})
      <3>1. {} \cup {t} = {t}
        OBVIOUS
      <3> QED
        BY <2>2, <3>1 DEF Climbed
    <2>7. Tree(Q, B, {})
      BY <2>4, <2>5, <2>6, LooseTree
    <2> DEFINE f == "free"
               yes == TRUE
    <2>8. Q = SetOne(P, t, f, yes) /\ f \in Fields
      BY DEF Fields
    <2> HIDE DEF Q, f, yes
    <2>9. FieldsKept(P, Q, {f}) /\ OthersKept(P, Q, t) /\ Q[t][f] = yes
      BY ONLY <2>4, <2>8, OneField
    <2>10. ASSUME NEW u \in B
           PROVE  (Bare(Q, u) => Bare(P, u)) /\ (u # t => Q[u].free = P[u].free)
      BY <2>9 DEF f, FieldsKept, Fields, OthersKept, Bare
    <2>11. Swept(T, Q, B)
      BY <1>2, <2>2, <2>3, <2>10, PlacedSwept
    <2> QED
      BY <2>1, <2>3, <2>7, <2>9, <2>11 DEF Moved, f, yes
  <1> QED
    BY <1>1, <1>2

LEMMA SpawnParentTree ==
  ASSUME NEW B \in SUBSET Tasks, NEW T, IsTable(T), TreeTypes(T, B), Numbered(T), Tree(T, B, {}),
         NEW t \in B, NEW p \in Ref(B), p # Nobody => Lower(T, p, t)
  PROVE  Moved(T, SpawnParent(T, t, p), B)
  <1>1. CASE T[t].done /\ T[t].parent = Nobody
    BY <1>1, MovedSelf DEF SpawnParent
  <1>2. CASE ~(T[t].done /\ T[t].parent = Nobody)
    <2> DEFINE P == ParentRemove(T, t)
               Q == SpawnParent(T, t, p)
    <2>0. ~T[t].free
      <3>1. OnePlace(T[t])
        BY DEF Tree, Hangs
      <3> QED
        BY <1>2, <3>1 DEF OnePlace, Tree, Spared
    <2>1. TreeKept(T, P, B) /\ Climbed(T, P, B, t, t)
      BY <2>0, ParentRemoveKept, ParentRemoveTree
    <2>2. TreeKept(T, Q, B)
      BY SpawnParentKept
    <2>3. t \in Tasks /\ IsTable(P) /\ Shape(P) /\ TreeTypes(P, B) /\ Tree(P, B, {t})
      BY <2>1 DEF TreeKept, IsTable, Climbed
    <2>4. CASE p = Nobody \/ P[p].free
      <3>1. Q = SetOne(P, t, "root", TRUE)
        BY <1>2, <2>4 DEF SpawnParent, SetOne
      <3> HIDE DEF P, Q
      <3>2. {} \cup {t} = {t}
        OBVIOUS
      <3>3. Tree(Q, B, {})
        BY <2>3, <3>1, <3>2, LooseTree
      <3> DEFINE f == "root"
                 yes == TRUE
      <3>4. Q = SetOne(P, t, f, yes) /\ f \in Fields
        BY <3>1 DEF Fields
      <3> HIDE DEF f, yes
      <3>5. FieldsKept(P, Q, {f}) /\ OthersKept(P, Q, t)
        BY ONLY <2>3, <3>4, OneField
      <3>6. ASSUME NEW u \in B
            PROVE  (Bare(Q, u) => Bare(P, u)) /\ (u # t => Q[u].free = P[u].free)
        BY <3>5 DEF f, FieldsKept, Fields, OthersKept, Bare
      <3>7. Swept(T, Q, B)
        BY <2>0, <2>1, <2>2, <3>6, PlacedSwept
      <3> QED
        BY <2>2, <3>3, <3>7 DEF Moved, Q
    <2>5. CASE ~(p = Nobody \/ P[p].free)
      <3>1. Q = MadeChild(P, t, p)
        BY <1>2, <2>5 DEF SpawnParent, MadeChild
      <3>2. p \in B /\ ~P[p].free
        BY <2>5 DEF Ref
      <3>3. Lower(P, p, t)
        BY <2>1, <2>3, <3>2, <2>5 DEF Lower, TreeKept, Fields, TreeFields
      <3> HIDE DEF P, Q
      <3>4. Tree(Q, B, {})
        BY <2>3, <3>1, <3>2, <3>3, ChildTree
      <3>5. \A u \in B : (Bare(Q, u) => Bare(P, u)) /\ Q[u].free = P[u].free
        BY <2>3, <3>1, <3>2, MadeSame
      <3>6. Swept(T, Q, B)
        BY <2>0, <2>1, <2>2, <3>5, PlacedSwept
      <3> QED
        BY <2>2, <3>4, <3>6 DEF Moved, Q
    <2> QED
      BY <2>4, <2>5
  <1> QED
    BY <1>1, <1>2

LEMMA SetDownTree ==
  ASSUME NEW B \in SUBSET Tasks, NEW T, IsTable(T), TreeTypes(T, B), Numbered(T), Tree(T, B, {}),
         NEW t \in B, NEW d \in B, T[t].down = Nobody, ~T[t].done, ~T[d].done, Lower(T, t, d)
  PROVE  Moved(T, SetDown(T, t, d), B)
  <1> DEFINE P == ParentRemove(T, d)
             Q == SetDown(T, t, d)
  <1>0. ~T[d].free /\ ~T[t].free
    BY DEF Tree, Spared
  <1>1. TreeKept(T, P, B) /\ Climbed(T, P, B, d, d)
    BY <1>0, ParentRemoveKept, ParentRemoveTree
  <1>2. TreeKept(T, Q, B)
    BY SetDownKept
  <1>3. /\ t \in Tasks /\ d \in Tasks /\ IsTable(P) /\ TreeTypes(P, B) /\ Tree(P, B, {d})
    BY <1>1 DEF TreeKept, IsTable, Climbed
  <1>4. Q = MadeCall(P, d, t)
    BY DEF SetDown, MadeCall
  <1> HIDE DEF P, Q
  <1>5. P[t].done = T[t].done /\ P[t].by = T[t].by /\ P[d].by = T[d].by
    BY <1>1, <1>3 DEF TreeKept, Fields, TreeFields
  <1>6. ~P[t].free /\ Lower(P, t, d) /\ P[t].down = Nobody
    BY <1>1, <1>3, <1>5 DEF Tree, Spared, Lower, Climbed
  <1>7. Tree(Q, B, {})
    BY <1>3, <1>4, <1>6, DownTree
  <1>8. \A u \in B : (Bare(Q, u) => Bare(P, u)) /\ Q[u].free = P[u].free
    BY <1>3, <1>4, MadeSame
  <1>9. Swept(T, Q, B)
    BY <1>0, <1>1, <1>2, <1>8, PlacedSwept
  <1> QED
    BY <1>2, <1>7, <1>9 DEF Moved, Q

\* A task that has something under it goes from its caller to its children.
LEMMA KeepUnderUpTree ==
  ASSUME NEW B \in SUBSET Tasks, NEW T, IsTable(T), TreeTypes(T, B), Numbered(T), Tree(T, B, {}),
         NEW t \in B
  PROVE  Moved(T, KeepUnderUp(T, t), B)
  <1> DEFINE u == T[t].up
             P == Unhang(T, t)
             Q == KeepUnderUp(T, t)
  <1>1. CASE u = Nobody \/ (T[t].down = Nobody /\ T[t].child = <<>>)
    BY <1>1, MovedSelf DEF KeepUnderUp
  <1>2. CASE ~(u = Nobody \/ (T[t].down = Nobody /\ T[t].child = <<>>))
    <2>1. Holder(T, t) = u
      BY <1>2 DEF Holder
    <2>2. u \in B /\ ~T[u].free /\ Lower(T, u, t) /\ u # t
      BY <1>2, <2>1, HolderIs
    <2>3. ~T[t].free
      BY <1>2 DEF Tree, Spared, Bare
    <2>4. TreeKept(T, P, B) /\ TreeKept(T, Q, B)
      BY UnhangKept, KeepUnderUpKept
    <2>5. Tree(P, B, {} \cup {t}) /\ Shed(T, P, t) /\ {} \cup {t} = {t}
      BY <2>3, UnhangTree
    <2>6. Q = MadeChild(P, t, u)
      BY <1>2 DEF KeepUnderUp, MadeChild, Unhang
    <2>7. IsTable(P) /\ TreeTypes(P, B) /\ t \in Tasks /\ u \in Tasks
      BY <2>2, <2>4 DEF TreeKept
    <2> HIDE DEF P, Q, u
    <2>8. Lower(P, u, t) /\ ~P[u].free
      BY <2>2, <2>4, <2>5, <2>7 DEF Lower, Shed, TreeKept, Fields, TreeFields
    <2>9. Tree(Q, B, {})
      BY <2>2, <2>5, <2>6, <2>7, <2>8, ChildTree
    <2>10. \A v \in B : (Bare(Q, v) => Bare(P, v)) /\ Q[v].free = P[v].free
      BY <2>2, <2>6, <2>7, MadeSame
    <2>11. ~Bare(Q, u)
      <3>1. Q[u].child = Append(P[u].child, t)
        BY <2>6, <2>7 DEF MadeChild, IsTable, Shape, Fields
      <3>2. Append(P[u].child, t) # <<>>
        BY <2>2, <2>7, AppendSet DEF TreeTypes
      <3> QED
        BY <3>1, <3>2 DEF Bare
    <2>12. Swept(T, Q, B)
      <3> SUFFICES ASSUME NEW v \in B
                   PROVE  /\ T[v].free => Q[v].free
                          /\ Q[v].done /\ Bare(Q, v) => Q[v].free \/ (T[v].done /\ Bare(T, v))
        BY DEF Swept
      <3>1. v \in Tasks /\ Q[v].done = T[v].done /\ P[v].free = T[v].free
        BY <2>4, <2>5 DEF TreeKept, Fields, TreeFields, Shed
      <3>2. v # u => P[v].down = T[v].down /\ P[v].child = T[v].child
        BY <2>1, <2>5 DEF Shed
      <3> QED
        BY <2>10, <2>11, <3>1, <3>2 DEF Bare
    <2> QED
      BY <2>4, <2>9, <2>12 DEF Moved, Q
  <1> QED
    BY <1>1, <1>2

LEMMA NumberedKept ==
  ASSUME NEW B, NEW T, NEW R, TreeKept(T, R, B), Numbered(T)
  PROVE  Numbered(R) /\ \A u, v \in Tasks : Lower(T, u, v) => Lower(R, u, v)
  <1>1. \A u \in Tasks : R[u].by = T[u].by
    BY DEF TreeKept, Fields, TreeFields
  <1> QED
    BY <1>1 DEF Numbered, Lower

LEMMA AdoptTree ==
  ASSUME NEW B \in SUBSET Tasks, NEW T, IsTable(T), TreeTypes(T, B), Numbered(T), Tree(T, B, {}),
         NEW a \in Seq(B), NEW p \in B, \A u \in ToSet(a) : Lower(T, p, u)
  PROVE  Moved(T, Adopt(T, a, p), B)
  <1> DEFINE K == Len(a)
  <1>1. PICK to : Adopts(to, T, a, p, B)
    BY AdoptOf
  <1>2. K \in Nat /\ K \in 0 .. K /\ 0 \in 0 .. K
    OBVIOUS
  <1> DEFINE G == {k \in 0 .. K : Moved(T, to[k], B)}
  <1>3. 0 \in G
    BY <1>1, <1>2, MovedSelf DEF Adopts
  <1>4. ASSUME NEW k \in 1 .. K, k - 1 \in G PROVE k \in G
    <2> DEFINE R == to[k - 1]
    <2>1. k \in 0 .. K /\ Moved(T, R, B)
      BY <1>4
    <2>2. to[k] = SpawnParent(R, a[k], p)
      BY <1>1 DEF Adopts
    <2>3. a[k] \in B /\ a[k] \in ToSet(a)
      BY DEF ToSet
    <2> HIDE DEF R
    <2>4. TreeKept(T, R, B) /\ IsTable(R) /\ TreeTypes(R, B) /\ Tree(R, B, {})
      BY <2>1 DEF Moved, TreeKept
    <2>5. Numbered(R) /\ Lower(R, p, a[k])
      BY <2>3, <2>4, NumberedKept
    <2>6. p \in Ref(B)
      BY DEF Ref
    <2>7. Moved(R, SpawnParent(R, a[k], p), B)
      BY <2>3, <2>4, <2>5, <2>6, SpawnParentTree
    <2> QED
      BY <2>1, <2>2, <2>7, MovedTrans
  <1>5. K \in G
    <2> HIDE DEF G, K
    <2> QED
      BY <1>2, <1>3, <1>4, UpTo
  <1> QED
    BY <1>1, <1>5 DEF Adopts

-----------------------------------------------------------------------------
\* The invariant of the tree.  A task that has ended with nothing under it is
\* free, or one of the calls that end it is on the stack.

Ends == {"complete", "child", "leave"}
NoLate(T) == \A t \in Tasks : ~LateTask(T[t])
Ended(T, s) == \A t \in BornIn(T) : T[t].done /\ Bare(T, t) => T[t].free \/ Has(s, Ends, t)
\* Tasks are born in turn, after their creators; those of a list hang under the
\* task that has it.
Elders(T) == \A t \in BornIn(T) :
    /\ T[t].by < t /\ \A u \in Tasks : u < t => u \in BornIn(T)
    /\ \A u \in ToSet(T[t].arr) : Lower(T, t, u)
\* The answer kept for a state that runs is not a task to wait for.
Told(T) == \A t \in BornIn(T) : T[t].atcont.k # "task"
\* The calls that end a task are for one that is done, and no state of a task
\* that is done runs, but of those with one state; what a state waits for comes
\* after it in the order of the tree.
FrameTree(f, T) ==
    /\ f.f \in Ends => T[f.t].done
    /\ f.f \in Acts /\ T[f.t].kind \notin One => ~T[f.t].done
    /\ f.f \in {"call", "after"} /\ f.v.k = "task" => T[f.t].kind \notin One /\ Lower(T, f.t, f.v.t)
    /\ f.f \in {"continue", "return"} => f.v.k # "task"
AllTree(s, T) == \A i \in DOMAIN s : FrameTree(s[i], T)

TreeInv(T, s) == Tree(T, BornIn(T), {}) /\ Elders(T) /\ Told(T) /\ Ended(T, s) /\ AllTree(s, T)

\* R goes on from T.
Same(T, R) == \A u \in Tasks :
    /\ R[u].kind = T[u].kind /\ R[u].by = T[u].by /\ R[u].arr = T[u].arr
    /\ T[u].late => R[u].late
    /\ T[u].done => R[u].done
\* The frames gs are put on r, what is left of the stack s.
Follows(T, R, gs, s, r) ==
    /\ Tree(R, BornIn(T), {}) /\ Told(R) /\ AllTree(gs, R)
    /\ \A u \in BornIn(T) :
         /\ T[u].free => R[u].free
         /\ R[u].done /\ Bare(R, u) => R[u].free \/ Has(gs, Ends, u) \/ (T[u].done /\ Bare(T, u))
         /\ Has(s, Ends, u) => Has(r, Ends, u) \/ Has(gs, Ends, u) \/ R[u].free \/ ~Bare(R, u)
    /\ \A u \in Tasks : R[u].done => T[u].done \/ T[u].kind \in One \/ ~Has(r, Acts, u)

LEMMA LowerSame ==
  ASSUME NEW T, NEW R, Same(T, R), NEW u \in Tasks, NEW t \in Tasks, Lower(T, u, t)
  PROVE  Lower(R, u, t)
  <1>1. R[u].by = T[u].by /\ R[t].by = T[t].by
    BY DEF Same
  <1> QED
    BY <1>1 DEF Lower

LEMMA Onward ==
  ASSUME NEW T, NEW R, Same(T, R), \A t \in BornIn(T) : T[t].arr \in Seq(Tasks),
         NEW S, NEW gs \in Seq(S), NEW s \in Seq(S), NEW r \in Seq(S),
         \A f \in S : f.t \in Tasks /\ (f.v.k = "task" => f.v.t \in Tasks),
         \A i \in DOMAIN r : \E j \in DOMAIN s : r[i] = s[j],
         TreeInv(T, s), Follows(T, R, gs, s, r)
  PROVE  TreeInv(R, gs \o r)
  <1>1. BornIn(R) = BornIn(T)
    BY BornSame DEF Same
  <1>2. Elders(R)
    <2> SUFFICES ASSUME NEW t \in BornIn(T)
                 PROVE  /\ R[t].by < t /\ \A u \in Tasks : u < t => u \in BornIn(T)
                        /\ \A u \in ToSet(R[t].arr) : Lower(R, t, u)
      BY <1>1 DEF Elders
    <2>1. t \in Tasks /\ R[t].by = T[t].by /\ R[t].arr = T[t].arr /\ T[t].arr \in Seq(Tasks)
      BY DEF Same, BornIn
    <2>2. ToSet(T[t].arr) \subseteq Tasks
      BY <2>1 DEF ToSet
    <2>3. /\ T[t].by < t /\ \A u \in Tasks : u < t => u \in BornIn(T)
          /\ \A u \in ToSet(T[t].arr) : Lower(T, t, u)
      BY DEF TreeInv, Elders
    <2> QED
      BY <2>1, <2>2, <2>3, LowerSame
  <1>3. Ended(R, gs \o r)
    <2> SUFFICES ASSUME NEW u \in BornIn(T), R[u].done, Bare(R, u)
                 PROVE  R[u].free \/ Has(gs \o r, Ends, u)
      BY <1>1 DEF Ended
    <2>1. Has(gs \o r, Ends, u) <=> Has(gs, Ends, u) \/ Has(r, Ends, u)
      BY HasConcat
    <2>2. T[u].done /\ Bare(T, u) => T[u].free \/ Has(s, Ends, u)
      BY DEF TreeInv, Ended
    <2> QED
      BY <2>1, <2>2 DEF Follows
  <1>4. ASSUME NEW i \in DOMAIN r PROVE FrameTree(r[i], R)
    <2> DEFINE f == r[i]
    <2>1. f \in S /\ f.t \in Tasks /\ (f.v.k = "task" => f.v.t \in Tasks)
      BY <1>4
    <2>2. FrameTree(f, T)
      BY DEF TreeInv, AllTree
    <2>3. f.f \in Acts => Has(r, Acts, f.t)
      BY DEF Has
    <2> HIDE DEF f
    <2>4. /\ R[f.t].kind = T[f.t].kind /\ (T[f.t].done => R[f.t].done)
          /\ f.f \in Acts /\ R[f.t].done => T[f.t].done \/ T[f.t].kind \in One
      BY <2>1, <2>3 DEF Same, Follows
    <2>5. f.v.k = "task" /\ Lower(T, f.t, f.v.t) => Lower(R, f.t, f.v.t)
      BY <2>1, LowerSame
    <2>6. f.f \in {"call", "after"} => f.f \in Acts
      BY DEF Acts
    <2>7. FrameTree(f, R)
      BY <2>2, <2>4, <2>5 DEF FrameTree
    <2> QED
      BY <2>7 DEF f
  <1>5. AllTree(gs \o r, R)
    <2> DEFINE q == gs \o r
    <2> SUFFICES ASSUME NEW i \in DOMAIN q PROVE FrameTree(q[i], R)
      BY DEF AllTree
    <2>1. /\ DOMAIN q = 1 .. Len(gs) + Len(r)
          /\ \A j \in 1 .. Len(gs) : q[j] = gs[j]
          /\ \A j \in DOMAIN q : j \notin 1 .. Len(gs) => q[j] = r[j - Len(gs)]
          /\ Len(gs) \in Nat /\ Len(r) \in Nat /\ DOMAIN gs = 1 .. Len(gs) /\ DOMAIN r = 1 .. Len(r)
      BY ConcatParts
    <2> HIDE DEF q
    <2>2. CASE i \in 1 .. Len(gs)
      <3>1. q[i] = gs[i] /\ i \in DOMAIN gs
        BY <2>1, <2>2
      <3> QED
        BY <3>1 DEF Follows, AllTree
    <2>3. CASE i \notin 1 .. Len(gs)
      <3>1. q[i] = r[i - Len(gs)] /\ i - Len(gs) \in DOMAIN r
        BY <2>1, <2>3
      <3> QED
        BY <1>4, <3>1
    <2> QED
      BY <2>2, <2>3
  <1> QED
    BY <1>1, <1>2, <1>3, <1>5 DEF TreeInv, Follows

\* A step of the machine keeps the invariant as long as no timer is late, and
\* a task that a timer has woken late stays so.
TreeNow == NoLate(task) /\ TreeInv(task, stack)
LateOn(T, R) == \A u \in Tasks : LateTask(T[u]) => LateTask(R[u])
TreeStays == LateOn(task, task') /\ (TreeNow => TreeInv(task', stack'))

LEMMA LateSame ==
  ASSUME NEW T, NEW R, Same(T, R)
  PROVE  LateOn(T, R)
  BY DEF Same, LateOn, LateTask

LEMMA FramesAre ==
  ASSUME IInv
  PROVE  /\ \A f \in Frames(BornIn(task)) : f.t \in Tasks /\ (f.v.k = "task" => f.v.t \in Tasks)
         /\ \A t \in BornIn(task) : task[t].arr \in Seq(Tasks)
  <1>1. BornIn(task) \in SUBSET Tasks
    BY Here
  <1>2. ASSUME NEW f \in Frames(BornIn(task))
        PROVE  f.t \in Tasks /\ (f.v.k = "task" => f.v.t \in Tasks)
    <2>1. f.t \in BornIn(task) /\ f.v \in Values(BornIn(task))
      BY DEF Frames
    <2> QED
      BY <1>1, <2>1 DEF Values
  <1>3. ASSUME NEW t \in BornIn(task) PROVE task[t].arr \in Seq(Tasks)
    <2>1. task[t].arr \in Seq(BornIn(task))
      BY <1>1, Here DEF Types, DataOK
    <2> QED
      BY <1>1, <2>1, SeqMore
  <1> QED
    BY <1>2, <1>3

LEMMA FollowStep ==
  ASSUME IInv, Same(task, task'), NEW gs \in Seq(Frames(BornIn(task))),
         NEW r \in Seq(Frames(BornIn(task))), \A i \in DOMAIN r : \E j \in DOMAIN stack : r[i] = stack[j],
         stack' = gs \o r, TreeNow => Follows(task, task', gs, stack, r)
  PROVE  TreeStays
  <1>1. stack \in Seq(Frames(BornIn(task)))
    BY Here
  <1>2. ASSUME TreeNow PROVE TreeInv(task', stack')
    <2> DEFINE R == task'
               q == stack'
    <2>1. Same(task, R) /\ Follows(task, R, gs, stack, r) /\ q = gs \o r /\ TreeInv(task, stack)
      BY <1>2 DEF TreeNow
    <2> HIDE DEF R, q
    <2>2. TreeInv(R, q)
      BY <1>1, <2>1, FramesAre, Onward
    <2> QED
      BY <2>2 DEF R, q
  <1> QED
    BY <1>2, LateSame DEF TreeStays

LEMMA RestIs ==
  ASSUME IInv, stack # <<>>
  PROVE  /\ Rest \in Seq(Frames(BornIn(task)))
         /\ \A i \in DOMAIN Rest : \E j \in DOMAIN stack : Rest[i] = stack[j]
         /\ \A F, t : Has(stack, F, t) <=> (Top.f \in F /\ Top.t = t) \/ Has(Rest, F, t)
         /\ 1 \in DOMAIN stack /\ Top = stack[1]
  <1> DEFINE S == Frames(BornIn(task))
             s == stack
  <1>1. s \in Seq(S) /\ s # <<>>
    BY Here
  <1> HIDE DEF S
  <1>2. /\ Tail(s) \in Seq(S) /\ DOMAIN s = 1 .. Len(s) /\ Len(s) \in Nat /\ Len(s) # 0
        /\ DOMAIN Tail(s) = 1 .. Len(s) - 1 /\ \A i \in 1 .. Len(s) - 1 : Tail(s)[i] = s[i + 1]
        /\ Head(s) = s[1]
    BY <1>1
  <1>3. \A i \in DOMAIN Tail(s) : i + 1 \in DOMAIN s /\ Tail(s)[i] = s[i + 1]
    BY <1>2
  <1>4. ASSUME NEW F, NEW t PROVE Has(s, F, t) <=> (Top.f \in F /\ Top.t = t) \/ Has(Rest, F, t)
    BY <1>1, TopHas DEF Top, Rest
  <1> QED
    BY <1>2, <1>3, <1>4 DEF Rest, Top, S

\* The tree does not change, nor, of what is calm, what has ended.
Still(T, R) == Same(T, R) /\ \A u \in Tasks :
    /\ R[u].up = T[u].up /\ R[u].down = T[u].down /\ R[u].parent = T[u].parent
    /\ R[u].child = T[u].child /\ R[u].root = T[u].root /\ R[u].free = T[u].free
Calm(T, R) == Still(T, R) /\ \A u \in Tasks : R[u].done = T[u].done
CalmFields == {"err", "run", "atret", "atcont", "wait", "wop", "won", "wdone", "seq", "timer",
               "stray", "fin", "then", "cur", "next", "i"}

LEMMA CalmOf ==
  ASSUME NEW T, NEW R, NEW F \in SUBSET CalmFields, FieldsKept(T, R, F)
  PROVE  Calm(T, R) /\ ("atcont" \notin F => \A u \in Tasks : R[u].atcont = T[u].atcont)
  <1> SUFFICES ASSUME NEW u \in Tasks
               PROVE  /\ R[u].kind = T[u].kind /\ R[u].late = T[u].late /\ R[u].by = T[u].by
                      /\ R[u].arr = T[u].arr /\ R[u].done = T[u].done
                      /\ R[u].up = T[u].up /\ R[u].down = T[u].down /\ R[u].parent = T[u].parent
                      /\ R[u].child = T[u].child /\ R[u].root = T[u].root /\ R[u].free = T[u].free
                      /\ "atcont" \notin F => R[u].atcont = T[u].atcont
    BY DEF Calm, Still, Same
  <1>1. \A f \in Fields \ CalmFields : f \in Fields \ F
    OBVIOUS
  <1>2. \A f \in Fields \ CalmFields : R[u][f] = T[u][f]
    BY <1>1 DEF FieldsKept
  <1>3. "atcont" \notin F => R[u].atcont = T[u].atcont
    BY DEF FieldsKept, Fields
  <1> QED
    BY <1>2, <1>3 DEF Fields, CalmFields

LEMMA CalmSelf ==
  ASSUME NEW T
  PROVE  Calm(T, T)
  BY DEF Calm, Still, Same

LEMMA CalmTrans ==
  ASSUME NEW T, NEW R, NEW Q, Calm(T, R), Calm(R, Q)
  PROVE  Calm(T, Q)
  BY DEF Calm, Still, Same

LEMMA StillTree ==
  ASSUME NEW B \in SUBSET Tasks, NEW T, NEW R, TreeTypes(T, B), Tree(T, B, {}), Still(T, R)
  PROVE  Tree(R, B, {}) /\ \A u \in Tasks : Bare(R, u) = Bare(T, u)
  <1>1. \A u \in Tasks : /\ R[u].up = T[u].up /\ R[u].down = T[u].down /\ R[u].parent = T[u].parent
                           /\ R[u].child = T[u].child
    BY DEF Still
  <1>2. \A u \in B : R[u].up = T[u].up /\ R[u].parent = T[u].parent /\ R[u].by = T[u].by
    BY DEF Still, Same
  <1>3. Links(T, B) /\ Ranked(T, B)
    BY DEF Tree
  <1>4. Links(R, B)
    BY <1>1, <1>3, LinksSame
  <1>5. Ranked(R, B)
    BY ONLY B \in SUBSET Tasks, TreeTypes(T, B), <1>2, <1>3, RankedSame
  <1>6. ASSUME NEW u \in Tasks PROVE Bare(R, u) = Bare(T, u)
    BY <1>1 DEF Bare
  <1>7. Hangs(R, B, {})
    BY DEF Tree, Hangs, Still, OnePlace
  <1>8. Spared(R, B)
    BY <1>6 DEF Tree, Spared, Still, Same
  <1> QED
    BY <1>4, <1>5, <1>6, <1>7, <1>8 DEF Tree

LEMMA ToldSame ==
  ASSUME NEW T, NEW R, Told(T), \A u \in Tasks : R[u].kind = T[u].kind /\ R[u].atcont = T[u].atcont
  PROVE  Told(R)
  BY DEF Told, BornIn

LEMMA CalmFollows ==
  ASSUME IInv, TreeNow, NEW R, Calm(task, R), NEW gs, NEW r, Told(R), AllTree(gs, R),
         \A u \in BornIn(task) : Has(stack, Ends, u) => Has(r, Ends, u) \/ Has(gs, Ends, u),
         \A u \in Tasks : Has(r, Acts, u) => Has(stack, Acts, u)
  PROVE  Follows(task, R, gs, stack, r)
  <1> DEFINE B == BornIn(task)
  <1>1. B \in SUBSET Tasks /\ TreeTypes(task, B) /\ Tree(task, B, {})
    BY Here DEF TreeNow, TreeInv
  <1>2. Tree(R, B, {}) /\ \A u \in Tasks : Bare(R, u) = Bare(task, u)
    BY <1>1, StillTree DEF Calm
  <1>3. Same(task, R) /\ \A u \in Tasks : R[u].done = task[u].done /\ R[u].free = task[u].free
    BY DEF Calm, Still
  <1>4. ASSUME NEW u \in B
        PROVE  /\ task[u].free => R[u].free
               /\ R[u].done /\ Bare(R, u) => R[u].free \/ Has(gs, Ends, u) \/ (task[u].done /\ Bare(task, u))
               /\ Has(stack, Ends, u) => Has(r, Ends, u) \/ Has(gs, Ends, u) \/ R[u].free \/ ~Bare(R, u)
    BY <1>1, <1>2, <1>3
  <1> QED
    BY <1>2, <1>3, <1>4 DEF Follows

LEMMA CalmStep ==
  ASSUME IInv, stack # <<>>, Calm(task, task'), NEW gs \in Seq(Frames(BornIn(task))),
         stack' = gs \o Rest, Top.f \in Ends => Has(gs, Ends, Top.t),
         TreeNow => Told(task') /\ AllTree(gs, task')
  PROVE  TreeStays
  <1>1. Same(task, task')
    BY DEF Calm, Still
  <1>2. TreeNow => Follows(task, task', gs, stack, Rest)
    <2> DEFINE R == task'
               r == Rest
    <2> SUFFICES ASSUME TreeNow PROVE Follows(task, R, gs, stack, r)
      OBVIOUS
    <2>1. Calm(task, R) /\ Told(R) /\ AllTree(gs, R)
      OBVIOUS
    <2>2. \A u \in BornIn(task) : Has(stack, Ends, u) => Has(r, Ends, u) \/ Has(gs, Ends, u)
      BY RestIs
    <2>3. \A u \in Tasks : Has(r, Acts, u) => Has(stack, Acts, u)
      BY RestIs
    <2> HIDE DEF R, r
    <2> QED
      BY <2>1, <2>2, <2>3, CalmFollows
  <1> QED
    BY <1>1, <1>2, RestIs, FollowStep

LEMMA CalmBegin ==
  ASSUME IInv, Quiet, Calm(task, task'), NEW gs \in Seq(Frames(BornIn(task))), stack' = gs,
         TreeNow => Told(task') /\ AllTree(gs, task')
  PROVE  TreeStays
  <1>1. Same(task, task') /\ stack = <<>> /\ \A F, t : ~Has(stack, F, t)
    BY QuietIs DEF Calm, Still
  <1>2. TreeNow => Follows(task, task', gs, stack, <<>>)
    <2> DEFINE R == task'
               r == <<>>
    <2> SUFFICES ASSUME TreeNow PROVE Follows(task, R, gs, stack, r)
      OBVIOUS
    <2>1. Calm(task, R) /\ Told(R) /\ AllTree(gs, R)
      OBVIOUS
    <2>2. \A F, u : ~Has(r, F, u)
      BY HasNone
    <2> HIDE DEF R, r
    <2> QED
      BY <1>1, <2>1, <2>2, CalmFollows
  <1>3. stack' = gs \o <<>> /\ <<>> \in Seq(Frames(BornIn(task))) /\ DOMAIN <<>> = {}
    OBVIOUS
  <1> QED
    BY <1>1, <1>2, <1>3, FollowStep

-----------------------------------------------------------------------------
\* The steps of the machine.

\* A frame of which the invariant says nothing.
Mild(f) == f.f \notin Acts \cup Ends \cup {"continue", "return"}

LEMMA MildTree ==
  ASSUME NEW f, Mild(f), NEW T
  PROVE  FrameTree(f, T)
  BY DEF Mild, FrameTree, Acts

LEMMA NoTree ==
  ASSUME NEW T
  PROVE  AllTree(<<>>, T)
  BY DEF AllTree

LEMMA OneTree ==
  ASSUME NEW h, NEW T, FrameTree(h, T)
  PROVE  AllTree(<<h>>, T)
  BY DEF AllTree

LEMMA MoreTree ==
  ASSUME NEW S, NEW a \in Seq(S), NEW b \in Seq(S), NEW T, AllTree(a, T), AllTree(b, T)
  PROVE  AllTree(a \o b, T)
  <1> DEFINE q == a \o b
  <1>1. /\ DOMAIN q = 1 .. Len(a) + Len(b)
        /\ \A j \in 1 .. Len(a) : q[j] = a[j]
        /\ \A j \in DOMAIN q : j \notin 1 .. Len(a) => q[j] = b[j - Len(a)]
        /\ Len(a) \in Nat /\ Len(b) \in Nat /\ DOMAIN a = 1 .. Len(a) /\ DOMAIN b = 1 .. Len(b)
    BY ConcatParts
  <1> HIDE DEF q
  <1>2. ASSUME NEW i \in DOMAIN q PROVE FrameTree(q[i], T)
    <2>1. CASE i \in 1 .. Len(a)
      <3>1. q[i] = a[i] /\ i \in DOMAIN a
        BY <1>1, <2>1
      <3> QED
        BY <3>1 DEF AllTree
    <2>2. CASE i \notin 1 .. Len(a)
      <3>1. q[i] = b[i - Len(a)] /\ i - Len(a) \in DOMAIN b
        BY <1>1, <2>2
      <3> QED
        BY <3>1 DEF AllTree
    <2> QED
      BY <2>1, <2>2
  <1> QED
    BY <1>2 DEF AllTree, q

LEMMA ForTree ==
  ASSUME NEW c, NEW f \in {"cancel", "end"}, NEW T
  PROVE  AllTree([i \in DOMAIN c |-> Frame(f, c[i], Ok)], T)
  <1> DEFINE gs == [i \in DOMAIN c |-> Frame(f, c[i], Ok)]
  <1> SUFFICES ASSUME NEW i \in DOMAIN gs PROVE FrameTree(gs[i], T)
    BY DEF AllTree
  <1>1. gs[i].f = f
    BY DEF Frame
  <1> QED
    BY <1>1, MildTree DEF Mild, Acts, Ends

LEMMA GotForTree ==
  ASSUME NEW c, NEW T
  PROVE  AllTree([i \in DOMAIN c |-> GotFrame(c[i], Ok)], T)
  <1> DEFINE gs == [i \in DOMAIN c |-> GotFrame(c[i], Ok)]
  <1> SUFFICES ASSUME NEW i \in DOMAIN gs PROVE FrameTree(gs[i], T)
    BY DEF AllTree
  <1>1. gs[i].f = "got"
    BY DEF GotFrame
  <1> QED
    BY <1>1, MildTree DEF Mild, Acts, Ends

LEMMA TopTree ==
  ASSUME IInv, stack # <<>>, TreeNow
  PROVE  FrameTree(Top, task) /\ Told(task)
  BY RestIs DEF TreeNow, TreeInv, AllTree

LEMMA DepthTree ==
  ASSUME IInv, Depth
  PROVE  TreeStays
  <1>1. stack # <<>> /\ Top.f = "depth" /\ task' = task /\ stack' = <<>> \o Rest
    BY DEF Depth, On, Step
  <1>2. Calm(task, task')
    BY <1>1, CalmSelf
  <1>3. TreeNow => Told(task') /\ AllTree(<<>>, task')
    BY <1>1, TopTree, NoTree
  <1>4. Top.f \notin Ends /\ <<>> \in Seq(Frames(BornIn(task)))
    BY <1>1 DEF Ends
  <1> QED
    BY <1>1, <1>2, <1>3, <1>4, CalmStep

LEMMA CompleteTree ==
  ASSUME IInv, Complete
  PROVE  TreeStays
  <1> DEFINE t == Top.t
             B == BornIn(task)
             c == task[t].fin
             gs == [i \in DOMAIN c |-> GotFrame(c[i], Ok)]
             h == Frame("child", t, Ok)
             hs == <<h>>
             q == gs \o hs
  <1>1. stack # <<>> /\ Top.f = "complete" /\ task' = task /\ stack' = q \o Rest
    BY DEF Complete, On, Step
  <1>2. t \in B /\ c \in Seq({w \in Tokens(B) : w.n # 0})
    BY <1>1, OnTop, Here DEF Types, DataOK
  <1>3. gs \in Seq(Frames(B)) /\ AllTree(gs, task)
    <2> HIDE DEF c
    <2> QED
      BY <1>2, GotFramesFor, GotForTree
  <1>4. h \in Frames(B) /\ h.f = "child" /\ h.t = t
    BY <1>2, FrameIn, ValueIn
  <1>5. hs \in Seq(Frames(B))
    <2> HIDE DEF h
    <2> QED
      BY <1>4
  <1>6. ASSUME TreeNow PROVE FrameTree(h, task)
    <2>1. task[t].done
      BY <1>1, <1>6, TopTree DEF FrameTree, Ends
    <2> QED
      BY <1>4, <2>1 DEF FrameTree, Acts
  <1> HIDE DEF gs, h
  <1>7. TreeNow => AllTree(q, task) /\ Told(task)
    BY <1>1, <1>3, <1>5, <1>6, OneTree, MoreTree, TopTree
  <1>8. Has(q, Ends, t) /\ q \in Seq(Frames(B))
    <2>1. Has(hs, Ends, t)
      BY <1>4, HasOne DEF Ends
    <2> HIDE DEF hs, B, t
    <2> QED
      BY <1>3, <1>5, <2>1, HasConcat
  <1> HIDE DEF q
  <1> QED
    BY <1>1, <1>7, <1>8, CalmSelf, CalmStep

LEMMA EmitChildTree ==
  ASSUME IInv, EmitChild
  PROVE  TreeStays
  <1> DEFINE B == BornIn(task)
             p == task[Top.t].parent
             g == GotFrame(Token(p, task[p].wait), Ok)
             gs == IF p # Nobody /\ Heard(task, p) THEN <<g>> ELSE <<>>
             t == Top.t
             h == Frame("leave", t, Ok)
             hs == <<h>>
             q == gs \o hs
  <1>1. stack # <<>> /\ Top.f = "child" /\ task' = task /\ stack' = q \o Rest
    BY DEF EmitChild, On, Step
  <1>2. t \in B /\ p \in Ref(B)
    BY <1>1, OnTop, Here DEF TreeTypes
  <1>3. gs \in Seq(Frames(B)) /\ AllTree(gs, task)
    <2>1. CASE p # Nobody /\ Heard(task, p)
      <3>1. p \in B /\ p \in Tasks
        BY <1>2, <2>1, Here DEF Ref
      <3>2. task[p].wait \in Nat \ {0}
        BY <2>1, <3>1, Here DEF Heard, WaitOf, Types, DataOK
      <3> HIDE DEF p
      <3>3. Token(p, task[p].wait).t = p /\ Token(p, task[p].wait).n = task[p].wait
        BY DEF Token
      <3>4. g \in Frames(B) /\ g.f = "got"
        BY <3>1, <3>2, <3>3, GotIn, ValueIn
      <3>5. gs = <<g>>
        BY <2>1 DEF p
      <3> HIDE DEF g, gs
      <3>6. FrameTree(g, task)
        BY <3>4, MildTree DEF Mild, Acts, Ends
      <3> QED
        BY <3>4, <3>5, <3>6, OneTree
    <2>2. CASE ~(p # Nobody /\ Heard(task, p))
      <3>1. gs = <<>>
        BY <2>2
      <3> HIDE DEF gs
      <3> QED
        BY <3>1, NoTree
    <2> QED
      BY <2>1, <2>2
  <1>4. h \in Frames(B) /\ h.f = "leave" /\ h.t = t
    BY <1>2, FrameIn, ValueIn
  <1>5. hs \in Seq(Frames(B))
    <2> HIDE DEF h
    <2> QED
      BY <1>4
  <1>6. ASSUME TreeNow PROVE FrameTree(h, task)
    <2>1. task[t].done
      BY <1>1, <1>6, TopTree DEF FrameTree, Ends
    <2> QED
      BY <1>4, <2>1 DEF FrameTree, Acts
  <1> HIDE DEF gs, h
  <1>7. TreeNow => AllTree(q, task) /\ Told(task)
    BY <1>1, <1>3, <1>5, <1>6, OneTree, MoreTree, TopTree
  <1>8. Has(q, Ends, t) /\ q \in Seq(Frames(B))
    <2>1. Has(hs, Ends, t)
      BY <1>4, HasOne DEF Ends
    <2> HIDE DEF hs, B, t
    <2> QED
      BY <1>3, <1>5, <2>1, HasConcat
  <1> HIDE DEF q
  <1> QED
    BY <1>1, <1>7, <1>8, CalmSelf, CalmStep

LEMMA StartedTree ==
  ASSUME IInv, Started
  PROVE  TreeStays
  <1> DEFINE B == BornIn(task)
             t == Top.t
             g == GotFrame(Token(t, Top.n), Ok)
             gs == IF task[t].run # "never" THEN <<>> ELSE <<g>>
  <1>1. stack # <<>> /\ Top.f = "start" /\ task' = task /\ stack' = gs \o Rest
    BY DEF Started, On, Step, Self
  <1>2. t \in B /\ Top.n \in Nat \ {0}
    BY <1>1, OnTop DEF Frames
  <1>3. Token(t, Top.n).t = t /\ Token(t, Top.n).n = Top.n
    BY DEF Token
  <1>4. g \in Frames(B) /\ g.f = "got"
    <2> HIDE DEF t
    <2> QED
      BY <1>2, <1>3, GotIn, ValueIn
  <1> HIDE DEF g
  <1>5. FrameTree(g, task)
    BY <1>4, MildTree DEF Mild, Acts, Ends
  <1>6. gs \in Seq(Frames(B)) /\ AllTree(gs, task)
    BY <1>4, <1>5, OneTree, NoTree
  <1> HIDE DEF gs
  <1>7. Top.f \notin Ends
    BY <1>1 DEF Ends
  <1> QED
    BY <1>1, <1>6, <1>7, CalmSelf, CalmStep, TopTree

LEMMA ContTree ==
  ASSUME NEW B, NEW t \in B, NEW v \in Values(B), v.k # "task", NEW S, S[t].down \in Ref(B),
         NEW f \in {"continue", "return"}, NEW T
  PROVE  ContinueFrames(S, t, v, f) \in Seq(Frames(B)) /\ AllTree(ContinueFrames(S, t, v, f), T)
  <1> DEFINE d == S[t].down
             g == Frame("cancel", d, Ok)
             h == Frame(f, t, v)
             a == IF d = Nobody THEN <<>> ELSE <<g>>
             b == <<h>>
  <1>1. ContinueFrames(S, t, v, f) = IF S[t].done THEN <<>> ELSE a \o b
    BY DEF ContinueFrames
  <1>2. h \in Frames(B) /\ h.f = f /\ h.v = v
    BY FrameIn
  <1>3. ASSUME d # Nobody PROVE g \in Frames(B) /\ g.f = "cancel"
    <2>1. d \in B /\ Ok \in Values(B)
      BY <1>3, ValueIn DEF Ref
    <2> HIDE DEF d
    <2> QED
      BY <2>1, FrameIn
  <1> HIDE DEF g, h, d
  <1>4. FrameTree(h, T)
    BY <1>2 DEF FrameTree, Ends, Acts
  <1>5. g.f = "cancel" => FrameTree(g, T)
    BY MildTree DEF Mild, Acts, Ends
  <1>6. a \in Seq(Frames(B)) /\ b \in Seq(Frames(B)) /\ AllTree(a, T) /\ AllTree(b, T)
    BY <1>2, <1>3, <1>4, <1>5, OneTree, NoTree
  <1> HIDE DEF a, b
  <1>7. a \o b \in Seq(Frames(B)) /\ AllTree(a \o b, T)
    BY <1>6, MoreTree
  <1> QED
    BY <1>1, <1>7, NoTree

\* Nothing but data has changed.
LEMMA ToldCalm ==
  ASSUME NEW T, NEW R, NEW F \in SUBSET (CalmFields \ {"atcont"}), FieldsKept(T, R, F)
  PROVE  Calm(T, R) /\ (Told(T) => Told(R))
  <1>1. F \in SUBSET CalmFields /\ "atcont" \notin F
    OBVIOUS
  <1>2. Calm(T, R) /\ \A u \in Tasks : R[u].atcont = T[u].atcont
    BY <1>1, CalmOf
  <1>3. \A u \in Tasks : R[u].kind = T[u].kind
    BY <1>2 DEF Calm, Still, Same
  <1> QED
    BY <1>2, <1>3, ToldSame

LEMMA OkIs == Ok.k = "ok" /\ Err.k = "err" /\ None.k = "none" /\ \A e : ErrOf(e).k # "task"
  <1>1. Ok.k = "ok" /\ Err.k = "err" /\ None.k = "none"
    BY RetIs DEF Ok, Err, None, Ret
  <1> QED
    BY <1>1 DEF ErrOf

LEMMA CancelTree ==
  ASSUME IInv, Cancel
  PROVE  TreeStays
  <1> DEFINE t == Top.t
             B == BornIn(task)
  <1>1. stack # <<>> /\ Top.f \in {"cancel", "end"} /\ Top.f \notin Ends
    BY DEF Cancel, On, Ends
  <1>3. CASE task[t].done \/ (Top.f = "cancel" /\ task[t].kind \notin Cancelable)
    <2>1. task' = task /\ stack' = <<>> \o Rest
      BY <1>3 DEF Cancel, Step
    <2>2. <<>> \in Seq(Frames(B))
      OBVIOUS
    <2> QED
      BY <1>1, <2>1, <2>2, CalmSelf, CalmStep, NoTree, TopTree
  <1>4. CASE ~(task[t].done \/ (Top.f = "cancel" /\ task[t].kind \notin Cancelable))
    <2> DEFINE R == ReturnTask(task, t, Ok)
               c == ContinueFrames(task, t, Ok, "return")
    <2>1. task' = R /\ stack' = c \o Rest
      BY <1>4 DEF Cancel, Step
    <2>2. t \in Tasks /\ t \in B /\ Types(task, B, WaitersIn(task))
      BY <1>1, OnTop, Here
    <2>3. FieldsKept(task, R, {"wait", "err", "atret", "next"})
      BY <2>2, SoftReturn
    <2> HIDE DEF R
    <2>4. Calm(task, R) /\ (Told(task) => Told(R))
      BY <2>3, ToldCalm DEF CalmFields
    <2>5. task[t].down \in Ref(B) /\ Ok \in Values(B) /\ Ok.k # "task"
      BY <2>2, ValueIn, OkIs DEF Types, TreeTypes
    <2>6. c \in Seq(Frames(B)) /\ AllTree(c, R)
      <3> HIDE DEF t
      <3> QED
        BY <2>2, <2>5, ContTree
    <2> HIDE DEF c
    <2> QED
      BY <1>1, <2>1, <2>4, <2>6, CalmStep, TopTree
  <1> QED
    BY <1>3, <1>4

LEMMA GotTree ==
  ASSUME IInv, Got_retval
  PROVE  TreeStays
  <1> DEFINE B == BornIn(task)
             t == Top.t
  <1>1. stack # <<>> /\ Top.f = "got" /\ Top.f \notin Ends
    BY DEF Got_retval, On, Ends
  <1>2. t \in B /\ t \in Tasks /\ Top.v \in Values(B)
    BY <1>1, OnTop
  <1>3. CASE task[t].wait # Top.n \/ task[t].wdone
    <2>1. task' = task /\ stack' = <<>> \o Rest
      BY <1>3 DEF Got_retval, Step
    <2>2. <<>> \in Seq(Frames(B))
      OBVIOUS
    <2> QED
      BY <1>1, <2>1, <2>2, CalmSelf, CalmStep, NoTree, TopTree
  <1>4. CASE ~(task[t].wait # Top.n \/ task[t].wdone)
    <2> DEFINE R == [task EXCEPT ![t].wdone = TRUE]
               h == Frame("next", t, Top.v)
               gs == <<h>>
    <2>1. task' = R /\ stack' = gs \o Rest
      BY <1>4 DEF Got_retval, Step
    <2>2. FieldsKept(task, R, {"wdone"})
      <3> DEFINE f == "wdone"
                 z == TRUE
      <3>1. R = SetOne(task, t, f, z) /\ f \in Fields /\ t \in Tasks /\ Shape(task) /\ IsTable(task)
        BY <1>2, Here DEF Fields, SetOne
      <3> HIDE DEF f, z, R
      <3>2. FieldsKept(task, R, {f})
        BY ONLY <3>1, OneField
      <3> QED
        BY <3>2 DEF f
    <2> HIDE DEF R
    <2>3. Calm(task, R) /\ (Told(task) => Told(R))
      BY <2>2, ToldCalm DEF CalmFields
    <2>4. h \in Frames(B) /\ h.f = "next"
      <3> HIDE DEF t
      <3> QED
        BY <1>2, FrameIn
    <2> HIDE DEF h
    <2>5. gs \in Seq(Frames(B)) /\ AllTree(gs, R)
      BY <2>4, MildTree, OneTree DEF Mild, Acts, Ends
    <2> HIDE DEF gs
    <2> QED
      BY <1>1, <2>1, <2>3, <2>5, CalmStep, TopTree
  <1> QED
    BY <1>3, <1>4

LEMMA ResumeTree ==
  ASSUME IInv, Resume
  PROVE  TreeStays
  <1> DEFINE B == BornIn(task)
             t == Top.t
             T == DelWaitTimer(task, t)
             h == Frame("next", t, Top.v)
  <1>1. stack # <<>> /\ Top.f \in {"continue", "return"} /\ Top.f \notin Ends
    BY DEF Resume, On, Ends
  <1>2. t \in B /\ t \in Tasks /\ Top.v \in Values(B) /\ Types(task, B, WaitersIn(task))
    BY <1>1, OnTop, Here
  <1>3. FieldsKept(task, T, {"wait", "timer"}) /\ Types(T, B, WaitersIn(task))
    BY <1>2, SoftDel DEF Soft
  <1>4. Calm(task, T) /\ (Told(task) => Told(T))
    <2> HIDE DEF T
    <2> QED
      BY <1>3, ToldCalm DEF CalmFields
  <1>5. h \in Frames(B) /\ h.f = "next"
    <2> HIDE DEF t
    <2> QED
      BY <1>2, FrameIn
  <1>6. TreeNow => Top.v.k # "task"
    BY <1>1, TopTree DEF FrameTree
  <1>7. CASE task[t].run = "yes"
    <2> DEFINE R == [T EXCEPT ![t].atcont = Top.v]
               a == "atcont"
               z == Top.v
    <2>1. task' = R /\ stack' = <<>> \o Rest
      BY <1>7 DEF Resume, Step
    <2>2. R = SetOne(T, t, a, z) /\ a \in Fields /\ IsTable(T) /\ Shape(T) /\ t \in Tasks
      BY <1>2, <1>3 DEF SetOne, Fields, Types, IsTable
    <2> HIDE DEF T, R, a
    <2>3. FieldsKept(T, R, {a}) /\ OthersKept(T, R, t) /\ R[t][a] = z
      <3> HIDE DEF t, z
      <3> QED
        BY ONLY <2>2, OneField
    <2>4. Calm(T, R)
      BY <2>3, CalmOf DEF a, CalmFields
    <2>5. Calm(task, R)
      BY <1>4, <2>4, CalmTrans
    <2>6. ASSUME TreeNow PROVE Told(R)
      <3>1. Told(T)
        BY <1>1, <1>4, <2>6, TopTree
      <3>2. \A u \in Tasks : R[u].kind = T[u].kind
        BY <2>4 DEF Calm, Still, Same
      <3>3. \A u \in Tasks : u # t => R[u].atcont = T[u].atcont
        BY <2>3 DEF OthersKept
      <3>4. R[t].atcont = Top.v
        BY <2>3 DEF a
      <3> QED
        BY <1>6, <2>6, <3>1, <3>2, <3>3, <3>4 DEF Told, BornIn
    <2>7. <<>> \in Seq(Frames(B))
      OBVIOUS
    <2> QED
      BY <1>1, <2>1, <2>5, <2>6, <2>7, CalmStep, NoTree
  <1>8. CASE task[t].run # "yes" /\ (Top.f = "return" \/ ~(InContinue \/ InRun))
    <2> DEFINE d == Frame("depth", t, Ok)
               gs == <<h, d>>
    <2>1. task' = T /\ stack' = gs \o Rest
      BY <1>8 DEF Resume, Step
    <2> HIDE DEF T, h
    <2>2. d \in Frames(B) /\ d.f = "depth"
      <3> HIDE DEF t
      <3> QED
        BY <1>2, FrameIn, ValueIn
    <2> HIDE DEF d
    <2>3. FrameTree(h, T) /\ FrameTree(d, T)
      BY <1>5, <2>2, MildTree DEF Mild, Acts, Ends
    <2>4. gs \in Seq(Frames(B)) /\ AllTree(gs, T)
      BY <1>5, <2>2, <2>3 DEF AllTree
    <2> HIDE DEF gs
    <2> QED
      BY <1>1, <1>4, <2>1, <2>4, CalmStep, TopTree
  <1>9. CASE task[t].run # "yes" /\ ~(Top.f = "return" \/ ~(InContinue \/ InRun))
    <2>1. task' = T /\ stack' = <<>> \o Rest
      BY <1>9 DEF Resume, Step
    <2>2. <<>> \in Seq(Frames(B))
      OBVIOUS
    <2> HIDE DEF T
    <2> QED
      BY <1>1, <1>4, <2>1, <2>2, CalmStep, NoTree, TopTree
  <1> QED
    BY <1>7, <1>8, <1>9

LEMMA ThenTree ==
  ASSUME IInv, Then
  PROVE  TreeStays
  <1> DEFINE B == BornIn(task)
             W == WaitersIn(task)
             t == Top.t
             w == task[t].then
             T == [task EXCEPT ![t].then = Tail(w)]
             u == Head(w).t
             v == ErrOf(task[t].err)
  <1>1. stack # <<>> /\ Top.f = "then" /\ Top.f \notin Ends
    BY DEF Then, On, Ends
  <1>2. /\ t \in B /\ t \in Tasks /\ Top \in Frames(B) /\ Rest \in Seq(Frames(B))
        /\ w \in Seq({x \in Tokens(B) : x.n = 0 => x.t \in W}) /\ Types(task, B, W)
    BY <1>1, OnTop, Here DEF Types, DataOK
  <1>3. CASE w = <<>>
    <2>1. task' = task /\ stack' = <<>> \o Rest
      BY <1>3 DEF Then, Step
    <2>2. <<>> \in Seq(Frames(B))
      OBVIOUS
    <2> QED
      BY <1>1, <2>1, <2>2, CalmSelf, CalmStep, NoTree, TopTree
  <1>4. CASE w # <<>>
    <2>1. Head(w) \in {x \in Tokens(B) : x.n = 0 => x.t \in W}
      <3> HIDE DEF w
      <3> QED
        BY <1>2, <1>4
    <2>2. u \in B /\ u \in Tasks /\ Head(w).n \in Nat
      BY <2>1 DEF Tokens, BornIn
    <2>3. v \in Values(B) /\ v.k # "task"
      BY ValueIn, OkIs
    <2>4. IsTable(T) /\ FieldsKept(task, T, {"then"}) /\ T[t].then = Tail(w) /\ OthersKept(task, T, t)
      <3> DEFINE f == "then"
                 z == Tail(w)
      <3>1. T = SetOne(task, t, f, z) /\ f \in Fields /\ t \in Tasks /\ Shape(task) /\ IsTable(task)
        BY <1>2, Here DEF Fields, SetOne
      <3> HIDE DEF f, z, T
      <3>2. IsTable(T) /\ FieldsKept(task, T, {f}) /\ T[t][f] = z /\ OthersKept(task, T, t)
        BY ONLY <3>1, OneField
      <3> QED
        BY <3>2 DEF f, z
    <2>5. Types(T, B, W)
      <3>1. Tail(w) \in Seq({x \in Tokens(B) : x.n = 0 => x.t \in W})
        <4> HIDE DEF w
        <4> QED
          BY <1>2, <1>4
      <3> HIDE DEF T, w
      <3>2. \A x \in Tasks : T[x].then \in Seq({z \in Tokens(B) : z.n = 0 => z.t \in W})
        BY <1>2, <2>4, <3>1, Here DEF Types, DataOK, OthersKept
      <3> QED
        BY <2>4, <3>2, Here, TypesKept DEF LooseFields
    <2>6. Calm(task, T) /\ (Told(task) => Told(T))
      <3> HIDE DEF T
      <3> QED
        BY <2>4, ToldCalm DEF CalmFields
    <2>7. \A R : FrameTree(Top, R)
      BY <1>1, MildTree DEF Mild, Acts, Ends
    <2>8. CASE Head(w).n # 0
      <3> DEFINE g == GotFrame(Head(w), v)
      <3>1. task' = T /\ stack' = <<g, Top>> \o Rest
        BY <1>4, <2>8 DEF Then, Step
      <3>2. g \in Frames(B) /\ g.f = "got"
        <4>1. Head(w).t \in B /\ Head(w).n \in Nat \ {0}
          BY <2>2, <2>8
        <4> HIDE DEF w, v
        <4> QED
          BY <2>3, <4>1, GotIn
      <3> HIDE DEF g, T
      <3> DEFINE gs == <<g, Top>>
      <3>3. FrameTree(g, T)
        BY <3>2, MildTree DEF Mild, Acts, Ends
      <3>4. gs \in Seq(Frames(B)) /\ AllTree(gs, T)
        BY <1>2, <2>7, <3>2, <3>3 DEF AllTree
      <3>5. stack' = gs \o Rest
        BY <3>1
      <3> HIDE DEF gs
      <3> QED
        BY <1>1, <2>6, <3>1, <3>4, <3>5, CalmStep, TopTree
    <2>9. CASE Head(w).n = 0
      <3> DEFINE R == ContinueTask(T, u, v)
                 c == ContinueFrames(T, u, v, "continue")
                 gs == Append(c, Top)
      <3>1. task' = R /\ stack' = gs \o Rest
        BY <1>4, <2>9 DEF Then, Step
      <3>2. FieldsKept(T, R, {"wait", "err"})
        <4> HIDE DEF T, u, v
        <4> QED
          BY <2>2, <2>5, SoftCont
      <3>3. T[u].down \in Ref(B)
        <4> HIDE DEF T
        <4> QED
          BY <2>2, <2>5 DEF Types, TreeTypes
      <3> HIDE DEF R
      <3>4. Calm(T, R) /\ (Told(T) => Told(R))
        <4> HIDE DEF T
        <4> QED
          BY <3>2, ToldCalm DEF CalmFields
      <3> HIDE DEF T, u, v
      <3>5. c \in Seq(Frames(B)) /\ AllTree(c, R)
        BY <2>2, <2>3, <3>3, ContTree
      <3> HIDE DEF c
      <3>6. gs \in Seq(Frames(B)) /\ AllTree(gs, R)
        <4>1. gs = c \o <<Top>> /\ <<Top>> \in Seq(Frames(B))
          BY <1>2, <3>5
        <4> HIDE DEF gs
        <4>2. AllTree(<<Top>>, R)
          BY <2>7, OneTree
        <4>3. c \o <<Top>> \in Seq(Frames(B))
          BY <3>5, <4>1
        <4> QED
          BY <3>5, <4>1, <4>2, <4>3, MoreTree
      <3> HIDE DEF gs
      <3>7. Calm(task, R)
        BY <2>6, <3>4, CalmTrans
      <3> QED
        BY <1>1, <2>6, <3>1, <3>4, <3>6, <3>7, CalmStep, TopTree
    <2> QED
      BY <2>2, <2>8, <2>9
  <1> QED
    BY <1>3, <1>4

LEMMA CalledTree ==
  ASSUME IInv, Called
  PROVE  TreeStays
  <1> DEFINE B == BornIn(task)
             h == Frame("after", Top.t, Top.v)
             gs == <<h>>
  <1>1. stack # <<>> /\ Top.f = "call" /\ Top.f \notin Ends /\ task' = task /\ stack' = gs \o Rest
    BY DEF Called, On, Ends, Returns, Step, Self
  <1>2. Top.t \in B /\ Top.v \in Values(B)
    BY <1>1, OnTop
  <1>3. h \in Frames(B) /\ h.f = "after" /\ h.t = Top.t /\ h.v = Top.v
    BY <1>2, FrameIn
  <1> HIDE DEF h
  <1>4. ASSUME TreeNow PROVE AllTree(gs, task) /\ Told(task)
    <2>1. FrameTree(Top, task)
      BY <1>1, <1>4, TopTree
    <2>2. FrameTree(h, task)
      BY <1>1, <1>3, <2>1 DEF FrameTree, Acts, Ends
    <2> QED
      BY <1>1, <1>4, <2>2, OneTree, TopTree
  <1>5. gs \in Seq(Frames(B))
    BY <1>3
  <1> HIDE DEF gs
  <1> QED
    BY <1>1, <1>4, <1>5, CalmSelf, CalmStep

LEMMA NextTree ==
  ASSUME IInv, Next_run
  PROVE  TreeStays
  <1> DEFINE B == BornIn(task)
             t == Top.t
             i == NextState(task, t, Top.v)
             n == Len(States[task[t].kind])
             e == (Top.v.k = "err")
             T == [task EXCEPT ![t].err = e, ![t].cur = i, ![t].next = 0]
             x == task[t]
  <1>1. stack # <<>> /\ Top.f = "next" /\ Top.f \notin Ends
    BY DEF Next_run, On, Ends
  <1>2. /\ t \in B /\ t \in Tasks /\ Top.v \in Values(B) /\ stack \in Seq(Frames(B))
        /\ Rest \in Seq(Frames(B)) /\ B \in SUBSET Tasks /\ TreeTypes(task, B)
    BY <1>1, OnTop, Here
  <1> HIDE DEF i, n, e
  <1>3. CASE x.done
    <2>1. task' = task /\ stack' = <<>> \o Rest
      BY <1>3 DEF Next_run, Step
    <2>2. <<>> \in Seq(Frames(B))
      OBVIOUS
    <2> QED
      BY <1>1, <2>1, <2>2, CalmSelf, CalmStep, NoTree, TopTree
  <1>4. IsTable(T) /\ FieldsKept(task, T, {"err", "cur", "next"}) /\ OthersKept(task, T, t)
    <2>1. IsTable(T)
      BY Here DEF IsTable, Shape
    <2>2. FieldsKept(task, T, {"err", "cur", "next"})
      BY <1>2, Here DEF FieldsKept, Shape, Fields
    <2>3. OthersKept(task, T, t)
      BY <1>2, Here DEF OthersKept, Shape
    <2> QED
      BY <2>1, <2>2, <2>3
  <1>5. Calm(task, T) /\ (Told(task) => Told(T))
    <2> HIDE DEF T
    <2> QED
      BY <1>4, ToldCalm DEF CalmFields
  <1>6. CASE ~x.done /\ i > n
    <2> DEFINE R == [T EXCEPT ![t].done = TRUE]
               h == Frame("complete", t, Ok)
               gs == <<h>>
    <2>1. task' = R /\ stack' = gs \o Rest
      BY <1>6 DEF Next_run, Step, i, n, e
    <2> HIDE DEF T
    <2>2. FieldsKept(T, R, {"done"}) /\ OthersKept(T, R, t) /\ R[t].done
      <3> DEFINE f == "done"
                 z == TRUE
      <3>1. R = SetOne(T, t, f, z) /\ f \in Fields /\ t \in Tasks /\ Shape(T) /\ IsTable(T)
        BY <1>2, <1>4 DEF Fields, SetOne, IsTable
      <3> HIDE DEF f, z, R
      <3>2. FieldsKept(T, R, {f}) /\ R[t][f] = z /\ OthersKept(T, R, t)
        BY ONLY <3>1, OneField
      <3> QED
        BY <3>2 DEF f, z
    <2> HIDE DEF R
    <2>3. \A u \in Tasks :
            /\ R[u].kind = task[u].kind /\ (task[u].late => R[u].late) /\ R[u].by = task[u].by
            /\ R[u].arr = task[u].arr /\ R[u].atcont = T[u].atcont
            /\ R[u].up = task[u].up /\ R[u].down = task[u].down /\ R[u].parent = task[u].parent
            /\ R[u].child = task[u].child /\ R[u].root = task[u].root /\ R[u].free = task[u].free
      BY <1>5, <2>2 DEF FieldsKept, Fields, Calm, Still, Same
    <2>4. \A u \in Tasks : u # t => R[u].done = task[u].done
      BY <1>5, <2>2 DEF OthersKept, Calm
    <2>5. Still(task, R)
      BY <1>6, <2>2, <2>3, <2>4 DEF Still, Same
    <2>6. h \in Frames(B) /\ h.f = "complete" /\ h.t = t
      <3> HIDE DEF t
      <3> QED
        BY <1>2, FrameIn, ValueIn
    <2> HIDE DEF h
    <2>7. gs \in Seq(Frames(B)) /\ Has(gs, Ends, t)
      BY <2>6, HasOne DEF Ends
    <2>8. AllTree(gs, R)
      <3>1. FrameTree(h, R)
        BY <2>2, <2>6 DEF FrameTree, Acts
      <3> QED
        BY <3>1, OneTree
    <2> HIDE DEF gs
    <2>9. ASSUME TreeNow PROVE Follows(task, R, gs, stack, Rest)
      <3>1. Tree(R, B, {}) /\ \A u \in Tasks : Bare(R, u) = Bare(task, u)
        BY <1>2, <2>5, <2>9, StillTree DEF TreeNow, TreeInv
      <3>2. Told(R)
        <4>1. Told(T)
          BY <1>1, <1>5, <2>9, TopTree
        <4>2. \A u \in Tasks : R[u].kind = T[u].kind /\ R[u].atcont = T[u].atcont
          BY <1>5, <2>3 DEF Calm, Still, Same
        <4> QED
          BY <4>1, <4>2, ToldSame
      <3>3. ASSUME NEW u \in B
            PROVE  /\ task[u].free => R[u].free
                   /\ R[u].done /\ Bare(R, u) => R[u].free \/ Has(gs, Ends, u) \/ (task[u].done /\ Bare(task, u))
                   /\ Has(stack, Ends, u) => Has(Rest, Ends, u)
        <4>1. Has(stack, Ends, u) => Has(Rest, Ends, u)
          BY <1>1, RestIs
        <4> QED
          BY <1>2, <2>3, <2>4, <2>7, <3>1, <4>1
      <3>4. task[t].kind \in One \/ ~Has(Rest, Acts, t)
        <4>1. Firm(task[t]) => ~Has(stack, Acts, t)
          <5>1. Lives(task[t], stack, tick, t)
            BY <1>2 DEF IInv, Core
          <5>2. IsTop(stack, "next", t)
            BY <1>1 DEF IsTop, Top
          <5> QED
            BY <5>1, <5>2 DEF Lives
        <4>2. Firm(task[t]) <=> task[t].kind \notin One
          BY <1>2, <2>9 DEF TreeNow, NoLate, Firm
        <4>3. Has(Rest, Acts, t) => Has(stack, Acts, t)
          BY <1>1, RestIs
        <4> QED
          BY <4>1, <4>2, <4>3
      <3> HIDE DEF t
      <3> QED
        BY <2>4, <2>8, <3>1, <3>2, <3>3, <3>4 DEF Follows
    <2>10. Same(task, task') /\ (TreeNow => Follows(task, task', gs, stack, Rest))
      BY <2>1, <2>5, <2>9 DEF Still
    <2> QED
      BY <1>1, <2>1, <2>7, <2>10, RestIs, FollowStep
  <1>7. CASE ~x.done /\ ~(i > n)
    <2> DEFINE R == [T EXCEPT ![t].run = "yes"]
               h == Frame("body", t, Top.v)
               gs == <<h>>
    <2>1. task' = R /\ stack' = gs \o Rest
      BY <1>7 DEF Next_run, Step, i, n, e
    <2> HIDE DEF T
    <2>2. FieldsKept(T, R, {"run"})
      <3> DEFINE f == "run"
                 z == "yes"
      <3>1. R = SetOne(T, t, f, z) /\ f \in Fields /\ t \in Tasks /\ Shape(T) /\ IsTable(T)
        BY <1>2, <1>4 DEF Fields, SetOne, IsTable
      <3> HIDE DEF f, z, R
      <3>2. FieldsKept(T, R, {f})
        BY ONLY <3>1, OneField
      <3> QED
        BY <3>2 DEF f
    <2> HIDE DEF R
    <2>3. Calm(T, R) /\ (Told(T) => Told(R))
      BY <2>2, ToldCalm DEF CalmFields
    <2>4. Calm(task, R)
      BY <1>5, <2>3, CalmTrans
    <2>5. h \in Frames(B) /\ h.f = "body" /\ h.t = t
      <3> HIDE DEF t
      <3> QED
        BY <1>2, FrameIn
    <2> HIDE DEF h
    <2>6. ~R[t].done
      BY <1>2, <1>7, <2>4 DEF Calm
    <2>7. gs \in Seq(Frames(B)) /\ AllTree(gs, R)
      <3>1. FrameTree(h, R)
        BY <2>5, <2>6 DEF FrameTree, Ends
      <3> QED
        BY <2>5, <3>1, OneTree
    <2> HIDE DEF gs
    <2> QED
      BY <1>1, <1>5, <2>1, <2>3, <2>4, <2>7, CalmStep, TopTree
  <1> QED
    BY <1>3, <1>6, <1>7

LEMMA KeptSame ==
  ASSUME NEW B, NEW T, NEW R, TreeKept(T, R, B)
  PROVE  /\ Same(T, R) /\ (Told(T) => Told(R))
         /\ \A u \in Tasks : R[u].done = T[u].done
  <1>1. \A u \in Tasks :
          /\ R[u].kind = T[u].kind /\ R[u].late = T[u].late /\ R[u].by = T[u].by /\ R[u].arr = T[u].arr
          /\ R[u].done = T[u].done /\ R[u].atcont = T[u].atcont
    BY DEF TreeKept, Fields, TreeFields
  <1> QED
    BY <1>1, ToldSame DEF Same

LEMMA SameTrans ==
  ASSUME NEW T, NEW R, NEW Q, Same(T, R), Same(R, Q)
  PROVE  Same(T, Q)
  BY DEF Same

LEMMA NumbersNow ==
  ASSUME IInv, NEW R, Same(task, R)
  PROVE  Numbered(R) /\ BornIn(R) = BornIn(task)
  <1>1. Numbered(task)
    <2> SUFFICES ASSUME NEW u \in Tasks PROVE task[u].by \in Nat
      BY DEF Numbered
    <2>1. task[u].by \in Ref(BornIn(task)) /\ BornIn(task) \in SUBSET Tasks
      BY Here DEF Types, DataOK
    <2> QED
      BY <2>1 DEF Ref, Tasks, Nobody
  <1>2. BornIn(R) = BornIn(task)
    BY BornSame DEF Same
  <1> QED
    BY <1>1, <1>2 DEF Numbered, Same

\* The tree has changed from T, in which nothing has, and then nothing else.
LEMMA MovedFollows ==
  ASSUME IInv, TreeNow, NEW T, Calm(task, T), NEW D, Moved(T, D, BornIn(task)), NEW R, Calm(D, R),
         NEW gs, NEW r, Told(R), AllTree(gs, R),
         \A u \in BornIn(task) :
            Has(stack, Ends, u) => Has(r, Ends, u) \/ Has(gs, Ends, u) \/ R[u].free \/ ~Bare(R, u)
  PROVE  Follows(task, R, gs, stack, r)
  <1> DEFINE B == BornIn(task)
  <1>1. B \in SUBSET Tasks /\ TreeTypes(task, B) /\ Tree(task, B, {})
    BY Here DEF TreeNow, TreeInv
  <1>2. \A u \in Tasks : Bare(T, u) = Bare(task, u) /\ T[u].done = task[u].done /\ T[u].free = task[u].free
    <2>1. \A u \in Tasks : Bare(T, u) = Bare(task, u)
      BY <1>1, StillTree DEF Calm
    <2> QED
      BY <2>1 DEF Calm, Still
  <1>3. TreeTypes(D, B) /\ Tree(D, B, {}) /\ \A u \in Tasks : D[u].done = T[u].done
    <2>1. TreeKept(T, D, B) /\ Tree(D, B, {})
      BY DEF Moved
    <2>2. \A u \in Tasks : D[u].done = T[u].done
      BY <2>1, KeptSame
    <2> QED
      BY <2>1, <2>2 DEF TreeKept
  <1>4. Tree(R, B, {}) /\ \A u \in Tasks : Bare(R, u) = Bare(D, u)
    BY <1>1, <1>3, StillTree DEF Calm
  <1>5. \A u \in Tasks : R[u].done = D[u].done /\ R[u].free = D[u].free
    BY DEF Calm, Still
  <1>6. ASSUME NEW u \in B
        PROVE  /\ task[u].free => R[u].free
               /\ R[u].done /\ Bare(R, u) => R[u].free \/ Has(gs, Ends, u) \/ (task[u].done /\ Bare(task, u))
    <2>1. /\ T[u].free => D[u].free
          /\ D[u].done /\ Bare(D, u) => D[u].free \/ (T[u].done /\ Bare(T, u))
      BY DEF Moved, Swept
    <2> QED
      BY <1>1, <1>2, <1>4, <1>5, <2>1
  <1> QED
    BY <1>2, <1>3, <1>4, <1>5, <1>6 DEF Follows


LEMMA WaitKept ==
  ASSUME NEW T, IsTable(T), NEW t \in Tasks, NEW op, NEW on, NEW R, R = SetWait(T, t, op, on)
  PROVE  IsTable(R) /\ FieldsKept(T, R, {"wait", "seq", "wop", "won", "wdone"})
  <1>1. Shape(T)
    BY DEF IsTable
  <1>2. IsTable(R)
    BY <1>1 DEF IsTable, Shape, SetWait
  <1>3. FieldsKept(T, R, {"wait", "seq", "wop", "won", "wdone"})
    BY <1>1, ZenonT(40) DEF FieldsKept, Shape, Fields, SetWait
  <1> QED
    BY <1>2, <1>3

TellOne(T, u, f, w) == [T EXCEPT ![u][f] = Append(@, w)]

LEMMA TellKept ==
  ASSUME NEW T, IsTable(T), NEW u \in Tasks, NEW f \in {"fin", "then"}, NEW w,
         NEW R, R = TellOne(T, u, f, w)
  PROVE  IsTable(R) /\ FieldsKept(T, R, {f})
  <1> DEFINE z == Append(T[u][f], w)
  <1>1. Shape(T) /\ f \in Fields
    BY DEF IsTable, Fields
  <1>2. R = SetOne(T, u, f, z)
    BY <1>1 DEF SetOne, Shape, TellOne
  <1> HIDE DEF z
  <1> QED
    BY ONLY IsTable(T), u \in Tasks, <1>1, <1>2, OneField

LEMMA WaitCalm ==
  ASSUME NEW T, IsTable(T), NEW t \in Tasks, NEW op, NEW on
  PROVE  /\ IsTable(SetWait(T, t, op, on)) /\ Calm(T, SetWait(T, t, op, on))
         /\ Told(T) => Told(SetWait(T, t, op, on))
  <1> DEFINE R == SetWait(T, t, op, on)
  <1>1. IsTable(R) /\ FieldsKept(T, R, {"wait", "seq", "wop", "won", "wdone"})
    BY WaitKept
  <1> HIDE DEF R
  <1>2. Calm(T, R) /\ (Told(T) => Told(R))
    BY <1>1, ToldCalm DEF CalmFields
  <1> QED
    BY <1>1, <1>2 DEF R

LEMMA TellCalm ==
  ASSUME NEW T, IsTable(T), NEW u \in Tasks, NEW f \in {"fin", "then"}, NEW w,
         NEW R, R = TellOne(T, u, f, w)
  PROVE  IsTable(R) /\ Calm(T, R) /\ (Told(T) => Told(R))
  <1>1. IsTable(R) /\ FieldsKept(T, R, {f})
    BY TellKept
  <1>2. {f} \in SUBSET (CalmFields \ {"atcont"})
    BY DEF CalmFields
  <1> QED
    BY ONLY <1>1, <1>2, ToldCalm

\* An assertion that fails leaves everything as it is.
LEMMA NothingTree ==
  ASSUME task' = task, stack' = stack
  PROVE  TreeStays
  BY DEF TreeStays, LateOn, TreeNow

LEMMA CalmTypes ==
  ASSUME IInv, NEW T, Calm(task, T)
  PROVE  TreeTypes(T, BornIn(task))
  <1>1. TreeTypes(task, BornIn(task))
    BY Here
  <1> QED
    BY <1>1 DEF TreeTypes, Calm, Still

LEMMA SetCalm ==
  ASSUME NEW T, IsTable(T), NEW t \in Tasks, NEW f \in CalmFields, NEW z, NEW R, R = SetOne(T, t, f, z)
  PROVE  /\ IsTable(R) /\ Calm(T, R) /\ R[t][f] = z
         /\ Told(T) /\ (f = "atcont" => z.k # "task") => Told(R)
  <1>1. Shape(T) /\ f \in Fields
    BY DEF IsTable, CalmFields, Fields
  <1>2. IsTable(R) /\ FieldsKept(T, R, {f}) /\ OthersKept(T, R, t) /\ R[t][f] = z
    BY ONLY IsTable(T), t \in Tasks, R = SetOne(T, t, f, z), <1>1, OneField
  <1>3. {f} \in SUBSET CalmFields
    OBVIOUS
  <1>4. Calm(T, R) /\ ("atcont" \notin {f} => \A u \in Tasks : R[u].atcont = T[u].atcont)
    BY ONLY <1>2, <1>3, CalmOf
  <1>5. \A u \in Tasks : R[u].kind = T[u].kind
    BY <1>4 DEF Calm, Still, Same
  <1>6. ASSUME Told(T), f = "atcont" => z.k # "task" PROVE Told(R)
    <2>1. CASE f # "atcont"
      BY <1>4, <1>5, <1>6, <2>1, ToldSame
    <2>2. CASE f = "atcont"
      <3>1. R[t].atcont = z /\ \A u \in Tasks : u # t => R[u].atcont = T[u].atcont
        BY <1>2, <2>2 DEF OthersKept
      <3> QED
        BY <1>5, <1>6, <2>2, <3>1 DEF Told, BornIn
    <2> QED
      BY <2>1, <2>2
  <1> QED
    BY <1>2, <1>4, <1>6

LEMMA HandleTree ==
  ASSUME IInv, stack # <<>>, Top.f = "after", NEW T, IsTable(T),
         Calm(task, T), TreeNow => Told(T), NEW v \in Values(BornIn(task)),
         TreeNow /\ v.k = "task" => task[Top.t].kind \notin One /\ Lower(task, Top.t, v.t),
         HandleRv(T, Top.t, v)
  PROVE  TreeStays
  <1> DEFINE B == BornIn(task)
             t == Top.t
             d == v.t
  <1>1. /\ t \in B /\ t \in Tasks /\ B \in SUBSET Tasks /\ IsTable(T) /\ TreeTypes(T, B)
        /\ Rest \in Seq(Frames(B)) /\ TreeTypes(task, B) /\ Top.f \notin Ends
    BY OnTop, Here, CalmTypes DEF Ends
  <1>2. <<>> \in Seq(Frames(B)) /\ ErrOf(T[d].err).k # "task"
    BY OkIs
  <1>3. CASE v.k = "task" /\ ~T[d].done
    <2> DEFINE D == SetDown(T, t, d)
               R == SetWait(D, t, "int", d)
               w == Token(t, R[t].wait)
               z == Append(R[d].then, w)
               Q == [R EXCEPT ![d].then = Append(@, w)]
    <2>1. CASE ~DownAsserts(T, t, d)
      <3>1. task' = task /\ stack' = stack
        BY <1>3, <2>1 DEF HandleRv
      <3> QED
        BY <3>1, NothingTree
    <2>2. CASE DownAsserts(T, t, d)
      <3>1. task' = Q /\ stack' = <<>> \o Rest
        BY <1>3, <2>2 DEF HandleRv, Step
      <3>2. d \in B /\ d \in Tasks
        BY <1>1, <1>3 DEF Values
      <3>3. TreeKept(T, D, B)
        BY <1>1, <3>2, SetDownKept
      <3>4. IsTable(D)
        BY <3>3 DEF TreeKept
      <3>5. TreeNow => Moved(T, D, B)
        <4> SUFFICES ASSUME TreeNow PROVE Moved(T, D, B)
          OBVIOUS
        <4>1. Tree(task, B, {})
          BY DEF TreeNow, TreeInv
        <4>2. Tree(T, B, {})
          BY <1>1, <4>1, StillTree DEF Calm
        <4>3. Same(task, T) /\ task[t].done = T[t].done
          BY <1>1 DEF Calm, Still
        <4>4. Numbered(T)
          BY <4>3, NumbersNow
        <4>5. T[t].down = Nobody
          BY <2>2 DEF DownAsserts
        <4>6. ~T[t].done
          BY <1>3, <4>3, TopTree DEF FrameTree, Acts
        <4>7. Lower(T, t, d)
          BY <1>1, <1>3, <3>2, <4>3, LowerSame
        <4> HIDE DEF D, B, t, d
        <4> QED
          BY <1>1, <1>3, <3>2, <4>2, <4>4, <4>5, <4>6, <4>7, SetDownTree DEF D
      <3> HIDE DEF D
      <3>6. IsTable(R) /\ Calm(D, R) /\ (Told(D) => Told(R))
        BY <1>1, <3>4, WaitCalm
      <3> HIDE DEF R, w
      <3>7. Calm(R, Q) /\ (Told(R) => Told(Q))
        <4> DEFINE f == "then"
        <4>1. Q = TellOne(R, d, f, w) /\ f \in {"fin", "then"}
          BY DEF TellOne
        <4> HIDE DEF Q, f, d
        <4> QED
          BY <3>2, <3>6, <4>1, TellCalm
      <3> HIDE DEF Q
      <3>8. Calm(D, Q)
        BY <3>6, <3>7, CalmTrans
      <3>9. Same(T, D) /\ (Told(T) => Told(D))
        BY <3>3, KeptSame
      <3>10. Same(task, Q)
        BY <3>8, <3>9, SameTrans DEF Calm, Still
      <3>11. TreeNow => Follows(task, Q, <<>>, stack, Rest)
        <4> SUFFICES ASSUME TreeNow PROVE Follows(task, Q, <<>>, stack, Rest)
          OBVIOUS
        <4>1. Moved(T, D, B) /\ Told(Q)
          BY <3>5, <3>6, <3>7, <3>9
        <4>2. \A u \in B : Has(stack, Ends, u) => Has(Rest, Ends, u)
          BY <1>1, RestIs
        <4> HIDE DEF B
        <4> QED
          BY <3>8, <4>1, <4>2, NoTree, MovedFollows DEF B
      <3> QED
        BY <1>2, <3>1, <3>10, <3>11, RestIs, FollowStep
    <2> QED
      BY <2>1, <2>2
  <1>4. ASSUME NEW e \in Values(B), Step(T, <<Frame("next", t, e)>>)
        PROVE  TreeStays
    <2> DEFINE h == Frame("next", t, e)
               gs == <<h>>
    <2>1. task' = T /\ stack' = gs \o Rest
      BY <1>4 DEF Step
    <2>2. h \in Frames(B) /\ h.f = "next"
      <3> HIDE DEF t
      <3> QED
        BY <1>1, FrameIn
    <2> HIDE DEF h
    <2>3. gs \in Seq(Frames(B)) /\ AllTree(gs, T)
      BY <2>2, MildTree, OneTree DEF Mild, Acts, Ends
    <2> HIDE DEF gs
    <2> QED
      BY <1>1, <2>1, <2>3, CalmStep
  <1>5. CASE v.k = "task" /\ T[d].done
    <2>1. Step(T, <<Frame("next", t, ErrOf(T[d].err))>>)
      BY <1>5 DEF HandleRv
    <2>2. ErrOf(T[d].err) \in Values(B)
      BY ValueIn
    <2> QED
      BY <1>4, <2>1, <2>2
  <1>6. CASE v.k = "promise"
    <2> DEFINE R == SetWait(T, t, "promise", Nobody)
    <2>1. task' = R /\ stack' = <<>> \o Rest
      BY <1>6 DEF HandleRv, Step
    <2>2. Calm(T, R) /\ (Told(T) => Told(R))
      BY <1>1, WaitCalm
    <2> HIDE DEF R
    <2>3. Calm(task, R)
      BY <2>2, CalmTrans
    <2> QED
      BY <1>1, <1>2, <2>1, <2>2, <2>3, NoTree, CalmStep
  <1>7. CASE v.k \notin {"task", "promise"}
    <2>1. Step(T, <<Frame("next", t, v)>>)
      BY <1>7 DEF HandleRv
    <2> QED
      BY <1>4, <2>1
  <1> QED
    BY <1>3, <1>5, <1>6, <1>7

LEMMA TimerCalm ==
  ASSUME NEW T, IsTable(T), NEW t \in Tasks, NEW m, NEW R, R = SetWaitTimer(T, t, m)
  PROVE  IsTable(R) /\ Calm(T, R) /\ (Told(T) => Told(R))
  <1>1. CASE ~m
    BY <1>1, CalmSelf DEF SetWaitTimer
  <1>2. CASE m
    <2> DEFINE f == "stray"  g == "timer"  z == TRUE
               e == IF T[t].timer THEN T[t].stray + 1 ELSE T[t].stray
               C == SetOne(T, t, f, e)
    <2>1. R = SetOne(C, t, g, z)
      <3>1. DOMAIN T = Tasks /\ DOMAIN T[t] = Fields
        BY DEF IsTable, Shape
      <3>2. R = [T EXCEPT ![t].stray = e, ![t].timer = TRUE]
        BY <1>2, <3>1 DEF SetWaitTimer, Fields
      <3> HIDE DEF e
      <3> QED
        BY <3>1, <3>2 DEF SetOne
    <2>2. C = SetOne(T, t, f, e) /\ f \in CalmFields /\ f # "atcont" /\ g \in CalmFields /\ g # "atcont"
      BY DEF CalmFields
    <2> HIDE DEF C, e, f, g, z
    <2>3. IsTable(C) /\ Calm(T, C) /\ (Told(T) => Told(C))
      BY ONLY <2>2, IsTable(T), t \in Tasks, SetCalm
    <2>4. IsTable(R) /\ Calm(C, R) /\ (Told(C) => Told(R))
      BY ONLY <2>1, <2>2, <2>3, t \in Tasks, SetCalm
    <2> QED
      BY <2>3, <2>4, CalmTrans
  <1> QED
    BY <1>1, <1>2

LEMMA AfterTree ==
  ASSUME IInv, After
  PROVE  TreeStays
  <1> DEFINE B == BornIn(task)
             t == Top.t
             v == Top.v
             c == task[t].atcont
             m == v.tmo
             T == SetOne(task, t, "run", "no")
             R == SetOne(T, t, "atcont", None)
             S == SetWait(T, t, v.k, v.t)
             W == SetWaitTimer(S, t, m)
             Listen == IF v.k # "child" THEN W ELSE TellOne(W, v.t, "fin", Token(t, W[t].wait))
             n == W[t].seq
             P == SetOne(R, t, "seq", n)
             O == SetOne(P, t, "wait", 0)
             Q == SetWaitTimer(O, t, m)
             op == IF v.k = "wait" THEN v.k ELSE "deaf"
             Y == SetWait(T, t, op, v.t)
  <1>0. AfterCases(t, v, c, T, R, Listen, Q, Y)
    BY DEF After, AfterCases, SetOne, TellOne
  <1>1. stack # <<>> /\ Top.f = "after" /\ Top.f \notin Ends
    BY DEF After, On, Ends
  <1>2. /\ t \in B /\ t \in Tasks /\ v \in Values(B) /\ c \in Values(B) /\ IsTable(task)
        /\ <<>> \in Seq(Frames(B)) /\ (v.k = "child" => v.t \in Tasks)
    <2>1. t \in B /\ t \in Tasks /\ v \in Values(B) /\ c \in Values(B) /\ IsTable(task) /\ B \in SUBSET Tasks
      BY <1>1, OnTop, Here DEF Types, DataOK
    <2> QED
      BY <2>1 DEF Values
  <1>3. None.k # "task" /\ Ok.k # "task" /\ Ok \in Values(B)
    BY ValueIn, OkIs
  <1>4. {"run", "atcont", "seq", "wait"} \in SUBSET CalmFields
    BY DEF CalmFields
  <1> DEFINE z1 == "no"  f1 == "run"  f2 == "atcont"  f4 == "seq"  f5 == "wait"  z5 == 0
  <1>5. IsTable(T) /\ Calm(task, T) /\ (Told(task) => Told(T))
    <2>1. T = SetOne(task, t, f1, z1) /\ f1 \in CalmFields /\ f1 # "atcont"
      BY <1>4
    <2> HIDE DEF T, t, f1, z1
    <2> QED
      BY ONLY <1>2, <2>1, SetCalm
  <1>6. IsTable(R) /\ Calm(T, R) /\ (Told(T) => Told(R))
    <2>1. R = SetOne(T, t, f2, None) /\ f2 \in CalmFields
      BY <1>4
    <2> HIDE DEF T, R, t, f2
    <2> QED
      BY ONLY <1>2, <1>3, <1>5, <2>1, SetCalm
  <1>7. IsTable(S) /\ Calm(T, S) /\ (Told(T) => Told(S))
    <2> HIDE DEF T, t, v
    <2> QED
      BY <1>2, <1>5, WaitCalm
  <1>8. IsTable(W) /\ Calm(S, W) /\ (Told(S) => Told(W))
    <2>1. W = SetWaitTimer(S, t, m)
      OBVIOUS
    <2> HIDE DEF S, W, t, m
    <2> QED
      BY ONLY <1>2, <1>7, <2>1, TimerCalm
  <1>9. Calm(W, Listen) /\ (Told(W) => Told(Listen))
    <2>1. CASE v.k # "child"
      BY <2>1, CalmSelf
    <2>2. CASE v.k = "child"
      <3> DEFINE w == Token(t, W[t].wait)
                 d == v.t
                 f == "fin"
      <3>1. Listen = TellOne(W, d, f, w) /\ d \in Tasks /\ f \in {"fin", "then"}
        BY <1>2, <2>2
      <3> HIDE DEF Listen, W, w, d, f
      <3> QED
        BY ONLY <1>8, <3>1, TellCalm
    <2> QED
      BY <2>1, <2>2
  <1>10. IsTable(P) /\ Calm(R, P) /\ (Told(R) => Told(P))
    <2>1. P = SetOne(R, t, f4, n) /\ f4 \in CalmFields /\ f4 # "atcont"
      BY <1>4
    <2> HIDE DEF R, P, t, f4, n
    <2> QED
      BY ONLY <1>2, <1>6, <2>1, SetCalm
  <1>11. IsTable(O) /\ Calm(P, O) /\ (Told(P) => Told(O))
    <2>1. O = SetOne(P, t, f5, z5) /\ f5 \in CalmFields /\ f5 # "atcont"
      BY <1>4
    <2> HIDE DEF O, P, t, f5, z5
    <2> QED
      BY ONLY <1>2, <1>10, <2>1, SetCalm
  <1>12. IsTable(Q) /\ Calm(O, Q) /\ (Told(O) => Told(Q))
    <2>1. Q = SetWaitTimer(O, t, m)
      OBVIOUS
    <2> HIDE DEF O, Q, t, m
    <2> QED
      BY ONLY <1>2, <1>11, <2>1, TimerCalm
  <1>13. Calm(T, Y) /\ (Told(T) => Told(Y))
    <2> HIDE DEF T, t, v, op
    <2> QED
      BY <1>2, <1>5, WaitCalm
  <1>14. TreeNow => /\ Told(task) /\ c.k # "task"
                    /\ v.k = "task" => task[t].kind \notin One /\ Lower(task, t, v.t)
    <2> SUFFICES ASSUME TreeNow
                 PROVE  /\ Told(task) /\ c.k # "task"
                        /\ v.k = "task" => task[t].kind \notin One /\ Lower(task, t, v.t)
      OBVIOUS
    <2>1. Told(task) /\ FrameTree(Top, task)
      BY <1>1, TopTree
    <2> QED
      BY <1>1, <1>2, <2>1 DEF Told, FrameTree
  <1> HIDE DEF T, R, S, W, Listen, P, O, Q, op, Y, n, m
  <1>15. /\ Calm(task, R) /\ (Told(task) => Told(R)) /\ Calm(task, Q) /\ (Told(task) => Told(Q))
         /\ Calm(task, Listen) /\ (Told(task) => Told(Listen)) /\ Calm(task, Y) /\ (Told(task) => Told(Y))
    <2>1. Calm(task, R) /\ Calm(task, S) /\ Calm(task, Y)
      BY <1>5, <1>6, <1>7, <1>13, CalmTrans
    <2>2. Calm(task, P) /\ Calm(task, W)
      BY <2>1, <1>8, <1>10, CalmTrans
    <2>3. Calm(task, O) /\ Calm(task, Listen)
      BY <2>2, <1>9, <1>11, CalmTrans
    <2>4. Calm(task, Q)
      BY <2>3, <1>12, CalmTrans
    <2> QED
      BY <2>1, <2>3, <2>4, <1>5, <1>6, <1>7, <1>8, <1>9, <1>10, <1>11, <1>12, <1>13
  <1>16. ASSUME NEW X, X \in {Listen, Y}, Step(X, <<>>) PROVE TreeStays
    <2>1. task' = X /\ stack' = <<>> \o Rest
      BY <1>16 DEF Step
    <2> QED
      BY <1>1, <1>2, <1>14, <1>15, <1>16, <2>1, NoTree, CalmStep
  <1>17. CASE HandleRv(R, t, v)
    BY <1>1, <1>2, <1>6, <1>14, <1>15, <1>17, HandleTree
  <1>18. CASE HandleRv(R, t, c)
    <2> HIDE DEF c
    <2> QED
      BY <1>1, <1>2, <1>6, <1>14, <1>15, <1>18, HandleTree
  <1>19. CASE HandleRv(Q, t, Ok)
    BY <1>1, <1>3, <1>12, <1>14, <1>15, <1>19, HandleTree
  <1>20. \/ Step(Listen, <<>>) \/ Step(Y, <<>>)
         \/ HandleRv(R, t, v) \/ HandleRv(R, t, c) \/ HandleRv(Q, t, Ok)
    <2> HIDE DEF t, v, c
    <2> QED
      BY ONLY <1>0 DEF AfterCases
  <1> QED
    BY <1>16, <1>17, <1>18, <1>19, <1>20

LEMMA LeaveTree ==
  ASSUME IInv, Leave
  PROVE  TreeStays
  <1> DEFINE B == BornIn(task)
             W == WaitersIn(task)
             t == Top.t
             K == KeepUnderUp(task, t)
             C == CheckFree(K, t)
             R == DelWaitTimer(C, t)
             c == R[t].child
             gs == [i \in DOMAIN c |-> Frame("cancel", c[i], Ok)]
             h == Frame("then", t, Ok)
             hs == <<h>>
             q == gs \o hs
  <1>1. stack # <<>> /\ Top.f = "leave" /\ Top.f \in Ends
    BY DEF Leave, On, Ends
  <1>2. /\ t \in B /\ t \in Tasks /\ B \in SUBSET Tasks /\ Types(task, B, W) /\ IsTable(task)
        /\ TreeTypes(task, B)
    BY <1>1, OnTop, Here
  <1>3. CASE Bare(K, t) /\ ~RootAsserts(K, t)
    <2>1. task' = task /\ stack' = stack
      BY <1>3 DEF Leave
    <2> QED
      BY <2>1, NothingTree
  <1>4. CASE ~(Bare(K, t) /\ ~RootAsserts(K, t))
    <2>1. task' = R /\ stack' = q \o Rest
      BY <1>4 DEF Leave, Step
    <2>2. TreeKept(task, K, B)
      BY <1>2, KeepUnderUpKept
    <2>3. IsTable(K) /\ TreeTypes(K, B)
      BY <2>2 DEF TreeKept
    <2>4. TreeKept(K, C, B)
      <3> HIDE DEF K
      <3> QED
        BY <1>2, <2>3, CheckFreeKept
    <2>5. /\ TreeKept(task, C, B) /\ IsTable(C) /\ TreeTypes(C, B)
          /\ (Bare(K, t) => C = [ParentRemove(K, t) EXCEPT ![t].free = TRUE]) /\ (~Bare(K, t) => C = K)
      BY <2>2, <2>4, TreeKeptTrans, ZenonT(40) DEF TreeKept, CheckFree
    <2>6. Types(C, B, W)
      <3> HIDE DEF C
      <3> QED
        BY <1>2, <2>5, SoftTree DEF Soft
    <2>7. ASSUME TreeNow
          PROVE  Moved(task, C, B) /\ (Bare(C, t) => C[t].free)
      <3>1. Tree(task, B, {}) /\ task[t].done
        BY <1>1, <2>7, TopTree DEF TreeNow, TreeInv, FrameTree
      <3>2. Numbered(task)
        BY NumbersNow, CalmSelf DEF Calm, Still
      <3>3. Moved(task, K, B)
        BY <1>2, <3>1, <3>2, KeepUnderUpTree
      <3> HIDE DEF K
      <3>4. Tree(K, B, {}) /\ Numbered(K) /\ K[t].done
        BY <1>2, <2>2, <3>1, <3>2, <3>3, KeptSame, NumberedKept DEF Moved
      <3>5. Bare(K, t) => ~K[t].free
        BY <1>2, <1>4, <3>4 DEF RootAsserts, Tree, Hangs, OnePlace
      <3>6. Moved(K, C, B) /\ (Bare(K, t) => C[t].free)
        BY <1>2, <2>3, <3>4, <3>5, CheckFreeTree
      <3>7. Bare(C, t) => C[t].free
        BY <2>5, <3>6
      <3> QED
        BY <3>3, <3>6, <3>7, MovedTrans
    <2> HIDE DEF C, K
    <2>8. FieldsKept(C, R, {"wait", "timer"})
      BY <1>2, <2>6, SoftDel
    <2> HIDE DEF R
    <2>9. Calm(C, R) /\ (Told(C) => Told(R))
      BY <2>8, ToldCalm DEF CalmFields
    <2>10. c \in Seq(B) /\ Bare(R, t) = Bare(C, t) /\ R[t].free = C[t].free
      BY <1>2, <2>5, <2>9 DEF Calm, Still, TreeTypes, Bare
    <2>11. Same(task, C) /\ (Told(task) => Told(C))
      BY <2>5, KeptSame
    <2>12. Same(task, R)
      BY <2>9, <2>11, SameTrans DEF Calm, Still
    <2> HIDE DEF c
    <2>13. gs \in Seq(Frames(B)) /\ AllTree(gs, R)
      BY <2>10, FramesFor, ForTree
    <2>14. h \in Frames(B) /\ h.f = "then"
      <3>1. Ok \in Values(B)
        BY ValueIn
      <3> HIDE DEF t
      <3> QED
        BY <1>2, <3>1, FrameIn
    <2> HIDE DEF gs, h
    <2>15. hs \in Seq(Frames(B)) /\ AllTree(hs, R)
      BY <2>14, MildTree, OneTree DEF Mild, Acts, Ends
    <2> HIDE DEF hs
    <2>16. q \in Seq(Frames(B)) /\ AllTree(q, R)
      BY <2>13, <2>15, MoreTree
    <2> HIDE DEF q
    <2>17. TreeNow => Follows(task, R, q, stack, Rest)
      <3> SUFFICES ASSUME TreeNow PROVE Follows(task, R, q, stack, Rest)
        OBVIOUS
      <3>1. Moved(task, C, B) /\ (Bare(C, t) => C[t].free) /\ Told(R)
        BY <1>1, <2>7, <2>9, <2>11, TopTree
      <3>2. \A u \in B : Has(stack, Ends, u) => Has(Rest, Ends, u) \/ R[u].free \/ ~Bare(R, u)
        BY <1>1, <2>10, <3>1, RestIs
      <3> HIDE DEF B
      <3> QED
        BY <2>9, <2>16, <3>1, <3>2, CalmSelf, MovedFollows DEF B
    <2> QED
      BY <1>1, <2>1, <2>12, <2>16, <2>17, RestIs, FollowStep
  <1> QED
    BY <1>3, <1>4

LEMMA SpawnedTree ==
  ASSUME IInv, Spawned
  PROVE  TreeStays
  <1> DEFINE B == BornIn(task)
             t == Top.t
             p == task[t].by
             R == SpawnParent(task, t, p)
  <1>1. stack # <<>> /\ Top.f \notin Ends /\ task' = R /\ stack' = <<>> \o Rest
    BY DEF Spawned, On, Ends, Step, Self
  <1>2. /\ t \in B /\ t \in Tasks /\ B \in SUBSET Tasks /\ IsTable(task)
        /\ TreeTypes(task, B) /\ p \in Ref(B) /\ <<>> \in Seq(Frames(B))
    <2>1. t \in B /\ t \in Tasks /\ B \in SUBSET Tasks /\ IsTable(task) /\ TreeTypes(task, B)
      BY <1>1, OnTop, Here
    <2>2. p \in Ref(B)
      BY <2>1, Here DEF Types, DataOK
    <2> QED
      BY <2>1, <2>2
  <1>3. TreeKept(task, R, B)
    <2> HIDE DEF p, t
    <2> QED
      BY <1>2, SpawnParentKept
  <1>4. TreeNow => Moved(task, R, B)
    <2> SUFFICES ASSUME TreeNow PROVE Moved(task, R, B)
      OBVIOUS
    <2>1. Tree(task, B, {}) /\ Elders(task)
      BY DEF TreeNow, TreeInv
    <2>2. Numbered(task)
      BY NumbersNow, CalmSelf DEF Calm, Still
    <2>3. p # Nobody => Lower(task, p, t)
      <3> SUFFICES ASSUME p # Nobody PROVE Lower(task, p, t)
        OBVIOUS
      <3>1. p \in B
        BY <1>2 DEF Ref
      <3>2. task[p].by < p
        BY <2>1, <3>1 DEF Elders
      <3> QED
        BY <3>2 DEF Lower
    <2> HIDE DEF p, t, B
    <2> QED
      BY <1>2, <2>1, <2>2, <2>3, SpawnParentTree
  <1> HIDE DEF R
  <1>5. Same(task, R) /\ (Told(task) => Told(R))
    BY <1>3, KeptSame
  <1>6. TreeNow => Follows(task, R, <<>>, stack, Rest)
    <2> SUFFICES ASSUME TreeNow PROVE Follows(task, R, <<>>, stack, Rest)
      OBVIOUS
    <2>1. Moved(task, R, B) /\ Told(R)
      BY <1>1, <1>4, <1>5, TopTree
    <2>2. \A u \in B : Has(stack, Ends, u) => Has(Rest, Ends, u)
      BY <1>1, RestIs
    <2> HIDE DEF B
    <2> QED
      BY <2>1, <2>2, CalmSelf, NoTree, MovedFollows DEF B
  <1> QED
    BY <1>1, <1>2, <1>5, <1>6, RestIs, FollowStep

-----------------------------------------------------------------------------
\* The states.

\* What a state returns, when it may be a task to wait for.
Waitable(v) == v.k = "task" => task[Self].kind \notin One /\ Lower(task, Self, v.t)

LEMMA AfterFrame ==
  ASSUME IInv, stack # <<>>, Top.f \in Acts, NEW R, Same(task, R), \A u \in Tasks : R[u].done = task[u].done,
         NEW v \in Values(BornIn(task)), TreeNow => Waitable(v)
  PROVE  /\ <<Frame("after", Self, v)>> \in Seq(Frames(BornIn(task)))
         /\ TreeNow => AllTree(<<Frame("after", Self, v)>>, R)
  <1> DEFINE h == Frame("after", Self, v)
             B == BornIn(task)
  <1>1. Self \in B /\ Self \in Tasks /\ B \in SUBSET Tasks
    BY OnTop, Here DEF Self
  <1>2. h \in Frames(B) /\ h.f = "after" /\ h.t = Self /\ h.v = v
    BY <1>1, FrameIn
  <1> HIDE DEF h
  <1>3. ASSUME TreeNow PROVE FrameTree(h, R)
    <2>1. task[Self].kind \notin One => ~R[Self].done
      BY <1>1, <1>3, TopTree DEF FrameTree, Self
    <2>2. R[Self].kind = task[Self].kind
      BY <1>1 DEF Same
    <2>3. v.k = "task" => task[Self].kind \notin One /\ Lower(R, Self, v.t)
      <3> SUFFICES ASSUME v.k = "task" PROVE task[Self].kind \notin One /\ Lower(R, Self, v.t)
        OBVIOUS
      <3>1. v.t \in Tasks /\ task[Self].kind \notin One /\ Lower(task, Self, v.t)
        BY <1>1, <1>3 DEF Values, Waitable
      <3> QED
        BY <1>1, <3>1, LowerSame
    <2> QED
      BY <1>2, <2>1, <2>2, <2>3 DEF FrameTree, Ends
  <1>4. <<h>> \in Seq(Frames(B)) /\ (TreeNow => AllTree(<<h>>, R))
    BY <1>2, <1>3, OneTree
  <1> QED
    BY <1>4 DEF h

LEMMA ReturnsTree ==
  ASSUME IInv, stack # <<>>, Top.f \in Acts, NEW R, Calm(task, R), TreeNow => Told(R),
         NEW v \in Values(BornIn(task)), TreeNow => Waitable(v), Returns(R, v)
  PROVE  TreeStays
  <1> DEFINE gs == <<Frame("after", Self, v)>>
  <1>1. task' = R /\ stack' = gs \o Rest
    BY DEF Returns, Step
  <1>2. gs \in Seq(Frames(BornIn(task))) /\ (TreeNow => AllTree(gs, R))
    BY AfterFrame DEF Calm, Still
  <1>3. Top.f \notin Ends
    BY DEF Ends, Acts
  <1> HIDE DEF gs
  <1> QED
    BY <1>1, <1>2, <1>3, CalmStep

\* The state has also moved tasks in the tree.
LEMMA MovedReturns ==
  ASSUME IInv, stack # <<>>, Top.f \in Acts, NEW R, TreeKept(task, R, BornIn(task)),
         TreeNow => Moved(task, R, BornIn(task)),
         NEW v \in Values(BornIn(task)), TreeNow => Waitable(v), Returns(R, v)
  PROVE  TreeStays
  <1> DEFINE gs == <<Frame("after", Self, v)>>
             B == BornIn(task)
  <1>1. task' = R /\ stack' = gs \o Rest
    BY DEF Returns, Step
  <1>2. Same(task, R) /\ (Told(task) => Told(R)) /\ \A u \in Tasks : R[u].done = task[u].done
    BY KeptSame
  <1>3. gs \in Seq(Frames(B)) /\ (TreeNow => AllTree(gs, R))
    BY <1>2, AfterFrame
  <1>4. Top.f \notin Ends
    BY DEF Ends, Acts
  <1> HIDE DEF gs
  <1>5. TreeNow => Follows(task, R, gs, stack, Rest)
    <2> SUFFICES ASSUME TreeNow PROVE Follows(task, R, gs, stack, Rest)
      OBVIOUS
    <2>1. Moved(task, R, B) /\ Told(R) /\ AllTree(gs, R)
      BY <1>2, <1>3, TopTree
    <2>2. \A u \in B : Has(stack, Ends, u) => Has(Rest, Ends, u)
      BY <1>4, RestIs
    <2> HIDE DEF B
    <2> QED
      BY <2>1, <2>2, CalmSelf, MovedFollows DEF B
  <1> QED
    BY <1>1, <1>2, <1>3, <1>5, RestIs, FollowStep

LEMMA KeepsCalm ==
  ASSUME NEW T, IsTable(T), Self \in Tasks, NEW v, v.k # "task"
  PROVE  Calm(T, Keeps(T, v)) /\ (Told(T) => Told(Keeps(T, v)))
  <1> DEFINE t == Self
             no == FALSE  f0 == "timer"
             z == 0       f1 == "wait"
             C == SetOne(T, t, f0, no)
             D == SetOne(C, t, f1, z)
             R == Keeps(T, v)
             f == "atcont"
  <1>1. D = DelWaitTimer(T, t) /\ t \in Tasks /\ f0 \in CalmFields /\ f1 \in CalmFields /\ f \in CalmFields
    BY DEF SetOne, DelWaitTimer, CalmFields
  <1>2. R = SetOne(D, t, f, v) /\ f0 # "atcont" /\ f1 # "atcont"
    BY <1>1 DEF Keeps, SetOne
  <1>3. C = SetOne(T, t, f0, no) /\ D = SetOne(C, t, f1, z)
    OBVIOUS
  <1> HIDE DEF C, D, R, f, f0, f1, t, no, z
  <1>4. IsTable(C) /\ Calm(T, C) /\ (Told(T) => Told(C))
    BY ONLY IsTable(T), <1>1, <1>2, <1>3, SetCalm
  <1>5. IsTable(D) /\ Calm(C, D) /\ (Told(C) => Told(D))
    BY ONLY <1>1, <1>2, <1>3, <1>4, SetCalm
  <1>6. Calm(D, R) /\ (Told(D) => Told(R))
    BY ONLY <1>1, <1>2, <1>5, v.k # "task", SetCalm
  <1>7. Calm(T, R) /\ (Told(T) => Told(R))
    BY <1>4, <1>5, <1>6, CalmTrans
  <1> QED
    BY <1>7 DEF R

LEMMA LeavesTree ==
  ASSUME IInv, stack # <<>>, Top.f \in Acts, NEW v \in Values(BornIn(task)), v.k # "task", Leaves(task, v)
  PROVE  TreeStays
  <1> DEFINE B == BornIn(task)
             W == WaitersIn(task)
             T == ReturnTask(task, Self, v)
             R == Keeps(T, v)
  <1>1. Self \in Tasks /\ Types(task, B, W) /\ Returns(R, v)
    BY OnTop, Here DEF Self, Leaves
  <1>2. FieldsKept(task, T, {"wait", "err", "atret", "next"}) /\ IsTable(T)
    BY <1>1, SoftReturn DEF Soft, Types
  <1> HIDE DEF T
  <1>3. Calm(task, T) /\ (Told(task) => Told(T))
    BY <1>2, ToldCalm DEF CalmFields
  <1>4. Calm(T, R) /\ (Told(T) => Told(R))
    BY <1>1, <1>2, KeepsCalm
  <1> HIDE DEF R
  <1>5. Calm(task, R)
    BY <1>3, <1>4, CalmTrans
  <1> QED
    BY <1>1, <1>3, <1>4, <1>5, TopTree, ReturnsTree DEF Waitable

LEMMA ThrowsTree ==
  ASSUME IInv, stack # <<>>, Top.f \in Acts, NEW v, v.k # "task",
         NEW w \in Values(BornIn(task)), w.k # "task", Returns(Keeps(ContinueTask(task, Self, v), v), w)
  PROVE  TreeStays
  <1> DEFINE B == BornIn(task)
             W == WaitersIn(task)
             T == ContinueTask(task, Self, v)
             R == Keeps(T, v)
  <1>1. Self \in Tasks /\ Types(task, B, W) /\ Returns(R, w)
    BY OnTop, Here DEF Self
  <1>2. FieldsKept(task, T, {"wait", "err"}) /\ IsTable(T)
    BY <1>1, SoftCont DEF Soft, Types
  <1> HIDE DEF T
  <1>3. Calm(task, T) /\ (Told(task) => Told(T))
    BY <1>2, ToldCalm DEF CalmFields
  <1>4. Calm(T, R) /\ (Told(T) => Told(R))
    BY <1>1, <1>2, KeepsCalm
  <1> HIDE DEF R
  <1>5. Calm(task, R)
    BY <1>3, <1>4, CalmTrans
  <1> QED
    BY <1>1, <1>3, <1>4, <1>5, TopTree, ReturnsTree DEF Waitable

LEMMA GoesTree ==
  ASSUME IInv, stack # <<>>, Top.f \in Acts, NEW T, Types(T, BornIn(task), WaitersIn(task)),
         Calm(task, T), TreeNow => Told(T), NEW i, Goes(T, i)
  PROVE  TreeStays
  <1> DEFINE B == BornIn(task)
             W == WaitersIn(task)
             C == ContinueTask(T, Self, Ok)
             D == [C EXCEPT ![Self].next = i]
             R == Keeps(D, Ok)
             f == "next"
             t == Self
  <1>1. t \in Tasks /\ Returns(R, Ok) /\ Ok.k # "task" /\ Ok \in Values(B) /\ f \in CalmFields /\ f # "atcont"
    BY OnTop, Here, OkIs, ValueIn DEF Self, Goes, CalmFields
  <1>2. FieldsKept(T, C, {"wait", "err"}) /\ IsTable(C)
    BY <1>1, SoftCont DEF Soft, Types
  <1> HIDE DEF C
  <1>3. Calm(T, C) /\ (Told(T) => Told(C))
    BY <1>2, ToldCalm DEF CalmFields
  <1>4. D = SetOne(C, t, f, i)
    BY DEF SetOne
  <1> HIDE DEF D, f
  <1>5. IsTable(D) /\ Calm(C, D) /\ (Told(C) => Told(D))
    <2> HIDE DEF t
    <2> QED
      BY ONLY <1>1, <1>2, <1>4, SetCalm
  <1>6. Calm(D, R) /\ (Told(D) => Told(R))
    BY <1>1, <1>5, KeepsCalm
  <1> HIDE DEF R
  <1>7. Calm(task, R)
    BY <1>3, <1>5, <1>6, CalmTrans
  <1> QED
    BY <1>1, <1>3, <1>5, <1>6, <1>7, ReturnsTree DEF Waitable

\* A state runs and nothing has changed yet.
LEMMA StateHere ==
  ASSUME IInv, stack # <<>>
  PROVE  /\ Types(task, BornIn(task), WaitersIn(task)) /\ IsTable(task) /\ Calm(task, task)
         /\ Self \in Tasks /\ Self \in BornIn(task) /\ (TreeNow => Told(task))
         /\ Ok \in Values(BornIn(task)) /\ Err \in Values(BornIn(task)) /\ Ok.k # "task" /\ Err.k # "task"
  BY OnTop, Here, CalmSelf, TopTree, ValueIn, OkIs DEF Self

LEMMA GeneratorTree ==
  ASSUME IInv, Generator
  PROVE  TreeStays
  <1>1. stack # <<>> /\ Top.f \in Acts
    BY DEF Generator, At, On, Acts
  <1>2. CASE Returns(task, Ok)
    BY <1>1, <1>2, StateHere, ReturnsTree DEF Waitable
  <1>3. CASE Goes(task, 2)
    BY <1>1, <1>3, StateHere, GoesTree
  <1> QED
    BY <1>2, <1>3 DEF Generator

LEMMA LeafTree ==
  ASSUME IInv, Leaf
  PROVE  TreeStays
  <1> DEFINE B == BornIn(task)
             w == Ret("wait")
  <1>1. stack # <<>> /\ Top.f \in Acts
    BY DEF Leaf, At, On, Acts
  <1>2. w \in Values(B) /\ w.k # "task"
    <2>1. w.k = "wait"
      BY RetIs
    <2> QED
      BY <2>1, ValueIn
  <1>3. CASE Returns(task, w)
    <2> HIDE DEF w
    <2> QED
      BY <1>1, <1>2, <1>3, StateHere, ReturnsTree DEF Waitable
  <1>4. ASSUME NEW tmo \in BOOLEAN, Returns(task, [w EXCEPT !.tmo = tmo])
        PROVE  TreeStays
    <2> DEFINE v == [w EXCEPT !.tmo = tmo]
    <2>1. v = [k |-> "wait", t |-> Nobody, tmo |-> tmo]
      BY RetIs
    <2>2. v \in Values(B) /\ v.k # "task"
      BY <2>1, WaitIn
    <2> HIDE DEF v
    <2>3. Returns(task, v)
      BY <1>4 DEF v
    <2> QED
      BY <1>1, <2>2, <2>3, StateHere, ReturnsTree DEF Waitable
  <1>5. ASSUME NEW v \in {Ok, Err}, Returns(Keeps(ContinueTask(task, Self, v), v), w)
        PROVE  TreeStays
    <2>1. v.k # "task"
      BY OkIs
    <2> HIDE DEF w
    <2> QED
      BY <1>1, <1>2, <1>5, <2>1, ThrowsTree
  <1> QED
    BY <1>3, <1>4, <1>5 DEF Leaf

-----------------------------------------------------------------------------
\* New tasks.

LEMMA FreshLeast ==
  ASSUME Born # Tasks
  PROVE  Fresh \in Tasks \ Born /\ \A u \in Tasks : u < Fresh => u \in Born
  <1> DEFINE S == Tasks \ Born
  <1>1. S # {} /\ S \subseteq Nat
    BY DEF Born, Tasks
  <1>2. Fresh = CHOOSE t \in S : \A u \in S : t <= u
    BY DEF Fresh
  <1> HIDE DEF S
  <1>3. Fresh \in S /\ \A u \in S : Fresh <= u
    BY <1>1, <1>2, LeastNat
  <1> DEFINE F == Fresh
  <1>4. ASSUME NEW u \in Tasks, u < F PROVE u \notin S
    <2>1. F \in Nat /\ \A w \in S : w \in Nat /\ F <= w
      BY <1>1, <1>3
    <2> HIDE DEF F
    <2> QED
      BY <1>4, <2>1
  <1> QED
    BY <1>3, <1>4 DEF S

\* R is T with one more task, F, which t has created: a root, whose list is
\* of tasks that t created before.
NewTask(T, R, F, t) ==
    /\ OthersKept(T, R, F)
    /\ R[F].kind # "none" /\ R[F].by = t /\ R[F].root = TRUE /\ R[F].free = FALSE
    /\ R[F].done = FALSE /\ R[F].late = FALSE
    /\ R[F].up = Nobody /\ R[F].down = Nobody /\ R[F].parent = Nobody /\ R[F].child = <<>>
    /\ R[F].atcont = None /\ R[F].arr \in Seq(BornIn(T))
    /\ \A u \in ToSet(R[F].arr) : T[u].by = t

LEMMA NewBorn ==
  ASSUME NEW T, NEW R, NEW F \in Tasks \ BornIn(T), NEW t, NewTask(T, R, F, t)
  PROVE  BornIn(R) = BornIn(T) \cup {F}
  <1>1. \A u \in Tasks : u # F => R[u].kind = T[u].kind
    BY DEF NewTask, OthersKept
  <1> QED
    BY <1>1 DEF NewTask, BornIn

LEMMA NewTypesTree ==
  ASSUME NEW T, NEW B \in SUBSET Tasks, TreeTypes(T, B), NEW F \in Tasks \ B,
         NEW R, NEW t, NewTask(T, R, F, t)
  PROVE  TreeTypes(R, B \cup {F})
  <1> SUFFICES ASSUME NEW u \in Tasks
               PROVE  /\ R[u].up \in Ref(B \cup {F}) /\ R[u].down \in Ref(B \cup {F})
                      /\ R[u].parent \in Ref(B \cup {F}) /\ R[u].child \in Seq(B \cup {F})
                      /\ R[u].root \in BOOLEAN /\ R[u].free \in BOOLEAN
    BY DEF TreeTypes
  <1>1. CASE u = F
    <2>1. /\ R[u].up = Nobody /\ R[u].down = Nobody /\ R[u].parent = Nobody /\ R[u].child = <<>>
          /\ R[u].root = TRUE /\ R[u].free = FALSE
      BY <1>1 DEF NewTask
    <2>2. <<>> \in Seq(B \cup {F})
      OBVIOUS
    <2> QED
      BY <2>1, <2>2 DEF Ref
  <1>2. CASE u # F
    <2>1. R[u] = T[u] /\ T[u].child \in Seq(B)
      BY <1>2 DEF NewTask, OthersKept, TreeTypes
    <2>2. T[u].child \in Seq(B \cup {F})
      BY <2>1, SeqMore
    <2> QED
      BY <2>1, <2>2 DEF TreeTypes, Ref
  <1> QED
    BY <1>1, <1>2

LEMMA NewTree ==
  ASSUME NEW T, NEW B, B = BornIn(T), TreeTypes(T, B), Tree(T, B, {}),
         NEW F \in Tasks \ B, NEW R, NEW t \in B, NewTask(T, R, F, t)
  PROVE  Tree(R, B \cup {F}, {})
  <1> DEFINE C == B \cup {F}
  <1>1. B \in SUBSET Tasks /\ Nobody \notin Tasks
    BY DEF BornIn, Tasks, Nobody
  <1>2. /\ \A u \in B : R[u] = T[u]
        /\ R[F].up = Nobody /\ R[F].down = Nobody /\ R[F].parent = Nobody /\ R[F].child = <<>>
        /\ R[F].root /\ ~R[F].free
    BY <1>1 DEF NewTask, OthersKept
  <1>3. ToSet(R[F].child) = {} /\ IsInjective(R[F].child)
    BY <1>2 DEF ToSet, IsInjective
  <1>4. ASSUME NEW u \in B PROVE T[u].up \in Ref(B) /\ T[u].down \in Ref(B) /\ T[u].parent \in Ref(B) /\ ToSet(T[u].child) \subseteq B
    <2>1. T[u].child \in Seq(B)
      BY <1>1 DEF TreeTypes
    <2>2. ToSet(T[u].child) \subseteq B
      BY <2>1 DEF ToSet
    <2> QED
      BY <1>1, <2>2 DEF TreeTypes
  <1>5. Links(R, C)
    <2> SUFFICES ASSUME NEW u \in C
                 PROVE  /\ R[u].up # Nobody => R[R[u].up].down = u
                        /\ R[u].down # Nobody => R[R[u].down].up = u
                        /\ \A p \in C : u \in ToSet(R[p].child) <=> R[u].parent = p
                        /\ IsInjective(R[u].child)
      BY DEF Links
    <2>1. CASE u = F
      <3>1. ASSUME NEW p \in C PROVE u \in ToSet(R[p].child) <=> R[u].parent = p
        BY <1>1, <1>2, <1>3, <1>4, <2>1
      <3> QED
        BY <1>2, <1>3, <2>1, <3>1
    <2>2. CASE u \in B
      <3>1. /\ T[u].up # Nobody => T[T[u].up].down = u
            /\ T[u].down # Nobody => T[T[u].down].up = u
            /\ \A p \in B : u \in ToSet(T[p].child) <=> T[u].parent = p
            /\ IsInjective(T[u].child)
        BY <2>2 DEF Tree, Links
      <3>2. ASSUME NEW p \in C PROVE u \in ToSet(R[p].child) <=> R[u].parent = p
        <4>1. CASE p = F
          BY <1>1, <1>2, <1>3, <1>4, <2>2, <4>1 DEF Ref
        <4>2. CASE p \in B
          BY <1>2, <2>2, <3>1, <4>2
        <4> QED
          BY <4>1, <4>2
      <3>3. (T[u].up # Nobody => T[u].up \in B) /\ (T[u].down # Nobody => T[u].down \in B)
        BY <1>4, <2>2 DEF Ref
      <3> QED
        BY <1>2, <2>2, <3>1, <3>2, <3>3
    <2> QED
      BY <2>1, <2>2
  <1>6. Hangs(R, C, {})
    BY <1>1, <1>2 DEF Tree, Hangs, OnePlace
  <1>7. Ranked(R, C)
    <2> SUFFICES ASSUME NEW u \in C, Holder(R, u) # Nobody PROVE Lower(R, Holder(R, u), u)
      BY DEF Ranked
    <2>1. u \in B
      BY <1>2 DEF Holder
    <2>2. Holder(R, u) = Holder(T, u) /\ Holder(T, u) \in B
      BY <1>2, <1>4, <2>1 DEF Holder, Ref
    <2>3. Lower(T, Holder(T, u), u)
      BY <2>1, <2>2 DEF Tree, Ranked
    <2> QED
      BY <1>2, <2>1, <2>2, <2>3 DEF Lower
  <1>8. Spared(R, C)
    BY <1>2 DEF Tree, Spared, Bare
  <1> QED
    BY <1>5, <1>6, <1>7, <1>8 DEF Tree

LEMMA NewElders ==
  ASSUME NEW T, NEW B, B = BornIn(T), Elders(T), \A u \in B : T[u].arr \in Seq(B),
         NEW F \in Tasks \ B, \A u \in Tasks : u < F => u \in B,
         NEW R, NEW t \in B, NewTask(T, R, F, t)
  PROVE  Elders(R) /\ t < F
  <1>1. BornIn(R) = B \cup {F} /\ B \in SUBSET Tasks
    <2>1. B \in SUBSET Tasks
      BY DEF BornIn
    <2> QED
      BY <2>1, NewBorn
  <1>2. /\ \A u \in B : R[u] = T[u]
        /\ R[F].by = t /\ R[F].arr \in Seq(B) /\ \A u \in ToSet(R[F].arr) : T[u].by = t
    BY <1>1 DEF NewTask, OthersKept
  <1>3. \A u \in B : u < F
    <2> SUFFICES ASSUME NEW u \in B PROVE u < F
      OBVIOUS
    <2>1. u \in Nat /\ F \in Nat /\ u # F
      BY <1>1 DEF Tasks
    <2>2. F < u => F \in B
      BY DEF Elders
    <2> QED
      BY <2>1, <2>2
  <1> SUFFICES ASSUME NEW u \in B \cup {F}
               PROVE  /\ R[u].by < u /\ \A w \in Tasks : w < u => w \in B \cup {F}
                      /\ \A w \in ToSet(R[u].arr) : Lower(R, u, w)
    BY <1>1, <1>3 DEF Elders
  <1>4. CASE u = F
    <2>1. ASSUME NEW w \in ToSet(R[F].arr) PROVE Lower(R, F, w)
      <3>1. w \in B
        BY <1>2, <2>1 DEF ToSet
      <3>2. R[w].by = t /\ R[F].by = t /\ w < F /\ w \in Nat /\ F \in Nat
        BY <1>1, <1>2, <1>3, <2>1, <3>1 DEF Tasks
      <3> QED
        BY <3>2 DEF Lower
    <2> QED
      BY <1>2, <1>3, <1>4, <2>1
  <1>5. CASE u \in B
    <2>1. /\ T[u].by < u /\ \A w \in Tasks : w < u => w \in B
          /\ \A w \in ToSet(T[u].arr) : Lower(T, u, w)
      BY <1>5 DEF Elders
    <2>2. ToSet(T[u].arr) \subseteq B
      BY <1>5 DEF ToSet
    <2>3. \A w \in ToSet(T[u].arr) : Lower(R, u, w)
      BY <1>2, <1>5, <2>1, <2>2 DEF Lower
    <2> QED
      BY <1>2, <1>5, <2>1, <2>3
  <1> QED
    BY <1>4, <1>5

LEMMA NewInv ==
  ASSUME IInv, TreeNow, Born # Tasks, NEW t \in BornIn(task), NEW R, NewTask(task, R, Fresh, t)
  PROVE  /\ TreeInv(R, stack) /\ BornIn(R) = BornIn(task) \cup {Fresh} /\ t < Fresh
         /\ \A u \in BornIn(R) : R[u].arr \in Seq(Tasks)
         /\ TreeTypes(R, BornIn(R))
  <1> DEFINE B == BornIn(task)
             F == Fresh
  <1>1. /\ B \in SUBSET Tasks /\ Born = B /\ TreeTypes(task, B) /\ stack \in Seq(Frames(B))
        /\ \A u \in Tasks : task[u].arr \in Seq(B)
    BY Here DEF Types, DataOK
  <1>2. F \in Tasks \ B /\ \A u \in Tasks : u < F => u \in B
    BY <1>1, FreshLeast
  <1> HIDE DEF F
  <1>3. NewTask(task, R, F, t)
    BY DEF F
  <1>4. /\ Tree(task, B, {}) /\ Elders(task) /\ Told(task) /\ Ended(task, stack) /\ AllTree(stack, task)
    BY DEF TreeNow, TreeInv
  <1>5. BornIn(R) = B \cup {F}
    BY <1>2, <1>3, NewBorn
  <1>6. TreeTypes(R, B \cup {F}) /\ Tree(R, B \cup {F}, {}) /\ Elders(R) /\ t < F
    <2> HIDE DEF B
    <2>1. B = BornIn(task) /\ t \in B
      BY DEF B
    <2>2. TreeTypes(R, B \cup {F})
      BY <1>1, <1>2, <1>3, NewTypesTree
    <2>3. Tree(R, B \cup {F}, {})
      BY <1>1, <1>2, <1>3, <1>4, <2>1, NewTree
    <2>4. Elders(R) /\ t < F
      BY <1>1, <1>2, <1>3, <1>4, <2>1, NewElders
    <2> QED
      BY <2>2, <2>3, <2>4
  <1>7. /\ \A u \in B : R[u] = task[u]
        /\ R[F].done = FALSE /\ R[F].atcont = None /\ R[F].arr \in Seq(B)
    BY <1>1, <1>2, <1>3 DEF NewTask, OthersKept
  <1>8. Told(R)
    BY <1>4, <1>5, <1>7, OkIs DEF Told
  <1>9. Ended(R, stack)
    BY <1>4, <1>5, <1>7 DEF Ended, Bare
  <1>10. ASSUME NEW f \in Frames(B), FrameTree(f, task) PROVE FrameTree(f, R)
    <2>1. f.t \in B /\ (f.v.k = "task" => f.v.t \in B)
      BY DEF Frames, Values
    <2>2. R[f.t] = task[f.t] /\ (f.v.k = "task" => R[f.v.t] = task[f.v.t])
      BY <1>7, <2>1
    <2> QED
      BY <1>10, <2>2 DEF FrameTree, Lower
  <1>11. AllTree(stack, R)
    <2> SUFFICES ASSUME NEW i \in DOMAIN stack PROVE FrameTree(stack[i], R)
      BY DEF AllTree
    <2>1. stack[i] \in Frames(B) /\ FrameTree(stack[i], task)
      BY <1>1, <1>4 DEF AllTree
    <2> QED
      BY <1>10, <2>1
  <1>12. \A u \in BornIn(R) : R[u].arr \in Seq(Tasks)
    BY <1>1, <1>5, <1>7, SeqMore
  <1> QED
    BY <1>5, <1>6, <1>8, <1>9, <1>11, <1>12 DEF TreeInv, F

LEMMA CalmOnward ==
  ASSUME NEW T, NEW R, Calm(T, R), \A u \in BornIn(T) : T[u].arr \in Seq(Tasks), TreeTypes(T, BornIn(T)),
         NEW S, NEW gs \in Seq(S), NEW s \in Seq(S), NEW r \in Seq(S),
         \A f \in S : f.t \in Tasks /\ (f.v.k = "task" => f.v.t \in Tasks),
         \A i \in DOMAIN r : \E j \in DOMAIN s : r[i] = s[j],
         TreeInv(T, s), Told(R), AllTree(gs, R),
         \A u : Has(s, Ends, u) => Has(r, Ends, u)
  PROVE  TreeInv(R, gs \o r)
  <1> DEFINE B == BornIn(T)
  <1>1. Same(T, R) /\ Still(T, R) /\ \A u \in Tasks : R[u].done = T[u].done /\ R[u].free = T[u].free
    BY DEF Calm, Still
  <1>2. B \in SUBSET Tasks /\ Tree(T, B, {})
    BY DEF BornIn, TreeInv
  <1>3. Tree(R, B, {}) /\ \A u \in Tasks : Bare(R, u) = Bare(T, u)
    BY <1>1, <1>2, StillTree
  <1>4. Follows(T, R, gs, s, r)
    BY <1>1, <1>2, <1>3 DEF Follows
  <1> QED
    BY <1>1, <1>4, Onward

LEMMA FramesMore ==
  ASSUME NEW B, NEW C, B \subseteq C
  PROVE  Frames(B) \subseteq Frames(C)
  <1>1. Values(B) \subseteq Values(C)
    BY DEF Values
  <1> QED
    BY <1>1 DEF Frames

\* What a state that creates a task leaves on the stack.
NewFrame(f) ==
    \/ Mild(f) \/ f = Top \/ (f.f = "iter" /\ f.t = Self)
    \/ (f.f = "call" /\ f.t = Self /\ f.v.k = "task" /\ f.v.t = Fresh)

LEMMA NewStep ==
  ASSUME IInv, stack # <<>>, Top.f = "body", task[Self].kind \notin One, Born # Tasks,
         NEW R, NewTask(task, R, Fresh, Self), Calm(R, task'), Told(R) => Told(task'),
         NEW gs \in Seq(Frames(BornIn(task) \cup {Fresh})), stack' = gs \o Rest,
         \A i \in DOMAIN gs : NewFrame(gs[i])
  PROVE  TreeStays
  <1> DEFINE B == BornIn(task)
             C == B \cup {Fresh}
             Q == task'
             t == Self
  <1>1. /\ t \in B /\ t \in Tasks /\ B \in SUBSET Tasks /\ Born = B /\ stack \in Seq(Frames(B))
        /\ Rest \in Seq(Frames(B)) /\ Top.t = t /\ Top \in Frames(B)
    BY OnTop, Here DEF Self
  <1>2. Fresh \in Tasks \ B /\ Fresh # t
    BY <1>1, FreshIs
  <1>3. /\ \A u \in Tasks \ {Fresh} : /\ Q[u].kind = task[u].kind /\ (task[u].late => Q[u].late)
                                       /\ Q[u].done = task[u].done /\ Q[u].by = task[u].by
        /\ Q[Fresh].by = t
    <2>1. \A u \in Tasks : Q[u].kind = R[u].kind /\ (R[u].late => Q[u].late) /\ Q[u].done = R[u].done /\ Q[u].by = R[u].by
      BY DEF Calm, Still, Same
    <2> QED
      BY <1>2, <2>1 DEF NewTask, OthersKept
  <1>4. LateOn(task, Q)
    BY <1>2, <1>3 DEF LateOn, LateTask, BornIn
  <1>5. ASSUME TreeNow PROVE TreeInv(Q, stack')
    <2>1. /\ TreeInv(R, stack) /\ BornIn(R) = C /\ t < Fresh
          /\ \A u \in BornIn(R) : R[u].arr \in Seq(Tasks)
          /\ TreeTypes(R, BornIn(R))
      BY <1>1, <1>5, NewInv
    <2>2. ~task[t].done /\ Elders(task)
      BY <1>5, TopTree DEF FrameTree, Acts, Self, TreeNow, TreeInv
    <2>3. Q[t].kind \notin One /\ ~Q[t].done /\ Q[t].by < t
      BY <1>1, <1>2, <1>3, <2>2 DEF Elders
    <2>4. Lower(Q, t, Fresh)
      BY <1>3, <2>3 DEF Lower
    <2>5. ASSUME NEW f, NewFrame(f) PROVE FrameTree(f, Q)
      <3>1. CASE Mild(f)
        BY <3>1, MildTree
      <3>2. CASE f = Top
        BY <1>1, <2>3, <3>2 DEF FrameTree, Ends
      <3>3. CASE f.f = "call" /\ f.t = t /\ f.v.k = "task" /\ f.v.t = Fresh
        BY <2>3, <2>4, <3>3 DEF FrameTree, Ends
      <3>4. CASE f.f = "iter" /\ f.t = t
        BY <2>3, <3>4 DEF FrameTree, Ends
      <3> QED
        BY <2>5, <3>1, <3>2, <3>3, <3>4 DEF NewFrame
    <2>6. AllTree(gs, Q)
      BY <2>5 DEF AllTree
    <2>7. Told(Q)
      BY <2>1 DEF TreeInv
    <2> DEFINE S == Frames(C)
    <2>8. Frames(B) \subseteq S
      BY FramesMore
    <2>9. \A f \in S : f.t \in Tasks /\ (f.v.k = "task" => f.v.t \in Tasks)
      <3>1. C \in SUBSET Tasks
        BY <1>1, <1>2
      <3> HIDE DEF C
      <3> QED
        BY <3>1 DEF Frames, Values
    <2>10. gs \in Seq(S) /\ stack \in Seq(S) /\ Rest \in Seq(S)
      BY <1>1, <2>8, SeqMore
    <2>11. /\ \A i \in DOMAIN Rest : \E j \in DOMAIN stack : Rest[i] = stack[j]
           /\ \A u : Has(stack, Ends, u) => Has(Rest, Ends, u)
      BY RestIs DEF Ends
    <2>12. Calm(R, Q)
      OBVIOUS
    <2> DEFINE r == Rest  s == stack
    <2> HIDE DEF S, C, Q, r, s
    <2>13. TreeInv(Q, gs \o r)
      BY <2>1, <2>6, <2>7, <2>9, <2>10, <2>11, <2>12, CalmOnward DEF r, s
    <2> QED
      BY <2>13 DEF Q, r
  <1> QED
    BY <1>4, <1>5 DEF TreeStays

LEMMA CreateNew ==
  ASSUME IInv, stack # <<>>, Top.f = "body", AllClosed(task), Born # Tasks,
         NEW kind \in Kinds \ {"none"}, NEW C, C = Create(task, Fresh, kind, Self)
  PROVE  /\ NewTask(task, C, Fresh, Self) /\ IsTable(C) /\ Fresh \in Tasks
  <1> DEFINE F == Fresh
             t == Self
  <1>1. /\ Types(C, BornIn(C), WaitersIn(C)) /\ F \in Tasks \ BornIn(task) /\ OthersKept(task, C, F)
    BY CreatedIs
  <1>2. IsTable(task) /\ F \in DOMAIN task
    BY <1>1, Here DEF IsTable, Shape
  <1> HIDE DEF F, t
  <1>3. C = [task EXCEPT ![F] = [Unborn EXCEPT !.kind = kind, !.root = TRUE, !.by = t]]
    BY DEF Create, F, t
  <1>4. C[F] = [Unborn EXCEPT !.kind = kind, !.root = TRUE, !.by = t]
    BY <1>2, <1>3
  <1>5. /\ C[F].kind = kind /\ C[F].by = t /\ C[F].root = TRUE /\ C[F].free = FALSE
        /\ C[F].done = FALSE /\ C[F].late = FALSE
        /\ C[F].up = Nobody /\ C[F].down = Nobody /\ C[F].parent = Nobody /\ C[F].child = <<>>
        /\ C[F].atcont = None /\ C[F].arr = <<>>
    BY <1>4 DEF Unborn
  <1>6. <<>> \in Seq(BornIn(task)) /\ ToSet(<<>>) = {}
    BY DEF ToSet
  <1> QED
    BY <1>1, <1>5, <1>6 DEF NewTask, Types, F, t

\* What a state that creates pushes.
LEMMA NewFrames ==
  ASSUME IInv, stack # <<>>, Top.f = "body", Born # Tasks
  PROVE  LET C == BornIn(task) \cup {Fresh}
             g == Frame("call", Self, TaskVal(Fresh))
             n == Frame("next", Fresh, Ok)
             s == Frame("spawn", Fresh, Ok)
             i == Frame("iter", Self, Ok)
         IN  \A f \in {g, n, s, i, Top} : f \in Frames(C) /\ NewFrame(f)
  <1> DEFINE B == BornIn(task)
             C == B \cup {Fresh}
             v == TaskVal(Fresh)
             F == Fresh
             g == Frame("call", Self, v)
             n == Frame("next", F, Ok)
             s == Frame("spawn", F, Ok)
             i == Frame("iter", Self, Ok)
  <1>1. /\ Self \in B /\ B \in SUBSET Tasks /\ Born = B /\ Top \in Frames(B) /\ Fresh \in Tasks
    BY OnTop, Here, FreshIs DEF Self
  <1>2. C \in SUBSET Tasks /\ Self \in C /\ F \in C /\ Top \in Frames(C)
    BY <1>1, FramesMore
  <1> HIDE DEF F, C
  <1>3. Ok \in Values(C) /\ v \in Values(C)
    <2>1. TaskVal(F) \in Values(C)
      BY <1>2, TaskValIn
    <2> QED
      BY <2>1, ValueIn DEF F
  <1>4. v.k = "task" /\ v.t = Fresh
    BY DEF TaskVal
  <1> HIDE DEF v
  <1>5. /\ g \in Frames(C) /\ g.f = "call" /\ g.t = Self /\ g.v = v
        /\ i \in Frames(C) /\ i.f = "iter" /\ i.t = Self
    <2> DEFINE t == Self
    <2>1. t \in C
      BY <1>2
    <2> HIDE DEF t
    <2>2. /\ Frame("call", t, v) \in Frames(C) /\ Frame("call", t, v).f = "call"
          /\ Frame("call", t, v).t = t /\ Frame("call", t, v).v = v
          /\ Frame("iter", t, Ok) \in Frames(C) /\ Frame("iter", t, Ok).f = "iter"
          /\ Frame("iter", t, Ok).t = t
      BY <1>3, <2>1, FrameIn
    <2> QED
      BY <2>2 DEF t
  <1>6. n \in Frames(C) /\ n.f = "next" /\ s \in Frames(C) /\ s.f = "spawn"
    BY <1>2, <1>3, FrameIn
  <1> HIDE DEF g, n, s, i
  <1>7. NewFrame(g) /\ NewFrame(n) /\ NewFrame(s) /\ NewFrame(i) /\ NewFrame(Top)
    BY <1>4, <1>5, <1>6 DEF NewFrame, Mild, Acts, Ends
  <1>8. \A f \in {g, n, s, i, Top} : f \in Frames(C) /\ NewFrame(f)
    BY <1>2, <1>5, <1>6, <1>7
  <1> QED
    BY <1>8 DEF g, n, s, i, v, F, C

LEMMA CreatesTree ==
  ASSUME IInv, stack # <<>>, Top.f = "body", task[Self].kind \notin One, Born # Tasks,
         NEW R, NewTask(task, R, Fresh, Self), NEW Q, Calm(R, Q), Told(R) => Told(Q),
         \/ New(Q, <<Frame("call", Self, TaskVal(Fresh))>>)
         \/ New(Q, <<Frame("spawn", Fresh, Ok), Top>>)
         \/ New(Q, <<Frame("spawn", Fresh, Ok), Frame("iter", Self, Ok)>>)
         \/ New(Q, <<Top>>)
         \/ Step(Q, <<Top>>)
  PROVE  TreeStays
  <1> DEFINE C == BornIn(task) \cup {Fresh}
             g == Frame("call", Self, TaskVal(Fresh))
             n == Frame("next", Fresh, Ok)
             s == Frame("spawn", Fresh, Ok)
             i == Frame("iter", Self, Ok)
  <1>1. \A f \in {g, n, s, i, Top} : f \in Frames(C) /\ NewFrame(f)
    BY NewFrames
  <1>2. \/ Step(Q, <<n>> \o <<g>>)
        \/ Step(Q, <<n>> \o <<s, Top>>)
        \/ Step(Q, <<n>> \o <<s, i>>)
        \/ Step(Q, <<n>> \o <<Top>>)
        \/ Step(Q, <<Top>>)
    BY DEF New
  <1> HIDE DEF n, g, s, i
  <1> DEFINE S == {g, n, s, i, Top}
  <1>3. <<g>> \in Seq(S) /\ <<s, Top>> \in Seq(S) /\ <<s, i>> \in Seq(S) /\ <<Top>> \in Seq(S) /\ <<n>> \in Seq(S)
    OBVIOUS
  <1>4. ASSUME NEW gs \in Seq(S), Step(Q, gs)
        PROVE  TreeStays
    <2>1. task' = Q /\ stack' = gs \o Rest
      BY <1>4 DEF Step
    <2>2. S \subseteq Frames(C) /\ \A f \in S : NewFrame(f)
      BY <1>1
    <2> HIDE DEF S, C
    <2>3. gs \in Seq(Frames(C)) /\ \A j \in DOMAIN gs : NewFrame(gs[j])
      BY <2>2, SeqMore
    <2> QED
      BY <2>1, <2>3, NewStep DEF C
  <1>5. \A fs \in Seq(S) : <<n>> \o fs \in Seq(S)
    BY <1>3
  <1> HIDE DEF S
  <1> QED
    BY <1>2, <1>3, <1>4, <1>5

LEMMA CreateTree ==
  ASSUME IInv, stack # <<>>, Top.f = "body", task[Self].kind \notin One, AllClosed(task), Born # Tasks,
         NEW kind \in Kinds \ {"none"}, NEW C, C = Create(task, Fresh, kind, Self),
         \/ New(C, <<Frame("call", Self, TaskVal(Fresh))>>)
         \/ New(C, <<Frame("spawn", Fresh, Ok), Top>>)
         \/ New(C, <<Frame("spawn", Fresh, Ok), Frame("iter", Self, Ok)>>)
         \/ New(C, <<Top>>)
  PROVE  TreeStays
  BY CreateNew, CalmSelf, CreatesTree


-----------------------------------------------------------------------------
\* The states of the library's own tasks.

LEMMA CounterCalm ==
  ASSUME IInv, stack # <<>>, NEW f \in {"i", "next"}, NEW n, NEW R, R = SetOne(task, Self, f, n)
  PROVE  IsTable(R) /\ Calm(task, R) /\ (Told(task) => Told(R))
  <1> DEFINE t == Self
  <1>1. t \in Tasks /\ IsTable(task) /\ f \in CalmFields /\ f # "atcont" /\ R = SetOne(task, t, f, n)
    BY StateHere DEF CalmFields
  <1> HIDE DEF t
  <1> QED
    BY ONLY <1>1, SetCalm

LEMMA ThrownTree ==
  ASSUME IInv, stack # <<>>, Top.f \in Acts, Throws(task)
  PROVE  TreeStays
  <1>1. Returns(Keeps(ContinueTask(task, Self, Err), Err), Err)
    BY DEF Throws
  <1> QED
    BY <1>1, StateHere, ThrowsTree

LEMMA ForTaskTree ==
  ASSUME IInv, For
  PROVE  TreeStays
  <1>1. stack # <<>> /\ Top.f = "body" /\ Top.f \in Acts
    BY DEF For, At, On, Acts
  <1>2. task[Self].kind = "for" /\ task[Self].kind \notin One
    BY DEF For, At, Self, One
  <1>3. AllClosed(task)
    BY <1>1, <1>2, BodyHere
  <1>4. ASSUME NEW go \in {0, 1}, Returns([task EXCEPT ![Self].i = go], Ok)
        PROVE  TreeStays
    <2> DEFINE R == [task EXCEPT ![Self].i = go]
               f == "i"
    <2>1. Returns(R, Ok) /\ R = SetOne(task, Self, f, go) /\ f \in {"i", "next"}
      BY <1>4 DEF SetOne
    <2> HIDE DEF R, f
    <2>2. Calm(task, R) /\ (Told(task) => Told(R))
      BY ONLY IInv, <1>1, <2>1, CounterCalm
    <2> QED
      BY <1>1, <2>1, <2>2, StateHere, ReturnsTree DEF Waitable
  <1>5. CASE Leaves(task, Ok)
    BY <1>1, <1>5, StateHere, LeavesTree
  <1>6. CASE Throws(task)
    BY <1>1, <1>6, ThrownTree
  <1>7. CASE Returns(task, Ok)
    BY <1>1, <1>7, StateHere, ReturnsTree DEF Waitable
  <1>8. CASE Goes(task, 1)
    BY <1>1, <1>8, StateHere, GoesTree
  <1>9. CASE CanCreate /\ New(Create(task, Fresh, "gen", Self), <<Frame("call", Self, TaskVal(Fresh))>>)
    <2> DEFINE C == Create(task, Fresh, "gen", Self)
    <2>1. "gen" \in Kinds \ {"none"} /\ Born # Tasks
      BY <1>9 DEF Kinds, CanCreate
    <2>2. New(C, <<Frame("call", Self, TaskVal(Fresh))>>)
      BY <1>9
    <2> HIDE DEF C
    <2>3. C = Create(task, Fresh, "gen", Self)
      BY DEF C
    <2> QED
      BY <1>1, <1>2, <1>3, <2>1, <2>2, <2>3, CreateTree
  <1> QED
    BY <1>4, <1>5, <1>6, <1>7, <1>8, <1>9 DEF For

LEMMA AllOfTree ==
  ASSUME IInv, AllOf
  PROVE  TreeStays
  <1> DEFINE B == BornIn(task)
             W == WaitersIn(task)
             t == Self
             a == task[t].arr
             i == task[t].i + 1
             T == [task EXCEPT ![Self].i = i]
  <1>1. stack # <<>> /\ Top.f = "body" /\ Top.f \in Acts
    BY DEF AllOf, At, On, Acts
  <1>2. task[Self].kind = "all" /\ task[Self].kind \notin One
    BY DEF AllOf, At, Self, One
  <1>3. /\ t \in Tasks /\ t \in B /\ Types(task, B, W) /\ IsTable(task) /\ TreeTypes(task, B)
        /\ B \in SUBSET Tasks
    BY <1>1, StateHere, Here
  <1>4. a \in Seq(B) /\ i \in Nat /\ i # 0
    <2>1. task[t].arr \in Seq(B) /\ task[t].i \in Nat
      BY <1>3 DEF Types, DataOK
    <2> QED
      BY <2>1
  <1>5. TreeNow => /\ Tree(task, B, {}) /\ Numbered(task) /\ \A u \in ToSet(a) : Lower(task, t, u)
    <2>1. TreeNow => Tree(task, B, {}) /\ Elders(task)
      BY DEF TreeNow, TreeInv
    <2>2. Numbered(task)
      BY NumbersNow, CalmSelf DEF Calm, Still
    <2> QED
      BY <1>3, <2>1, <2>2 DEF Elders
  <1>6. CASE Returns(Adopt(task, a, t), Ok)
    <2> DEFINE R == Adopt(task, a, t)
    <2> HIDE DEF a, t
    <2>1. TreeKept(task, R, B) /\ (TreeNow => Moved(task, R, B))
      BY <1>3, <1>4, <1>5, AdoptKept, AdoptTree
    <2>2. Returns(R, Ok)
      BY <1>6
    <2> HIDE DEF R
    <2> QED
      BY <1>1, <2>1, <2>2, StateHere, MovedReturns DEF Waitable
  <1>7. CASE Leaves(task, Ok)
    BY <1>1, <1>7, StateHere, LeavesTree
  <1>8. CASE i <= Len(a) /\ Returns(SpawnParent(task, a[i], Nobody), TaskVal(a[i]))
    <2> DEFINE u == a[i]
               v == TaskVal(u)
               p == Nobody
               R == SpawnParent(task, u, p)
    <2>1. u \in B /\ u \in ToSet(a)
      <3> HIDE DEF a, i
      <3> QED
        BY <1>4, <1>8 DEF ToSet
    <2>2. Returns(R, v)
      BY <1>8
    <2>3. v \in Values(B) /\ v.k = "task" /\ v.t = u
      <3> HIDE DEF u
      <3> QED
        BY <1>3, <2>1, TaskValIn DEF TaskVal
    <2>4. TreeNow => Waitable(v)
      BY <1>2, <1>5, <2>1, <2>3 DEF Waitable
    <2> HIDE DEF u, v
    <2>5. p \in Ref(B) /\ ~(p # Nobody)
      BY DEF Ref
    <2> HIDE DEF p
    <2>6. TreeKept(task, R, B) /\ (TreeNow => Moved(task, R, B))
      BY <1>3, <1>5, <2>1, <2>5, SpawnParentKept, SpawnParentTree
    <2> HIDE DEF R
    <2> QED
      BY <1>1, <2>2, <2>3, <2>4, <2>6, MovedReturns
  <1>9. CASE Throws(task)
    BY <1>1, <1>9, ThrownTree
  <1>10. CASE Goes(T, 2)
    <2> DEFINE f == "i"
    <2>1. T = SetOne(task, Self, f, i) /\ f \in {"i", "next"}
      BY DEF SetOne
    <2>2. Types(T, B, W)
      BY <1>3, <1>4, SoftI DEF Soft
    <2> HIDE DEF T, f, i
    <2>3. Calm(task, T) /\ (Told(task) => Told(T))
      BY ONLY IInv, <1>1, <2>1, CounterCalm
    <2> QED
      BY <1>1, <1>10, <2>2, <2>3, StateHere, GoesTree
  <1> QED
    BY <1>6, <1>7, <1>8, <1>9, <1>10 DEF AllOf

LEMMA AllLimitTree ==
  ASSUME IInv, AllLimit
  PROVE  TreeStays
  <1>1. stack # <<>> /\ Top.f \in {"body", "iter"} /\ Top.f \in Acts
    BY DEF AllLimit, At, On, Acts
  <1>2. Self \in Tasks /\ ActOK(Top, task[Self])
    BY <1>1, BodyHere
  <1>3. task[Self].kind = "limit" /\ task[Self].kind \notin One
    BY <1>1, <1>2 DEF AllLimit, At, On, Self, ActOK, One
  <1>4. AllClosed(task)
    BY <1>1, <1>3, BodyHere
  <1>5. CASE Goes(task, 2)
    BY <1>1, <1>5, StateHere, GoesTree
  <1>6. ASSUME On("body"), CanCreate, NEW k \in plan.kinds,
               New(Create(task, Fresh, k, Self), <<Frame("spawn", Fresh, Ok), Frame("iter", Self, Ok)>>)
        PROVE  TreeStays
    <2> DEFINE C == Create(task, Fresh, k, Self)
    <2>1. k \in Kinds \ {"none"} /\ Born # Tasks /\ Top.f = "body"
      BY <1>6, PlanKinds DEF CanCreate, On
    <2>2. New(C, <<Frame("spawn", Fresh, Ok), Frame("iter", Self, Ok)>>)
      BY <1>6
    <2> HIDE DEF C
    <2>3. C = Create(task, Fresh, k, Self)
      BY DEF C
    <2> QED
      BY <1>1, <1>3, <1>4, <2>1, <2>2, <2>3, CreateTree
  <1>7. \A x \in {"any", "all"} : Ret(x) \in Values(BornIn(task)) /\ Ret(x).k # "task"
    <2>1. \A x \in {"any", "all"} : Ret(x).k = x
      BY RetIs
    <2> QED
      BY <2>1, ValueIn
  <1>8. CASE Returns([task EXCEPT ![Self].next = task[Self].cur], IF AtLimit(Self) THEN Ret("any") ELSE Ok)
    <2> DEFINE n == task[Self].cur
               R == [task EXCEPT ![Self].next = n]
               v == IF AtLimit(Self) THEN Ret("any") ELSE Ok
               f == "next"
    <2>1. Returns(R, v) /\ R = SetOne(task, Self, f, n) /\ f \in {"i", "next"}
      BY <1>8 DEF SetOne
    <2>2. v \in Values(BornIn(task)) /\ v.k # "task"
      BY <1>1, <1>7, StateHere
    <2> HIDE DEF R, f, n, v
    <2>3. Calm(task, R) /\ (Told(task) => Told(R))
      BY ONLY IInv, <1>1, <2>1, CounterCalm
    <2> QED
      BY <1>1, <2>1, <2>2, <2>3, StateHere, ReturnsTree DEF Waitable
  <1>9. CASE Returns(task, Ret("all"))
    <2> DEFINE v == Ret("all")
    <2>1. Returns(task, v) /\ v \in Values(BornIn(task)) /\ v.k # "task"
      BY <1>7, <1>9
    <2> HIDE DEF v
    <2> QED
      BY <1>1, <2>1, StateHere, ReturnsTree DEF Waitable
  <1> QED
    BY <1>5, <1>6, <1>8, <1>9 DEF AllLimit, At

-----------------------------------------------------------------------------
\* The user's states.

LEMMA UserThere ==
  ASSUME IInv, User
  PROVE  /\ stack # <<>> /\ Top.f = "body" /\ Top.f \in Acts /\ task[Self].kind \notin One
         /\ AllClosed(task) /\ Self \in Tasks /\ Self \in BornIn(task) /\ Top \in Frames(BornIn(task))
  <1>1. task[Self].kind \in {"raw", "gen"}
    BY DEF User, At, Self
  <1> QED
    BY <1>1, UserHere DEF One

LEMMA NoTask ==
  ASSUME NEW op \in {"wait", "timeout", "child"}, NEW v \in WaitFor(op)
  PROVE  v.k # "task"
  <1>1. CASE op = "wait"
    BY <1>1 DEF WaitFor, Ret, Ok
  <1>2. CASE op = "timeout"
    BY <1>2 DEF WaitFor, Ret, Ok
  <1>3. CASE op = "child"
    BY <1>3 DEF WaitFor, Ret, Ok
  <1> QED
    BY <1>1, <1>2, <1>3

LEMMA FinishTree ==
  ASSUME IInv, Finish \/ FinishWait
  PROVE  TreeStays
  <1>1. User
    BY DEF Finish, FinishWait, May
  <1>2. stack # <<>> /\ Top.f \in Acts
    BY <1>1, UserThere
  <1>3. ASSUME NEW v \in {Ok, Err}, Leaves(task, v)
        PROVE  TreeStays
    BY <1>2, <1>3, StateHere, LeavesTree
  <1>4. ASSUME NEW v \in {Ok, Err}, Returns(task, v)
        PROVE  TreeStays
    BY <1>2, <1>4, StateHere, ReturnsTree DEF Waitable
  <1>5. CASE FinishWait
    <2>1. PICK op \in {"wait", "timeout", "child"} : \E v \in WaitFor(op) : Leaves(task, v)
      BY <1>5 DEF FinishWait
    <2>2. PICK v \in WaitFor(op) : Leaves(task, v)
      BY <2>1
    <2>3. v \in Values(BornIn(task)) /\ v.k # "task"
      BY <1>1, <2>1, <2>2, WaitsIn, NoTask
    <2> QED
      BY <1>2, <2>2, <2>3, LeavesTree
  <1>6. CASE Finish
    BY <1>3, <1>4, <1>6 DEF Finish
  <1> QED
    BY <1>5, <1>6

LEMMA CreatorsTree ==
  ASSUME IInv, CallNew \/ SpawnNew \/ LooseNew
  PROVE  TreeStays
  <1>1. User /\ Born # Tasks
    BY DEF CallNew, SpawnNew, LooseNew, May, CanCreate
  <1>2. stack # <<>> /\ Top.f = "body" /\ AllClosed(task) /\ task[Self].kind \notin One
    BY <1>1, UserThere
  <1>3. PICK k \in plan.kinds :
           \/ New(Create(task, Fresh, k, Self), <<Frame("call", Self, TaskVal(Fresh))>>)
           \/ New(Create(task, Fresh, k, Self), <<Frame("spawn", Fresh, Ok), Top>>)
           \/ New(Create(task, Fresh, k, Self), <<Top>>)
    BY DEF CallNew, SpawnNew, LooseNew
  <1> DEFINE C == Create(task, Fresh, k, Self)
  <1>4. \/ New(C, <<Frame("call", Self, TaskVal(Fresh))>>)
        \/ New(C, <<Frame("spawn", Fresh, Ok), Top>>)
        \/ New(C, <<Top>>)
    BY <1>3
  <1> HIDE DEF C
  <1>5. C = Create(task, Fresh, k, Self) /\ k \in Kinds \ {"none"}
    BY PlanKinds DEF C
  <1> QED
    BY <1>1, <1>2, <1>4, <1>5, CreateTree

LEMMA AsyncTree ==
  ASSUME IInv, AsyncNew
  PROVE  TreeStays
  <1>1. User /\ Born # Tasks
    BY DEF AsyncNew, CanCreate
  <1>2. stack # <<>> /\ Top.f = "body" /\ AllClosed(task) /\ task[Self].kind \notin One
    BY <1>1, UserThere
  <1>3. PICK k \in plan.kinds :
           Step(SetWait(Create(task, Fresh, k, Self), Fresh, "int", Fresh), <<Top>>)
    BY DEF AsyncNew
  <1> DEFINE F == Fresh
             C == Create(task, Fresh, k, Self)
             op == "int"
             R == SetWait(C, F, op, F)
  <1>4. Step(R, <<Top>>)
    BY <1>3
  <1> HIDE DEF C, op
  <1>5. C = Create(task, Fresh, k, Self) /\ k \in Kinds \ {"none"}
    BY PlanKinds DEF C
  <1>6. NewTask(task, C, Fresh, Self) /\ IsTable(C) /\ Fresh \in Tasks
    BY <1>1, <1>2, <1>5, CreateNew
  <1>7. Calm(C, R) /\ (Told(C) => Told(R))
    <2>1. F \in Tasks
      BY <1>6
    <2> HIDE DEF F
    <2> QED
      BY <1>6, <2>1, WaitCalm
  <1> HIDE DEF R
  <1> QED
    BY <1>1, <1>2, <1>4, <1>6, <1>7, CreatesTree

LEMMA AllNewTree ==
  ASSUME IInv, AllNew
  PROVE  TreeStays
  <1> DEFINE L == Loose(task)
             n == Cardinality(L)
             B == BornIn(task)
  <1>1. User /\ Born # Tasks
    BY DEF AllNew, May, CanCreate
  <1>2. stack # <<>> /\ Top.f = "body" /\ AllClosed(task) /\ task[Self].kind \notin One
    BY <1>1, UserThere
  <1>3. PICK a \in [1 .. n -> L] :
           New([Create(task, Fresh, "all", Self) EXCEPT ![Fresh].arr = a],
               <<Frame("call", Self, TaskVal(Fresh))>>)
    BY DEF AllNew
  <1>4. n \in Nat /\ L \subseteq B
    <2>1. L \subseteq Tasks /\ L \subseteq B
      BY DEF Loose, BornIn
    <2>2. IsFiniteSet(Tasks)
      BY FS_Interval, TasksAssumption DEF Tasks
    <2>3. IsFiniteSet(L)
      BY <2>1, <2>2, FS_Subset
    <2> QED
      BY <2>1, <2>3, FS_CardinalityType
  <1>5. a \in Seq(B) /\ \A u \in ToSet(a) : u \in L
    <2> HIDE DEF n, L
    <2> QED
      BY <1>4 DEF ToSet
  <1>6. \A u \in L : task[u].by = Self
    BY DEF Loose
  <1> HIDE DEF L, n
  <1> DEFINE F == Fresh
             C == Create(task, Fresh, "all", Self)
             f == "arr"
             R == [C EXCEPT ![Fresh].arr = a]
             g == Frame("call", Self, TaskVal(Fresh))
  <1>7. New(R, <<g>>) /\ R = SetOne(C, F, f, a) /\ f \in Fields
    BY <1>3 DEF SetOne, Fields
  <1> HIDE DEF C
  <1>8. C = Create(task, Fresh, "all", Self) /\ "all" \in Kinds \ {"none"}
    BY DEF C, Kinds
  <1>9. NewTask(task, C, Fresh, Self) /\ IsTable(C) /\ Fresh \in Tasks
    BY <1>1, <1>2, <1>8, CreateNew
  <1>10. F \in Tasks /\ Shape(C)
    BY <1>9 DEF IsTable
  <1> HIDE DEF F, R, g, f
  <1>11. FieldsKept(C, R, {f}) /\ OthersKept(C, R, F) /\ R[F][f] = a
    BY ONLY <1>7, <1>9, <1>10, OneField
  <1>12. NewTask(task, R, Fresh, Self)
    <2>1. OthersKept(task, R, F)
      BY <1>9, <1>11 DEF NewTask, OthersKept, F
    <2>2. /\ R[F].kind = C[F].kind /\ R[F].by = C[F].by /\ R[F].root = C[F].root /\ R[F].free = C[F].free
          /\ R[F].done = C[F].done /\ R[F].late = C[F].late /\ R[F].up = C[F].up /\ R[F].down = C[F].down
          /\ R[F].parent = C[F].parent /\ R[F].child = C[F].child /\ R[F].atcont = C[F].atcont
          /\ R[F].arr = a
      BY <1>10, <1>11 DEF FieldsKept, Fields, f
    <2> QED
      BY <1>5, <1>6, <1>9, <2>1, <2>2 DEF NewTask, F
  <1>13. Calm(R, R) /\ New(R, <<Frame("call", Self, TaskVal(Fresh))>>)
    BY <1>7, CalmSelf DEF g
  <1> QED
    BY <1>1, <1>2, <1>12, <1>13, CreatesTree

LEMMA ThenNewTree ==
  ASSUME IInv, ThenNew
  PROVE  TreeStays
  <1> DEFINE C == Create(task, Fresh, "waiter", Self)
  <1>1. User /\ Born # Tasks
    BY DEF ThenNew, May, CanCreate
  <1>2. stack # <<>> /\ Top.f = "body" /\ AllClosed(task) /\ task[Self].kind \notin One
    BY <1>1, UserThere
  <1>3. PICK u \in Live \ {Self} : New([C EXCEPT ![u].then = Append(@, Token(Fresh, 0))], <<Top>>)
    BY DEF ThenNew
  <1> DEFINE w == Token(Fresh, 0)
             f == "then"
             R == [C EXCEPT ![u].then = Append(@, w)]
  <1>4. New(R, <<Top>>) /\ R = TellOne(C, u, f, w) /\ f \in {"fin", "then"}
    BY <1>3 DEF TellOne
  <1> HIDE DEF C, R, f, w
  <1>5. C = Create(task, Fresh, "waiter", Self) /\ "waiter" \in Kinds \ {"none"}
    BY DEF C, Kinds
  <1>6. NewTask(task, C, Fresh, Self) /\ IsTable(C)
    BY <1>1, <1>2, <1>5, CreateNew
  <1>7. u \in Tasks
    BY DEF Live, Born
  <1>8. Calm(C, R) /\ (Told(C) => Told(R))
    BY ONLY <1>4, <1>6, <1>7, TellCalm
  <1> QED
    BY <1>1, <1>2, <1>4, <1>6, <1>8, CreatesTree

\* A state waits for a task it created itself.
LEMMA JoinTree ==
  ASSUME IInv, Join
  PROVE  TreeStays
  <1>1. User
    BY DEF Join, May
  <1>2. PICK u \in Loose(task) : Returns(task, TaskVal(u))
    BY DEF Join
  <1> DEFINE v == TaskVal(u)
  <1>3. u \in BornIn(task) /\ BornIn(task) \in SUBSET Tasks /\ task[u].by = Self
    BY DEF Loose, BornIn
  <1>4. v \in Values(BornIn(task)) /\ v.k = "task" /\ v.t = u
    BY <1>3, TaskValIn DEF TaskVal
  <1>5. Returns(task, v)
    BY <1>2
  <1> HIDE DEF v
  <1>6. TreeNow => Waitable(v)
    <2> SUFFICES ASSUME TreeNow PROVE Waitable(v)
      OBVIOUS
    <2>1. Elders(task)
      BY DEF TreeNow, TreeInv
    <2>2. task[u].by < u /\ task[Self].by < Self
      BY <1>1, <1>3, <2>1, UserThere DEF Elders
    <2>3. Lower(task, Self, u)
      BY <1>1, <1>3, <2>2, UserThere DEF Lower
    <2> QED
      BY <1>1, <1>4, <2>3, UserThere DEF Waitable
  <1> QED
    BY <1>1, <1>4, <1>5, <1>6, UserThere, StateHere, ReturnsTree

LEMMA YieldTree ==
  ASSUME IInv, Yield
  PROVE  TreeStays
  <1> DEFINE B == BornIn(task)
  <1>1. User
    BY DEF Yield, May
  <1>2. Ret("promise").k # "task"
    BY DEF Ret, Ok
  <1>3. \E v \in Values(B) : v.k # "task" /\ Returns(task, v)
    <2>1. CASE Returns(task, Ret("promise"))
      BY <1>1, <1>2, <2>1, YieldsIn
    <2>2. CASE \E op \in {"wait", "timeout", "child"} : \E v \in WaitFor(op) : Returns(task, v)
      BY <1>1, <2>2, WaitsIn, NoTask
    <2> QED
      BY <2>1, <2>2 DEF Yield
  <1>4. PICK v \in Values(B) : v.k # "task" /\ Returns(task, v)
    BY <1>3
  <1> QED
    BY <1>1, <1>4, UserThere, StateHere, ReturnsTree DEF Waitable

\* Frames are put on the state that runs.
LEMMA OverTree ==
  ASSUME IInv, User, Calm(task, task'), TreeNow => Told(task'), NEW gs \in Seq(Frames(BornIn(task))),
         TreeNow => AllTree(gs, task'), stack' = (gs \o <<Top>>) \o Rest
  PROVE  TreeStays
  <1> DEFINE S == Frames(BornIn(task))
             hs == <<Top>>
             T == task'
  <1>1. stack # <<>> /\ Top.f \notin Ends /\ Top \in S /\ Top.f = "body"
    BY UserThere DEF Ends
  <1>2. TreeNow => FrameTree(Top, T)
    <2> SUFFICES ASSUME TreeNow PROVE FrameTree(Top, T)
      OBVIOUS
    <2>1. FrameTree(Top, task) /\ Top.t = Self /\ Self \in Tasks
      BY <1>1, UserThere, TopTree DEF Self
    <2>2. T[Self].done = task[Self].done /\ T[Self].kind = task[Self].kind
      BY <2>1 DEF Calm, Still, Same
    <2> HIDE DEF T
    <2> QED
      BY <1>1, <2>1, <2>2 DEF FrameTree, Ends
  <1>3. hs \in Seq(S)
    BY <1>1
  <1>4. TreeNow => AllTree(hs, T)
    BY <1>2, OneTree
  <1>5. stack' = (gs \o hs) \o Rest
    OBVIOUS
  <1> HIDE DEF hs, S
  <1>6. gs \in Seq(S)
    BY DEF S
  <1>7. gs \o hs \in Seq(S) /\ (TreeNow => AllTree(gs \o hs, T))
    BY <1>3, <1>4, <1>6, MoreTree
  <1> DEFINE qs == gs \o hs
  <1>8. qs \in Seq(S) /\ (TreeNow => AllTree(qs, T)) /\ stack' = qs \o Rest
    BY <1>5, <1>7
  <1> HIDE DEF qs, T
  <1> QED
    BY <1>1, <1>8, CalmStep DEF S, T

LEMMA CancelOtherTree ==
  ASSUME IInv, CancelOther
  PROVE  TreeStays
  <1> DEFINE B == BornIn(task)
             c == task[Self].child
             es == [i \in DOMAIN c |-> Frame("end", c[i], Ok)]
  <1>1. User
    BY DEF CancelOther, May
  <1>2. Calm(task, task) /\ (TreeNow => Told(task))
    BY <1>1, UserThere, StateHere
  <1>3. CASE \E u \in Live \ {Self} : Step(task, <<Frame("end", u, Ok), Top>>)
    <2>1. PICK u \in Live \ {Self} : Step(task, <<Frame("end", u, Ok), Top>>)
      BY <1>3
    <2> DEFINE e == Frame("end", u, Ok)
    <2>2. u \in B
      BY DEF Live, Born, BornIn
    <2>3. e \in Frames(B) /\ e.f = "end"
      BY <2>2, FrameIn, ValueIn
    <2>4. task' = task /\ stack' = <<e, Top>> \o Rest
      BY <2>1 DEF Step
    <2> HIDE DEF e
    <2>5. <<e>> \in Seq(Frames(B)) /\ <<e, Top>> = <<e>> \o <<Top>>
      BY <2>3
    <2>6. AllTree(<<e>>, task)
      BY <2>3, OneTree, MildTree DEF Mild, Acts, Ends
    <2> QED
      BY <1>1, <1>2, <2>4, <2>5, <2>6, OverTree
  <1>4. CASE Step(task, es \o <<Top>>)
    <2>1. task' = task /\ stack' = (es \o <<Top>>) \o Rest
      BY <1>4 DEF Step
    <2>2. c \in Seq(B)
      BY <1>1, UserHere, Here DEF TreeTypes
    <2> DEFINE f == "end"
    <2>3. es = [i \in DOMAIN c |-> Frame(f, c[i], Ok)] /\ f \in {"cancel", "end"}
      OBVIOUS
    <2>4. es \in Seq(Frames(B)) /\ AllTree(es, task)
      <3> HIDE DEF c, es, f
      <3> QED
        BY <2>2, <2>3, FramesFor, ForTree
    <2> HIDE DEF es
    <2> QED
      BY <1>1, <1>2, <2>1, <2>4, OverTree
  <1> QED
    BY <1>3, <1>4 DEF CancelOther

LEMMA AnswerTree ==
  ASSUME IInv, Answer
  PROVE  TreeStays
  <1>1. User
    BY DEF Answer, May
  <1>2. PICK u \in Live \ {Self}, v \in {Ok, Err} :
          Step(ContinueTask(task, u, v), ContinueFrames(task, u, v, "continue") \o <<Top>>)
    BY DEF Answer
  <1> DEFINE f == "continue"
             C == ContinueFrames(task, u, v, f)
             B == BornIn(task)
             R == ContinueTask(task, u, v)
  <1>3. u \in Tasks /\ u \in B /\ v \in Values(B) /\ v.k # "task" /\ f \in {"continue", "return"}
    BY ValueIn, OkIs DEF Live, Born, BornIn
  <1>4. task' = R /\ stack' = (C \o <<Top>>) \o Rest
    BY <1>2 DEF Step
  <1>5. Types(task, B, WaitersIn(task)) /\ task[u].down \in Ref(B)
    BY <1>3, Here DEF TreeTypes
  <1>6. FieldsKept(task, R, {"wait", "err"})
    BY <1>3, <1>5, SoftCont
  <1> HIDE DEF R, f
  <1>7. Calm(task, R) /\ (Told(task) => Told(R))
    BY <1>6, ToldCalm DEF CalmFields
  <1>8. C \in Seq(Frames(B)) /\ AllTree(C, R)
    <2> HIDE DEF B
    <2> QED
      BY <1>3, <1>5, ContTree
  <1> HIDE DEF C
  <1>9. TreeNow => Told(task)
    BY <1>1, UserThere, StateHere
  <1> QED
    BY <1>1, <1>4, <1>7, <1>8, <1>9, OverTree

-----------------------------------------------------------------------------
\* The event loop.

LEMMA TickTree ==
  ASSUME IInv, Tick
  PROVE  TreeStays
  <1> DEFINE h == Head(tick)
             B == BornIn(task)
  <1>1. Quiet /\ tick # <<>> /\ task' = task /\ stack' = <<h>>
    BY DEF Tick, Begin
  <1>2. AllClosed(task) /\ Core(task, <<>>, tick)
    BY <1>1, QuietIs
  <1>3. h \in Ticks(B)
    BY <1>1, <1>2, TakeTick
  <1> HIDE DEF h
  <1>4. h \in Frames(B) /\ Mild(h)
    BY <1>3 DEF Ticks, Mild, Acts, Ends
  <1>5. <<h>> \in Seq(Frames(B)) /\ AllTree(<<h>>, task)
    BY <1>4, OneTree, MildTree
  <1>6. TreeNow => Told(task)
    BY DEF TreeNow, TreeInv
  <1> QED
    BY <1>1, <1>5, <1>6, CalmSelf, CalmBegin

LEMMA SettleTree ==
  ASSUME IInv, NEW t \in Tasks, Settle(t)
  PROVE  TreeStays
  <1> DEFINE B == BornIn(task)
  <1>1. Quiet /\ WaitOf(task, t) = "promise"
    BY DEF Settle, Idle
  <1>2. PICK v \in {Ok, Err} : Begin(task, <<GotFrame(Token(t, task[t].wait), v)>>)
    BY DEF Settle
  <1> DEFINE w == Token(t, task[t].wait)
             g == GotFrame(w, v)
  <1>3. task[t].wait # 0 /\ task[t].wait \in Nat
    BY <1>1, Here DEF WaitOf, Types, DataOK
  <1>4. task[t].kind # "none" /\ t \in B
    BY <1>1, Here DEF WaitOf, Closed, IInv, Core, TaskOK, BornIn
  <1>5. w.t \in B /\ w.n \in Nat \ {0} /\ v \in Values(B)
    BY <1>3, <1>4, ValueIn DEF Token
  <1> HIDE DEF w
  <1>6. g \in Frames(B) /\ g.f = "got"
    BY <1>5, GotIn
  <1>7. task' = task /\ stack' = <<g>>
    BY <1>2 DEF Begin, w
  <1> HIDE DEF g
  <1>8. <<g>> \in Seq(Frames(B)) /\ AllTree(<<g>>, task)
    BY <1>6, OneTree, MildTree DEF Mild, Acts, Ends
  <1>9. TreeNow => Told(task)
    BY DEF TreeNow, TreeInv
  <1> QED
    BY <1>1, <1>7, <1>8, <1>9, CalmSelf, CalmBegin

\* A task is continued or returned from outside.
LEMMA ContinuesTree ==
  ASSUME IInv, Quiet, NEW t \in BornIn(task), NEW v \in {Ok, Err}, NEW f \in {"continue", "return"},
         NEW F \in SUBSET (CalmFields \ {"atcont"}), FieldsKept(task, task', F),
         stack' = ContinueFrames(task, t, v, f)
  PROVE  TreeStays
  <1> DEFINE B == BornIn(task)
             C == ContinueFrames(task, t, v, f)
             R == task'
  <1>1. v \in Values(B) /\ v.k # "task" /\ task[t].down \in Ref(B)
    BY Here, ValueIn, OkIs DEF TreeTypes
  <1>2. Calm(task, R) /\ (Told(task) => Told(R))
    BY ToldCalm
  <1>3. t \in B
    OBVIOUS
  <1> HIDE DEF R, B
  <1>4. C \in Seq(Frames(B)) /\ AllTree(C, R)
    BY <1>1, <1>3, ContTree
  <1>5. TreeNow => Told(task)
    BY DEF TreeNow, TreeInv
  <1>6. stack' = C
    OBVIOUS
  <1> HIDE DEF C
  <1> QED
    BY <1>2, <1>4, <1>5, <1>6, CalmBegin DEF R, B

LEMMA ContinuedTree ==
  ASSUME IInv, NEW t \in Tasks, Continued(t) \/ Alarm(t) \/ Returned(t)
  PROVE  TreeStays
  <1>1. Quiet
    BY DEF Continued, Alarm, Returned, Idle
  <1>2. t \in BornIn(task)
    <2>1. CASE Continued(t)
      <3>1. ~Closed(task[t])
        BY <2>1 DEF Continued, WaitOf, Closed
      <3> QED
        BY <3>1 DEF BornIn, IInv, Core, TaskOK
    <2>2. CASE Alarm(t) \/ Returned(t)
      BY <2>2 DEF Alarm, Returned, Live, Born, BornIn
    <2> QED
      BY <2>1, <2>2
  <1>3. Types(task, BornIn(task), WaitersIn(task))
    BY Here
  <1>4. CASE Continued(t) \/ Alarm(t)
    <2> DEFINE f == "continue"
               F == {"wait", "err"}
    <2>1. PICK v \in {Ok, Err} : task' = ContinueTask(task, t, v) /\ stack' = ContinueFrames(task, t, v, f)
      BY <1>4 DEF Continued, Alarm, Begin
    <2>2. FieldsKept(task, task', F)
      BY <1>3, <2>1, SoftCont
    <2>3. F \in SUBSET (CalmFields \ {"atcont"}) /\ f \in {"continue", "return"}
      BY DEF CalmFields
    <2> HIDE DEF f, F
    <2> QED
      BY <1>1, <1>2, <2>1, <2>2, <2>3, ContinuesTree
  <1>5. CASE Returned(t)
    <2> DEFINE f == "return"
               F == {"wait", "err", "atret", "next"}
               v == Ok
    <2>1. task' = ReturnTask(task, t, v) /\ stack' = ContinueFrames(task, t, v, f) /\ v \in {Ok, Err}
      BY <1>5 DEF Returned, Begin
    <2>2. FieldsKept(task, task', F)
      BY <1>3, <2>1, SoftReturn
    <2>3. F \in SUBSET (CalmFields \ {"atcont"}) /\ f \in {"continue", "return"}
      BY DEF CalmFields
    <2> HIDE DEF f, F, v
    <2> QED
      BY <1>1, <1>2, <2>1, <2>2, <2>3, ContinuesTree
  <1> QED
    BY <1>4, <1>5

LEMMA TimerTree ==
  ASSUME IInv, NEW t \in Tasks, Timer(t)
  PROVE  TreeStays
  <1> DEFINE B == BornIn(task)
             no == FALSE  f0 == "timer"
             f2 == "stray"
             z == TRUE    f1 == "late"
             x == task[t]
             h == Frame("next", t, Err)
  <1>0. PICK left \in (IF x.timer THEN {x.stray} ELSE {})
                      \cup (IF x.stray = 0 THEN {}
                           ELSE {IF x.timer THEN x.stray ELSE x.stray - 1}) :
           Begin([task EXCEPT ![t].timer = FALSE, ![t].stray = left, ![t].late = TRUE], <<h>>)
    BY DEF Timer
  <1> DEFINE D == SetOne(task, t, f0, no)
             C == SetOne(D, t, f2, left)
             R == SetOne(C, t, f1, z)
  <1>1. Quiet /\ (x.timer \/ x.stray # 0) /\ task' = R /\ stack' = <<h>>
    BY <1>0 DEF Timer, Idle, Begin, SetOne
  <1>2. t \in B
    BY <1>1 DEF IInv, Core, TaskOK, BornIn, Timed, Handless
  <1>3. h \in Frames(B) /\ h.f = "next"
    BY <1>2, FrameIn, ValueIn
  <1> HIDE DEF h
  <1>4. IsTable(task) /\ f0 \in CalmFields /\ f0 # "atcont" /\ f1 \in Fields
        /\ f2 \in CalmFields /\ f2 # "atcont"
        /\ D = SetOne(task, t, f0, no) /\ C = SetOne(D, t, f2, left) /\ R = SetOne(C, t, f1, z)
    BY Here DEF CalmFields, Fields
  <1>12. f1 = "late" /\ z = TRUE
    OBVIOUS
  <1> HIDE DEF D, C, R, f0, f1, f2, no, z
  <1>13. IsTable(D) /\ Calm(task, D) /\ (Told(task) => Told(D))
    BY ONLY <1>4, t \in Tasks, SetCalm
  <1>14. IsTable(C) /\ Calm(D, C) /\ (Told(D) => Told(C))
    BY ONLY <1>4, <1>13, t \in Tasks, SetCalm
  <1>5. IsTable(C) /\ Calm(task, C) /\ (Told(task) => Told(C))
    BY <1>13, <1>14, CalmTrans
  <1>6. FieldsKept(C, R, {f1}) /\ OthersKept(C, R, t) /\ R[t][f1] = z
    <2>1. Shape(C)
      BY <1>5 DEF IsTable
    <2> QED
      BY ONLY <1>4, <1>5, <2>1, t \in Tasks, OneField
  <1>7. Calm(C, R) /\ (Told(C) => Told(R))
    <2>1. \A u \in Tasks :
             /\ R[u].kind = C[u].kind /\ R[u].by = C[u].by /\ R[u].arr = C[u].arr /\ R[u].done = C[u].done
             /\ R[u].up = C[u].up /\ R[u].down = C[u].down /\ R[u].parent = C[u].parent
             /\ R[u].child = C[u].child /\ R[u].root = C[u].root /\ R[u].free = C[u].free
             /\ R[u].atcont = C[u].atcont
      <3>1. f1 = "late"
        BY <1>12
      <3> QED
        BY ONLY <1>6, <3>1 DEF FieldsKept, Fields
    <2>2. \A u \in Tasks : C[u].late => R[u].late
      BY <1>6, <1>12 DEF OthersKept
    <2>3. Calm(C, R)
      BY <2>1, <2>2 DEF Calm, Still, Same
    <2> QED
      BY <2>1, <2>3, ToldSame
  <1>8. Calm(task, R)
    BY <1>5, <1>7, CalmTrans
  <1>9. <<h>> \in Seq(Frames(B)) /\ AllTree(<<h>>, R)
    BY <1>3, OneTree, MildTree DEF Mild, Acts, Ends
  <1>10. TreeNow => Told(R)
    BY <1>5, <1>7 DEF TreeNow, TreeInv
  <1> QED
    BY <1>1, <1>8, <1>9, <1>10, CalmBegin

-----------------------------------------------------------------------------
\* The specification.

LEMMA StepTree ==
  ASSUME IInv, Next
  PROVE  TreeStays
  <1>1. CASE Machine
    BY <1>1, NextTree, GotTree, AfterTree, ResumeTree, DepthTree, CancelTree, CompleteTree,
       EmitChildTree, LeaveTree, ThenTree, CalledTree, SpawnedTree, StartedTree DEF Machine
  <1>2. CASE Library
    BY <1>2, GeneratorTree, LeafTree, ForTaskTree, AllOfTree, AllLimitTree DEF Library
  <1>3. CASE UserCode
    BY <1>3, FinishTree, CreatorsTree, AsyncTree, AllNewTree, JoinTree, YieldTree,
       CancelOtherTree, AnswerTree, ThenNewTree DEF UserCode
  <1>4. CASE Outside
    BY <1>4, TickTree, TimerTree, SettleTree, ContinuedTree DEF Outside
  <1> QED
    BY <1>1, <1>2, <1>3, <1>4 DEF Next

\* What is true of the tree as long as no timer has fired late.
TInv == NoLate(task) => TreeInv(task, stack)

LEMMA TreeInductive == IInv /\ TInv /\ [Next]_vars => TInv'
  <1> SUFFICES ASSUME IInv, TInv, [Next]_vars, NoLate(task') PROVE TreeInv(task', stack')
    BY DEF TInv
  <1>1. CASE Next
    <2>1. TreeStays
      BY <1>1, StepTree
    <2>2. NoLate(task)
      BY <2>1 DEF TreeStays, LateOn, NoLate
    <2> QED
      BY <2>1, <2>2 DEF TInv, TreeStays, TreeNow
  <1>2. CASE UNCHANGED vars
    BY <1>2 DEF vars, TInv
  <1> QED
    BY <1>1, <1>2

\* The first task is a root.
LEMMA TreeStarts == Init => TInv
  <1> SUFFICES ASSUME Init PROVE TreeInv(task, stack)
    BY DEF TInv
  <1> DEFINE T == [t \in Tasks |-> Unborn]
             y == [Unborn EXCEPT !.kind = plan.root, !.root = TRUE, !.by = Nobody]
             C == Create(T, 1, plan.root, Nobody)
             h == Frame("next", 1, Ok)
             B == BornIn(task)
             s == <<h>>
  <1>1. 1 \in Tasks /\ plan.root # "none"
    BY TasksAssumption, PlansAssumption DEF Tasks, Init, UserKinds
  <1>2. stack = <<h>> /\ task = [C EXCEPT ![1].by = Nobody]
    BY DEF Init
  <1>3. C = [T EXCEPT ![1] = y] /\ y.by = Nobody /\ DOMAIN T = Tasks /\ \A u \in Tasks : T[u] = Unborn
    BY DEF Create, Unborn
  <1>4. /\ y.kind = plan.root /\ y.root = TRUE /\ y.free = FALSE /\ y.done = FALSE
        /\ y.up = Nobody /\ y.down = Nobody /\ y.parent = Nobody /\ y.child = <<>>
        /\ y.atcont = None /\ y.arr = <<>> /\ [y EXCEPT !.by = Nobody] = y
    BY DEF Unborn
  <1> HIDE DEF y, T, C, h
  <1>5. task[1] = y /\ \A u \in Tasks : u # 1 => task[u] = Unborn
    <2>1. C[1] = y /\ DOMAIN C = Tasks /\ \A u \in Tasks : u # 1 => C[u] = Unborn
      BY <1>1, <1>3
    <2>2. task = [C EXCEPT ![1] = [C[1] EXCEPT !.by = Nobody]]
      BY <1>2
    <2> QED
      BY ONLY <1>1, <1>4, <2>1, <2>2
  <1>6. B = {1}
    <2>1. Unborn.kind = "none"
      BY DEF Unborn
    <2> QED
      BY <1>1, <1>4, <1>5, <2>1 DEF BornIn
  <1>7. Bare(task, 1) /\ ToSet(task[1].child) = {} /\ ToSet(task[1].arr) = {} /\ DOMAIN task[1].child = {}
    BY <1>4, <1>5 DEF Bare, ToSet
  <1>8. Links(task, B)
    BY <1>4, <1>5, <1>6, <1>7 DEF Links, IsInjective, Nobody
  <1>9. Hangs(task, B, {})
    BY <1>4, <1>5, <1>6 DEF Hangs, OnePlace
  <1>10. Ranked(task, B) /\ Spared(task, B)
    BY <1>4, <1>5, <1>6 DEF Ranked, Holder, Spared
  <1>11. Elders(task)
    BY <1>1, <1>3, <1>5, <1>6, <1>7 DEF Elders, Nobody, Tasks
  <1>12. Told(task)
    BY <1>4, <1>5, <1>6, OkIs DEF Told
  <1>13. Ended(task, stack)
    BY <1>4, <1>5, <1>6 DEF Ended
  <1>14. AllTree(stack, task)
    <2>1. h.f = "next"
      BY DEF h, Frame
    <2> QED
      BY <1>2, <2>1, OneTree, MildTree DEF Mild, Acts, Ends
  <1> QED
    BY <1>8, <1>9, <1>10, <1>11, <1>12, <1>13, <1>14 DEF TreeInv, Tree

\* A task that hangs as it should hangs in one place.
LEMMA OneOfFour ==
  ASSUME NEW x, OnePlace(x)
  PROVE  Cardinality({w \in {"root", "up", "parent", "free"} :
                           CASE w = "root" -> x.root
                             [] w = "up" -> x.up # Nobody
                             [] w = "parent" -> x.parent # Nobody
                             [] w = "free" -> x.free}) = 1
  <1> DEFINE S == {w \in {"root", "up", "parent", "free"} :
                           CASE w = "root" -> x.root
                             [] w = "up" -> x.up # Nobody
                             [] w = "parent" -> x.parent # Nobody
                             [] w = "free" -> x.free}
  <1>1. /\ "root" \in S <=> x.root
        /\ "up" \in S <=> x.up # Nobody
        /\ "parent" \in S <=> x.parent # Nobody
        /\ "free" \in S <=> x.free
        /\ S \subseteq {"root", "up", "parent", "free"}
    OBVIOUS
  <1> HIDE DEF S
  <1>2. \E w : S = {w}
    <2>1. CASE x.root
      <3>1. S = {"root"}
        BY <1>1, <2>1 DEF OnePlace
      <3> QED
        BY <3>1
    <2>2. CASE x.up # Nobody
      <3>1. S = {"up"}
        BY <1>1, <2>2 DEF OnePlace
      <3> QED
        BY <3>1
    <2>3. CASE x.parent # Nobody
      <3>1. S = {"parent"}
        BY <1>1, <2>3 DEF OnePlace
      <3> QED
        BY <3>1
    <2>4. CASE x.free
      <3>1. S = {"free"}
        BY <1>1, <2>4 DEF OnePlace
      <3> QED
        BY <3>1
    <2> QED
      BY <2>1, <2>2, <2>3, <2>4 DEF OnePlace
  <1>3. Cardinality(S) = 1
    BY <1>2, FS_Singleton
  <1> QED
    BY <1>3 DEF S

LEMMA TreeOnly == IInv /\ TInv => TreeRight
  <1> SUFFICES ASSUME IInv, TInv, NoneLate, NEW t \in Born
               PROVE  /\ (task[t].up # Nobody) => task[task[t].up].down = t
                      /\ (task[t].down # Nobody) => task[task[t].down].up = t
                      /\ \A p \in Born : (t \in ToSet(task[p].child)) <=> (task[t].parent = p)
                      /\ IsInjective(task[t].child)
                      /\ Cardinality({w \in {"root", "up", "parent", "free"} :
                                         CASE w = "root" -> task[t].root
                                           [] w = "up" -> task[t].up # Nobody
                                           [] w = "parent" -> task[t].parent # Nobody
                                           [] w = "free" -> task[t].free}) = 1
                      /\ Quiet => (task[t].free <=> (/\ task[t].done /\ task[t].child = <<>>
                                                     /\ task[t].down = Nobody))
    BY DEF TreeRight
  <1> DEFINE B == BornIn(task)
  <1>1. Born = B /\ t \in B
    BY DEF Born, BornIn
  <1>2. NoLate(task)
    BY DEF NoLate, NoneLate, Late, LateTask
  <1>3. Tree(task, B, {}) /\ Ended(task, stack)
    BY <1>2 DEF TInv, TreeInv
  <1>4. /\ (task[t].up # Nobody) => task[task[t].up].down = t
        /\ (task[t].down # Nobody) => task[task[t].down].up = t
        /\ \A p \in Born : (t \in ToSet(task[p].child)) <=> (task[t].parent = p)
        /\ IsInjective(task[t].child)
    BY <1>1, <1>3 DEF Tree, Links
  <1>5. OnePlace(task[t])
    BY <1>1, <1>3 DEF Tree, Hangs
  <1>6. Quiet => (task[t].free <=> task[t].done /\ Bare(task, t))
    <2>1. task[t].free => task[t].done /\ Bare(task, t)
      BY <1>1, <1>3 DEF Tree, Spared
    <2>2. task[t].done /\ Bare(task, t) => task[t].free \/ Has(stack, Ends, t)
      BY <1>1, <1>3 DEF Ended
    <2>3. Quiet => ~Has(stack, Ends, t)
      BY QuietIs
    <2>4. task[t].free \in BOOLEAN
      BY <1>1, Here DEF TreeTypes, BornIn
    <2> QED
      BY <2>1, <2>2, <2>3, <2>4
  <1> QED
    BY <1>4, <1>5, <1>6, OneOfFour DEF Bare

\* Where every task hangs (_set_down, spawn_parent, _parent_remove,
\* _check_free): under its caller, under its parent, among the roots or
\* nowhere because it is free, in one place only and known there, whatever
\* the program of the user and however many tasks; and when nothing runs a
\* task is free exactly when it and all under it have ended.
THEOREM TasksHang == Spec => []TreeRight
  <1>1. IInv /\ TInv /\ [Next]_vars => (IInv /\ TInv)'
    BY Inductive, TreeInductive
  <1>2. Init => IInv /\ TInv
    BY Starts, TreeStarts
  <1>3. IInv /\ TInv => TreeRight
    BY TreeOnly
  <1> QED
    BY <1>1, <1>2, <1>3, PTL DEF Spec
=============================================================================
