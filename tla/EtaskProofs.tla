---------------------------- MODULE EtaskProofs ----------------------------
(***************************************************************************)
(* The states of a task run one after another, for every number of tasks   *)
(* and every program of the user.                                          *)
(***************************************************************************)
EXTENDS Etask, FiniteSetTheorems, WellFoundedInduction, TLAPS

-----------------------------------------------------------------------------
\* Types, where B is the set of tasks that have been created.

Fields == {"kind", "cur", "next", "err", "run", "atret", "atcont", "wait", "wop",
           "won", "wdone", "seq", "timer", "stray", "late", "up", "down", "parent",
           "child", "root", "by", "fin", "then", "done", "free", "arr", "i"}
TreeFields == {"up", "down", "parent", "child", "root", "free"}
Kinds == {"gen", "raw", "leaf", "waiter", "for", "limit", "all", "none"}

BornIn(T) == {u \in Tasks : T[u].kind # "none"}
Ref(B) == B \cup {Nobody}
Answers == {"ok", "err", "none", "wait", "promise", "any", "all", "child", "task"}
Values(B) == {v \in [k : Answers, t : Tasks \cup {Nobody}, tmo : BOOLEAN] :
                 v.k \in {"task", "child"} => v.t \in B}
Tokens(B) == [t : B, n : Nat]

Shape(T) == DOMAIN T = Tasks /\ \A u \in Tasks : DOMAIN T[u] = Fields
IsTable(T) ==
    /\ Shape(T) /\ T = [u \in Tasks |-> T[u]]
    /\ \A u \in Tasks : T[u] = [f \in Fields |-> T[u][f]]
TreeTypes(T, B) ==
    \A u \in Tasks : /\ T[u].up \in Ref(B) /\ T[u].down \in Ref(B)
                     /\ T[u].parent \in Ref(B) /\ T[u].child \in Seq(B)
                     /\ T[u].root \in BOOLEAN /\ T[u].free \in BOOLEAN

-----------------------------------------------------------------------------
\* Recursive definitions over 0 .. K.

LEMMA LeastNat ==
  ASSUME NEW S, S \subseteq Nat, S # {}
  PROVE  \E n \in S : \A m \in S : n <= m
  <1> DEFINE R == {ss \in Nat \X Nat : ss[1] < ss[2]}
  <1>1. IsWellFoundedOn(R, Nat)
    BY NatLessThanWellFounded DEF OpToRel
  <1>2. PICK n \in S : \A m \in S : <<m, n>> \notin R
    <2> HIDE DEF R
    <2> QED
      BY <1>1, WFMin
  <1>3. ASSUME NEW m \in S, m < n PROVE FALSE
    <2>1. <<m, n>> \in Nat \X Nat /\ <<m, n>>[1] = m /\ <<m, n>>[2] = n
      OBVIOUS
    <2> QED
      BY <2>1, <1>2, <1>3
  <1> QED
    BY <1>3

LEMMA UpTo ==
  ASSUME NEW K \in Nat, NEW T, 0 \in T, \A k \in 1 .. K : k - 1 \in T => k \in T
  PROVE  \A k \in 0 .. K : k \in T
  <1> DEFINE Bad == {k \in 0 .. K : k \notin T}
  <1>1. SUFFICES ASSUME Bad # {} PROVE FALSE
    BY <1>1
  <1>2. PICK k \in Bad : \A i \in Bad : k <= i
    <2>1. Bad \subseteq Nat
      OBVIOUS
    <2> HIDE DEF Bad
    <2> QED
      BY <1>1, <2>1, LeastNat
  <1>3. k \in 0 .. K /\ k \notin T /\ k # 0
    OBVIOUS
  <1>4. k - 1 \in 0 .. K /\ k - 1 \notin Bad /\ k \in 1 .. K
    BY <1>2, <1>3
  <1> QED
    BY <1>3, <1>4

\* G gives the value of each number from that of the one before.
Steps(K, V) == [(1 .. K) \X V -> V]
Unrolled(f, V, base, K, G) ==
    /\ f \in [0 .. K -> V] /\ f[0] = base
    /\ \A k \in 1 .. K : f[k] = G[<<k, f[k - 1]>>]

LEMMA Recursion ==
  ASSUME NEW V, NEW base \in V, NEW K \in Nat, NEW G \in Steps(K, V)
  PROVE  \E f : Unrolled(f, V, base, K, G)
  <1>0. G \in [(1 .. K) \X V -> V]
    BY DEF Steps
  <1> DEFINE Is(f, j) == /\ f \in [0 .. j -> V] /\ f[0] = base
                         /\ \A k \in 1 .. j : f[k] = G[<<k, f[k - 1]>>]
             T == {j \in 0 .. K : \E f : Is(f, j)}
  <1>1. 0 \in T
    <2> DEFINE f == [k \in 0 .. 0 |-> base]
    <2>1. Is(f, 0)
      OBVIOUS
    <2>2. 0 \in 0 .. K
      OBVIOUS
    <2> HIDE DEF Is
    <2> QED
      BY <2>1, <2>2
  <1>2. ASSUME NEW j \in 1 .. K, j - 1 \in T PROVE j \in T
    <2>1. PICK f : Is(f, j - 1)
      BY <1>2
    <2>2. j \in Nat /\ j # 0 /\ j - 1 \in Nat
      OBVIOUS
    <2>3. f[j - 1] \in V
      BY <2>1, <2>2
    <2> DEFINE v == G[<<j, f[j - 1]>>]
               g == [k \in 0 .. j |-> IF k = j THEN v ELSE f[k]]
    <2>4. v \in V
      BY <1>0, <2>3
    <2> HIDE DEF v
    <2>5. g \in [0 .. j -> V]
      <3>1. \A k \in 0 .. j : k = j \/ k \in 0 .. j - 1
        BY <2>2
      <3> QED
        BY <2>1, <2>4, <3>1
    <2>6. g[0] = base /\ g[j] = v /\ \A k \in 0 .. j - 1 : g[k] = f[k]
      BY <2>1, <2>2
    <2> HIDE DEF g
    <2>7. ASSUME NEW k \in 1 .. j PROVE g[k] = G[<<k, g[k - 1]>>]
      <3>1. k - 1 \in 0 .. j - 1
        BY <2>2
      <3>2. g[k - 1] = f[k - 1]
        BY <2>6, <3>1
      <3>3. CASE k = j
        BY <2>6, <3>2, <3>3 DEF v
      <3>4. CASE k # j
        <4>1. k \in 1 .. j - 1 /\ k \in 0 .. j - 1
          BY <2>2, <3>4
        <4> QED
          BY <2>1, <2>6, <3>2, <4>1
      <3> QED
        BY <3>3, <3>4
    <2>8. Is(g, j)
      BY <2>5, <2>6, <2>7
    <2> HIDE DEF Is
    <2>9. j \in 0 .. K
      OBVIOUS
    <2> QED
      BY <2>8, <2>9
  <1>3. K \in 0 .. K
    OBVIOUS
  <1>4. K \in T
    <2> HIDE DEF T
    <2> QED
      BY <1>1, <1>2, <1>3, UpTo
  <1> QED
    BY <1>4 DEF Unrolled

-----------------------------------------------------------------------------
\* Only the tree has changed, and its types are kept.

TreeKept(T, R, B) ==
    /\ IsTable(R) /\ TreeTypes(R, B)
    /\ \A u \in Tasks, f \in Fields \ TreeFields : R[u][f] = T[u][f]

LEMMA RemoveFirstSeq ==
  ASSUME NEW S, NEW s \in Seq(S), NEW e
  PROVE  RemoveFirst(s, e) \in Seq(S)
  <1> DEFINE Is == {i \in 1 .. Len(s) : s[i] = e}
             k == IF Is # {} THEN Min(Is) ELSE 0
  <1>1. CASE ~ \E i \in 1 .. Len(s) : s[i] = e
    BY <1>1 DEF RemoveFirst
  <1>2. CASE \E i \in 1 .. Len(s) : s[i] = e
    <2>1. Is # {} /\ Is \subseteq Nat
      BY <1>2
    <2>2. Min(Is) \in Is
      <3> HIDE DEF Is
      <3>1. \E n \in Is : \A m \in Is : n <= m
        BY <2>1, LeastNat
      <3> QED
        BY <3>1 DEF Min
    <2>3. k \in 1 .. Len(s)
      BY <2>1, <2>2
    <2>4. RemoveFirst(s, e) = RemoveAt(s, k)
      BY <1>2 DEF RemoveFirst, SelectInSeq
    <2> HIDE DEF k
    <2>5. RemoveAt(s, k) \in Seq(S)
      BY <2>3 DEF RemoveAt
    <2> QED
      BY <2>4, <2>5
  <1> QED
    BY <1>1, <1>2

LEMMA UnhangKept ==
  ASSUME NEW B \in SUBSET Tasks, NEW T, IsTable(T), TreeTypes(T, B), NEW t \in B
  PROVE  TreeKept(T, Unhang(T, t), B) /\ Holder(T, t) \in Ref(B)
  <1> DEFINE u == T[t].up
             p == T[t].parent
  <1>1. u \in Ref(B) /\ p \in Ref(B) /\ t \in Tasks /\ Nobody \in Ref(B)
    BY DEF TreeTypes, Ref
  <1>2. Holder(T, t) \in Ref(B)
    BY <1>1 DEF Holder
  <1>3. CASE u # Nobody
    <2> DEFINE R == [T EXCEPT ![t].up = Nobody, ![u].down = Nobody]
    <2>1. Unhang(T, t) = R
      BY <1>3 DEF Unhang
    <2>2. IsTable(R)
      BY DEF IsTable, Shape
    <2>0. Shape(T)
      BY DEF IsTable
    <2>3. TreeTypes(R, B)
      BY <1>1, <2>0 DEF Shape, TreeTypes, Fields
    <2>4. \A v \in Tasks, f \in Fields \ TreeFields : R[v][f] = T[v][f]
      BY <2>0 DEF Shape, Fields, TreeFields
    <2> QED
      BY <1>2, <2>1, <2>2, <2>3, <2>4 DEF TreeKept
  <1>4. CASE u = Nobody /\ p # Nobody
    <2> DEFINE R == [T EXCEPT ![t].parent = Nobody, ![p].child = RemoveFirst(@, t)]
    <2>1. Unhang(T, t) = R
      BY <1>4 DEF Unhang
    <2>2. IsTable(R)
      BY DEF IsTable, Shape
    <2>0. Shape(T)
      BY DEF IsTable
    <2>3. TreeTypes(R, B)
      <3>1. \A v \in Tasks : RemoveFirst(T[v].child, t) \in Seq(B)
        BY RemoveFirstSeq DEF TreeTypes
      <3>2. ASSUME NEW v \in Tasks PROVE R[v].child \in Seq(B)
        BY <2>0, <3>1 DEF Shape, TreeTypes, Fields
      <3>3. ASSUME NEW v \in Tasks
            PROVE  /\ R[v].up \in Ref(B) /\ R[v].down \in Ref(B) /\ R[v].parent \in Ref(B)
                   /\ R[v].root \in BOOLEAN /\ R[v].free \in BOOLEAN
        BY <1>1, <2>0 DEF Shape, TreeTypes, Fields
      <3> QED
        BY <3>2, <3>3 DEF TreeTypes
    <2>4. \A v \in Tasks, f \in Fields \ TreeFields : R[v][f] = T[v][f]
      BY <2>0 DEF Shape, Fields, TreeFields
    <2> QED
      BY <1>2, <2>1, <2>2, <2>3, <2>4 DEF TreeKept
  <1>5. CASE u = Nobody /\ p = Nobody
    <2> DEFINE R == [T EXCEPT ![t].root = FALSE]
    <2>1. Unhang(T, t) = R
      BY <1>5 DEF Unhang
    <2>2. IsTable(R)
      BY DEF IsTable, Shape
    <2>0. Shape(T)
      BY DEF IsTable
    <2>3. TreeTypes(R, B)
      BY <1>1, <2>0 DEF Shape, TreeTypes, Fields
    <2>4. \A v \in Tasks, f \in Fields \ TreeFields : R[v][f] = T[v][f]
      BY <2>0 DEF Shape, Fields, TreeFields
    <2> QED
      BY <1>2, <2>1, <2>2, <2>3, <2>4 DEF TreeKept
  <1> QED
    BY <1>3, <1>4, <1>5

LEMMA TreeKeptTrans ==
  ASSUME NEW B, NEW T, NEW R, NEW Q, TreeKept(T, R, B), TreeKept(R, Q, B)
  PROVE  TreeKept(T, Q, B)
  BY DEF TreeKept

LEMMA TreeKeptSelf ==
  ASSUME NEW B, NEW T, IsTable(T), TreeTypes(T, B)
  PROVE  TreeKept(T, T, B)
  BY DEF TreeKept

LEMMA FreedKept ==
  ASSUME NEW B, NEW T, NEW R, TreeKept(T, R, B), NEW t \in Tasks
  PROVE  TreeKept(T, [R EXCEPT ![t].free = TRUE], B)
  <1> DEFINE Q == [R EXCEPT ![t].free = TRUE]
  <1>0. Shape(R)
    BY DEF IsTable, TreeKept
  <1>1. IsTable(Q)
    BY DEF Shape, IsTable, TreeKept
  <1>2. TreeTypes(Q, B)
    BY <1>0, ZenonT(40) DEF Shape, TreeKept, TreeTypes, Fields
  <1>3. \A v \in Tasks, f \in Fields \ TreeFields : Q[v][f] = T[v][f]
    BY <1>0 DEF Shape, TreeKept, Fields, TreeFields
  <1> QED
    BY <1>1, <1>2, <1>3 DEF TreeKept

\* A climb of ParentRemove goes through states in which only the tree changes.
Old(T) == {T[u][f] : u \in Tasks, f \in Fields}
Climbs(T, B) ==
    {c \in [T : [Tasks -> [Fields -> Old(T) \cup Ref(B) \cup Seq(B) \cup BOOLEAN]],
            at : Ref(B)] : TreeKept(T, c.T, B)}
Climb(c) ==
    IF c.at # Nobody /\ c.T[c.at].done /\ Bare(c.T, c.at)
    THEN [T |-> [Unhang(c.T, c.at) EXCEPT ![c.at].free = TRUE],
          at |-> Holder(c.T, c.at)]
    ELSE [c EXCEPT !.at = Nobody]

LEMMA ClimbIn ==
  ASSUME NEW B, NEW T, NEW R, TreeKept(T, R, B), NEW a \in Ref(B)
  PROVE  [T |-> R, at |-> a] \in Climbs(T, B)
  <1> DEFINE V == Old(T) \cup Ref(B) \cup Seq(B) \cup BOOLEAN
  <1>1. ASSUME NEW u \in Tasks, NEW f \in Fields PROVE R[u][f] \in V
    <2>1. CASE f \in TreeFields
      BY <2>1 DEF TreeKept, TreeTypes, TreeFields
    <2>2. CASE f \notin TreeFields
      BY <2>2 DEF TreeKept, Old
    <2> QED
      BY <2>1, <2>2
  <1> HIDE DEF V
  <1>2. R \in [Tasks -> [Fields -> V]]
    BY <1>1 DEF TreeKept, IsTable, Shape
  <1> QED
    BY <1>2 DEF Climbs, V

\* c are the states of the climb from t.
ClimbsTo(c, T, t, B) ==
    /\ \A k \in 0 .. NumTasks : c[k] \in Climbs(T, B)
    /\ c[0] = [T |-> Unhang(T, t), at |-> Holder(T, t)]
    /\ \A k \in 1 .. NumTasks : c[k] = Climb(c[k - 1])
    /\ ParentRemove(T, t) = c[NumTasks].T

LEMMA ClimbOf ==
  ASSUME NEW B \in SUBSET Tasks, NEW T, IsTable(T), TreeTypes(T, B), NEW t \in B
  PROVE  \E c : ClimbsTo(c, T, t, B)
  <1> DEFINE K == NumTasks
             V == Climbs(T, B)
             base == [T |-> Unhang(T, t), at |-> Holder(T, t)]
             G == [kc \in (1 .. K) \X V |-> Climb(kc[2])]
             Is(g) == g = [k \in 0 .. K |-> IF k = 0 THEN base ELSE Climb(g[k - 1])]
             c == CHOOSE g : Is(g)
  <1>1. K \in Nat /\ K \in 0 .. K
    BY TasksAssumption
  <1>2. base \in V
    BY UnhangKept, ClimbIn
  <1>3. ASSUME NEW d \in V PROVE Climb(d) \in V
    <2>1. TreeKept(T, d.T, B) /\ d.at \in Ref(B) /\ d = [T |-> d.T, at |-> d.at]
      BY DEF Climbs
    <2>2. CASE d.at # Nobody /\ d.T[d.at].done /\ Bare(d.T, d.at)
      <3>1. d.at \in B /\ IsTable(d.T) /\ TreeTypes(d.T, B)
        BY <2>1, <2>2 DEF Ref, TreeKept
      <3>2. TreeKept(d.T, Unhang(d.T, d.at), B) /\ Holder(d.T, d.at) \in Ref(B)
        BY <3>1, UnhangKept
      <3>3. TreeKept(T, Unhang(d.T, d.at), B)
        BY <2>1, <3>2, TreeKeptTrans
      <3>4. TreeKept(T, [Unhang(d.T, d.at) EXCEPT ![d.at].free = TRUE], B)
        BY <3>1, <3>3, FreedKept
      <3> QED
        BY <2>2, <3>2, <3>4, ClimbIn DEF Climb
    <2>3. CASE ~(d.at # Nobody /\ d.T[d.at].done /\ Bare(d.T, d.at))
      <3>1. Climb(d) = [T |-> d.T, at |-> Nobody]
        BY <2>1, <2>3 DEF Climb
      <3> QED
        BY <2>1, <3>1, ClimbIn DEF Ref
    <2> QED
      BY <2>2, <2>3
  <1>4. G \in Steps(K, V)
    <2> HIDE DEF V
    <2> QED
      BY <1>3 DEF Steps
  <1>5. PICK f : Unrolled(f, V, base, K, G)
    <2> HIDE DEF V, base, G, K
    <2> QED
      BY <1>1, <1>2, <1>4, Recursion
  <1>6. Is(f)
    <2>1. ASSUME NEW k \in 0 .. K, k # 0 PROVE f[k] = Climb(f[k - 1])
      <3>1. k \in 1 .. K /\ k - 1 \in 0 .. K
        BY <1>1, <2>1
      <3>2. f[k - 1] \in V /\ f[k] = G[<<k, f[k - 1]>>]
        BY <1>5, <3>1 DEF Unrolled
      <3> HIDE DEF V
      <3> QED
        BY <3>1, <3>2
    <2>2. f \in [0 .. K -> V] /\ f[0] = base
      BY <1>5 DEF Unrolled
    <2> HIDE DEF V, base
    <2> QED
      BY <2>1, <2>2
  <1>7. Is(c)
    <2> HIDE DEF Is
    <2> QED
      BY <1>6
  <1>8. c[0] = base /\ \A k \in 1 .. K : c[k] = Climb(c[k - 1])
    <2>1. \A k \in 1 .. K : k \in 0 .. K /\ k # 0
      BY <1>1
    <2>2. 0 \in 0 .. K
      BY <1>1
    <2> HIDE DEF c, base
    <2> QED
      BY <1>7, <2>1, <2>2
  <1>9. \A k \in 0 .. K : c[k] \in V
    <2> DEFINE S == {k \in 0 .. K : c[k] \in V}
    <2>1. 0 \in S
      <3> HIDE DEF V, base, c
      <3> QED
        BY <1>1, <1>2, <1>8
    <2>2. ASSUME NEW k \in 1 .. K, k - 1 \in S PROVE k \in S
      <3>1. c[k] = Climb(c[k - 1]) /\ k \in 0 .. K
        BY <1>1, <1>8
      <3> HIDE DEF V, c
      <3> QED
        BY <1>3, <2>2, <3>1
    <2> HIDE DEF S
    <2>3. \A k \in 0 .. K : k \in S
      BY <1>1, <2>1, <2>2, UpTo
    <2> QED
      BY <2>3 DEF S
  <1>10. ParentRemove(T, t) = c[K].T
    BY DEF ParentRemove, Climb
  <1> HIDE DEF c
  <1> QED
    BY <1>8, <1>9, <1>10 DEF ClimbsTo

LEMMA ParentRemoveKept ==
  ASSUME NEW B \in SUBSET Tasks, NEW T, IsTable(T), TreeTypes(T, B), NEW t \in B
  PROVE  TreeKept(T, ParentRemove(T, t), B)
  <1>1. PICK c : ClimbsTo(c, T, t, B)
    BY ClimbOf
  <1>2. NumTasks \in 0 .. NumTasks
    BY TasksAssumption
  <1> QED
    BY <1>1, <1>2 DEF ClimbsTo, Climbs

LEMMA CheckFreeKept ==
  ASSUME NEW B \in SUBSET Tasks, NEW T, IsTable(T), TreeTypes(T, B), NEW t \in B
  PROVE  TreeKept(T, CheckFree(T, t), B)
  BY ParentRemoveKept, FreedKept, TreeKeptSelf DEF CheckFree

LEMMA SpawnParentKept ==
  ASSUME NEW B \in SUBSET Tasks, NEW T, IsTable(T), TreeTypes(T, B), NEW t \in B, NEW p \in Ref(B)
  PROVE  TreeKept(T, SpawnParent(T, t, p), B)
  <1> DEFINE R == ParentRemove(T, t)
  <1>1. TreeKept(T, R, B)
    BY ParentRemoveKept
  <1>2. CASE T[t].done /\ T[t].parent = Nobody
    BY <1>2, TreeKeptSelf DEF SpawnParent
  <1>3. CASE ~(T[t].done /\ T[t].parent = Nobody) /\ (p = Nobody \/ R[p].free)
    <2> DEFINE Q == [R EXCEPT ![t].root = TRUE]
    <2>1. SpawnParent(T, t, p) = Q
      BY <1>3 DEF SpawnParent
    <2> HIDE DEF R
    <2>2. IsTable(R) /\ Shape(R) /\ TreeTypes(R, B) /\ t \in Tasks
      BY <1>1 DEF TreeKept, IsTable
    <2>3. IsTable(Q)
      BY <2>2 DEF IsTable, Shape
    <2>4. TreeTypes(Q, B)
      BY <2>2, ZenonT(40) DEF Shape, TreeTypes, Fields
    <2>5. \A v \in Tasks, f \in Fields \ TreeFields : Q[v][f] = R[v][f]
      BY <2>2 DEF Shape, Fields, TreeFields
    <2>6. TreeKept(R, Q, B)
      BY <2>3, <2>4, <2>5 DEF TreeKept
    <2> QED
      BY <1>1, <2>1, <2>6, TreeKeptTrans
  <1>4. CASE ~(T[t].done /\ T[t].parent = Nobody) /\ ~(p = Nobody \/ R[p].free)
    <2> DEFINE Q == [R EXCEPT ![t].parent = p, ![p].child = Append(@, t)]
    <2>1. SpawnParent(T, t, p) = Q
      BY <1>4 DEF SpawnParent
    <2> HIDE DEF R
    <2>2. IsTable(R) /\ Shape(R) /\ TreeTypes(R, B) /\ t \in Tasks /\ p \in Tasks
      BY <1>1, <1>4 DEF TreeKept, IsTable, Ref
    <2>3. IsTable(Q)
      BY <2>2 DEF IsTable, Shape
    <2>4. TreeTypes(Q, B)
      <3>1. ASSUME NEW v \in Tasks PROVE Q[v].child \in Seq(B)
        <4>1. R[v].child \in Seq(B) /\ Append(R[v].child, t) \in Seq(B)
          BY <2>2 DEF TreeTypes
        <4>2. Q[v].child \in {R[v].child, Append(R[v].child, t)}
          BY <2>2 DEF Shape, Fields
        <4> QED
          BY <4>1, <4>2
      <3>2. ASSUME NEW v \in Tasks
            PROVE  /\ Q[v].up \in Ref(B) /\ Q[v].down \in Ref(B) /\ Q[v].parent \in Ref(B)
                   /\ Q[v].root \in BOOLEAN /\ Q[v].free \in BOOLEAN
        <4>1. Q[v].up = R[v].up /\ Q[v].down = R[v].down /\ Q[v].root = R[v].root /\ Q[v].free = R[v].free
          BY <2>2, ZenonT(40) DEF Shape, Fields
        <4>2. Q[v].parent = R[v].parent \/ Q[v].parent = p
          BY <2>2, ZenonT(40) DEF Shape, Fields
        <4>3. p \in Ref(B)
          BY DEF Ref
        <4> QED
          BY <2>2, <4>1, <4>2, <4>3 DEF TreeTypes
      <3> QED
        BY <3>1, <3>2 DEF TreeTypes
    <2>5. \A v \in Tasks, f \in Fields \ TreeFields : Q[v][f] = R[v][f]
      BY <2>2 DEF Shape, Fields, TreeFields
    <2>6. TreeKept(R, Q, B)
      BY <2>3, <2>4, <2>5 DEF TreeKept
    <2> QED
      BY <1>1, <2>1, <2>6, TreeKeptTrans
  <1> QED
    BY <1>2, <1>3, <1>4

LEMMA SetDownKept ==
  ASSUME NEW B \in SUBSET Tasks, NEW T, IsTable(T), TreeTypes(T, B), NEW t \in B, NEW d \in B
  PROVE  TreeKept(T, SetDown(T, t, d), B)
  <1> DEFINE R == ParentRemove(T, d)
             Q == [R EXCEPT ![t].down = d, ![d].up = t]
  <1>1. TreeKept(T, R, B)
    BY ParentRemoveKept
  <1>2. SetDown(T, t, d) = Q
    BY DEF SetDown
  <1> HIDE DEF R
  <1>3. IsTable(R) /\ Shape(R) /\ TreeTypes(R, B) /\ t \in Tasks /\ d \in Tasks
    BY <1>1 DEF TreeKept, IsTable
  <1>4. IsTable(Q)
    BY <1>3 DEF IsTable, Shape
  <1>5. TreeTypes(Q, B)
    <2>1. t \in Ref(B) /\ d \in Ref(B)
      BY DEF Ref
    <2>2. ASSUME NEW v \in Tasks
          PROVE  /\ Q[v].up \in {R[v].up, t} /\ Q[v].down \in {R[v].down, d}
                 /\ Q[v].parent = R[v].parent /\ Q[v].child = R[v].child
                 /\ Q[v].root = R[v].root /\ Q[v].free = R[v].free
      BY <1>3 DEF Shape, Fields
    <2> HIDE DEF Q
    <2> QED
      BY <1>3, <2>1, <2>2 DEF TreeTypes
  <1>6. \A v \in Tasks, f \in Fields \ TreeFields : Q[v][f] = R[v][f]
    BY <1>3 DEF Shape, Fields, TreeFields
  <1>7. TreeKept(R, Q, B)
    BY <1>4, <1>5, <1>6 DEF TreeKept
  <1> QED
    BY <1>1, <1>2, <1>7, TreeKeptTrans

LEMMA KeepUnderUpKept ==
  ASSUME NEW B \in SUBSET Tasks, NEW T, IsTable(T), TreeTypes(T, B), NEW t \in B
  PROVE  TreeKept(T, KeepUnderUp(T, t), B)
  <1> DEFINE u == T[t].up
             Q == [T EXCEPT ![t].up = Nobody, ![u].down = Nobody, ![t].parent = u,
                            ![u].child = Append(@, t)]
  <1>1. CASE u = Nobody \/ (T[t].down = Nobody /\ T[t].child = <<>>)
    BY <1>1, TreeKeptSelf DEF KeepUnderUp
  <1>2. CASE ~(u = Nobody \/ (T[t].down = Nobody /\ T[t].child = <<>>))
    <2>1. KeepUnderUp(T, t) = Q
      BY <1>2 DEF KeepUnderUp
    <2>2. Shape(T) /\ t \in Tasks /\ u \in Tasks /\ u \in B
      BY <1>2 DEF IsTable, TreeTypes, Ref
    <2>3. IsTable(Q)
      BY <2>2, ZenonT(40) DEF IsTable, Shape
    <2>4. TreeTypes(Q, B)
      <3> HIDE DEF u
      <3>1. ASSUME NEW v \in Tasks PROVE Q[v].child \in Seq(B)
        <4>1. T[v].child \in Seq(B) /\ Append(T[v].child, t) \in Seq(B)
          BY DEF TreeTypes
        <4>2. Q[v].child \in {T[v].child, Append(T[v].child, t)}
          BY <2>2 DEF Shape, Fields
        <4> QED
          BY <4>1, <4>2
      <3>2. ASSUME NEW v \in Tasks
            PROVE  /\ Q[v].up \in Ref(B) /\ Q[v].down \in Ref(B) /\ Q[v].parent \in Ref(B)
                   /\ Q[v].root \in BOOLEAN /\ Q[v].free \in BOOLEAN
        <4>1. u \in Ref(B) /\ Nobody \in Ref(B)
          BY <2>2 DEF Ref
        <4>2. Q[v].up \in {T[v].up, Nobody} /\ Q[v].down \in {T[v].down, Nobody}
          BY <2>2 DEF Shape, Fields
        <4>3. Q[v].parent \in {T[v].parent, u}
          BY <2>2 DEF Shape, Fields
        <4>4. Q[v].root = T[v].root /\ Q[v].free = T[v].free
          BY <2>2 DEF Shape, Fields
        <4> HIDE DEF Q
        <4> QED
          BY <4>1, <4>2, <4>3, <4>4 DEF TreeTypes
      <3> QED
        BY <3>1, <3>2 DEF TreeTypes
    <2>5. \A v \in Tasks, f \in Fields \ TreeFields : Q[v][f] = T[v][f]
      BY <2>2, ZenonT(40) DEF Shape, Fields, TreeFields
    <2> QED
      BY <2>1, <2>3, <2>4, <2>5 DEF TreeKept
  <1> QED
    BY <1>1, <1>2

\* all makes the tasks of its list its children one by one.
Trees(T, B) ==
    {R \in [Tasks -> [Fields -> Old(T) \cup Ref(B) \cup Seq(B) \cup BOOLEAN]] : TreeKept(T, R, B)}

LEMMA TreesIn ==
  ASSUME NEW B, NEW T, NEW R, TreeKept(T, R, B)
  PROVE  R \in Trees(T, B)
  <1>1. [T |-> R, at |-> Nobody] \in Climbs(T, B)
    BY ClimbIn DEF Ref
  <1> QED
    BY <1>1 DEF Climbs, Trees

\* to are the tables as the tasks of a are adopted.
Adopts(to, T, a, p, B) ==
    /\ \A k \in 0 .. Len(a) : TreeKept(T, to[k], B)
    /\ to[0] = T
    /\ \A k \in 1 .. Len(a) : to[k] = SpawnParent(to[k - 1], a[k], p)
    /\ Adopt(T, a, p) = to[Len(a)]

LEMMA AdoptOf ==
  ASSUME NEW B \in SUBSET Tasks, NEW T, IsTable(T), TreeTypes(T, B), NEW a \in Seq(B), NEW p \in B
  PROVE  \E to : Adopts(to, T, a, p, B)
  <1> DEFINE K == Len(a)
             V == Trees(T, B)
             G == [kr \in (1 .. K) \X V |-> SpawnParent(kr[2], a[kr[1]], p)]
             Is(g) == g = [k \in 0 .. K |-> IF k = 0 THEN T ELSE SpawnParent(g[k - 1], a[k], p)]
             to == CHOOSE g : Is(g)
  <1>1. K \in Nat /\ K \in 0 .. K
    OBVIOUS
  <1>2. T \in V
    BY TreeKeptSelf, TreesIn
  <1>3. ASSUME NEW R \in V, NEW k \in 1 .. K PROVE SpawnParent(R, a[k], p) \in V
    <2>1. TreeKept(T, R, B) /\ IsTable(R) /\ TreeTypes(R, B)
      BY DEF Trees, TreeKept
    <2>2. a[k] \in B /\ p \in Ref(B)
      BY DEF Ref
    <2>3. TreeKept(R, SpawnParent(R, a[k], p), B)
      BY <2>1, <2>2, SpawnParentKept
    <2> QED
      BY <2>1, <2>3, TreeKeptTrans, TreesIn
  <1>4. G \in Steps(K, V)
    <2> HIDE DEF V
    <2> QED
      BY <1>3 DEF Steps
  <1>5. PICK f : Unrolled(f, V, T, K, G)
    <2> HIDE DEF V, G, K
    <2> QED
      BY <1>1, <1>2, <1>4, Recursion
  <1>6. Is(f)
    <2>1. ASSUME NEW k \in 0 .. K, k # 0 PROVE f[k] = SpawnParent(f[k - 1], a[k], p)
      <3>1. k \in 1 .. K /\ k - 1 \in 0 .. K
        BY <1>1, <2>1
      <3>2. f[k - 1] \in V /\ f[k] = G[<<k, f[k - 1]>>]
        BY <1>5, <3>1 DEF Unrolled
      <3> HIDE DEF V
      <3> QED
        BY <3>1, <3>2
    <2>2. f \in [0 .. K -> V] /\ f[0] = T
      BY <1>5 DEF Unrolled
    <2> HIDE DEF V
    <2> QED
      BY <2>1, <2>2
  <1>7. Is(to)
    <2> HIDE DEF Is
    <2> QED
      BY <1>6
  <1>8. to[0] = T /\ \A k \in 1 .. K : to[k] = SpawnParent(to[k - 1], a[k], p)
    <2>1. \A k \in 1 .. K : k \in 0 .. K /\ k # 0
      BY <1>1
    <2>2. 0 \in 0 .. K
      BY <1>1
    <2> HIDE DEF to
    <2> QED
      BY <1>7, <2>1, <2>2
  <1>9. \A k \in 0 .. K : to[k] \in V
    <2> DEFINE S == {k \in 0 .. K : to[k] \in V}
    <2>1. 0 \in S
      <3> HIDE DEF V, to
      <3> QED
        BY <1>1, <1>2, <1>8
    <2>2. ASSUME NEW k \in 1 .. K, k - 1 \in S PROVE k \in S
      <3>1. to[k] = SpawnParent(to[k - 1], a[k], p) /\ k \in 0 .. K
        BY <1>1, <1>8
      <3> HIDE DEF V, to
      <3> QED
        BY <1>3, <2>2, <3>1
    <2> HIDE DEF S
    <2>3. \A k \in 0 .. K : k \in S
      BY <1>1, <2>1, <2>2, UpTo
    <2> QED
      BY <2>3 DEF S
  <1>10. Adopt(T, a, p) = to[K]
    BY DEF Adopt
  <1> HIDE DEF to
  <1>11. \A k \in 0 .. K : TreeKept(T, to[k], B)
    BY <1>9 DEF Trees
  <1> QED
    BY <1>8, <1>10, <1>11 DEF Adopts

LEMMA AdoptKept ==
  ASSUME NEW B \in SUBSET Tasks, NEW T, IsTable(T), TreeTypes(T, B), NEW a \in Seq(B), NEW p \in B
  PROVE  TreeKept(T, Adopt(T, a, p), B)
  <1>1. PICK to : Adopts(to, T, a, p, B)
    BY AdoptOf
  <1>2. Len(a) \in 0 .. Len(a)
    OBVIOUS
  <1> QED
    BY <1>1, <1>2 DEF Adopts

-----------------------------------------------------------------------------
\* The invariant.  x is the record of a task, s the stack and k the ticks.

One == {"leaf", "waiter"}                 \* kinds with one state
Timed == {"gen", "raw", "leaf"}           \* kinds that wait with a timeout
Handless == {"raw", "leaf"}               \* kinds whose timers could lose their handle
Acts == {"body", "call", "iter", "after"} \* the frames that are part of a state

LateTask(x) == x.kind = "raw" /\ x.late
Firm(x) == x.kind \notin One /\ ~LateTask(x)
Closed(x) == x.wait = 0 \/ x.wdone
\* A generator that its timer wakes goes on to its third state.
Third(x) == x.kind = "gen" => x.cur >= 2 /\ x.next = 0
\* A generator waits in its second state.
Asking(x) == x.kind = "gen" => x.cur = 2 /\ x.next = 0

WaitersIn(T) == {u \in Tasks : T[u].kind = "waiter"}
DataOK(x, B, W) ==
    /\ x.kind \in Kinds
    /\ x.cur \in Nat /\ x.next \in Nat /\ x.wait \in Nat /\ x.seq \in Nat /\ x.i \in Nat
    /\ x.by \in Ref(B) /\ x.arr \in Seq(B) /\ x.atcont \in Values(B)
    /\ x.fin \in Seq({w \in Tokens(B) : w.n # 0})
    /\ x.then \in Seq({w \in Tokens(B) : w.n = 0 => w.t \in W})
Types(T, B, W) ==
    IsTable(T) /\ TreeTypes(T, B) /\ \A u \in Tasks : DataOK(T[u], B, W)

Calls == {"next", "body", "call", "iter", "after", "got", "start", "spawn", "continue", "return",
          "depth", "cancel", "end", "complete", "child", "leave", "then"}
Frames(B) == {f \in [f : Calls, t : B, v : Values(B), n : Nat] :
                 f.f \in {"got", "start"} => f.n # 0}
Ticks(B) == {f \in Frames(B) : f.f \in {"next", "start"}}

\* A frame of a state belongs to a task whose state runs.
ActOK(f, x) ==
    /\ x.cur # 0
    /\ x.run = "yes" \/ LateTask(x)
    /\ f.f = "body" /\ x.kind = "gen" => x.next = 0
    /\ x.kind = "gen" /\ x.cur = 2 => ~x.timer
    /\ f.f = "after" /\ f.v.tmo => x.kind \in Timed /\ Asking(x)
    /\ f.f = "call" => ~f.v.tmo
    /\ f.f = "iter" => x.kind = "limit"
FrameOK(f, T) ==
    /\ f.f \in Acts => ActOK(f, T[f.t])
    /\ f.f = "return" => T[f.t].atret
AllOK(s, T) == \A i \in DOMAIN s : FrameOK(s[i], T)

Has(s, F, t) == \E i \in DOMAIN s : s[i].f \in F /\ s[i].t = t
Once(s, F, t) ==
    \A i, j \in DOMAIN s :
        s[i].f \in F /\ s[i].t = t /\ s[j].f \in F /\ s[j].t = t => i = j
IsTop(s, f, t) == s # <<>> /\ Head(s).f = f /\ Head(s).t = t
\* Only the frame on top is about to choose a state or has just run one.
Inner(s) == \A i \in DOMAIN s : s[i].f \notin {"next", "after"}

TaskOK(x) ==
    /\ x.timer => x.kind \in Timed /\ Third(x)
    /\ x.stray # 0 => x.kind \in Handless
    /\ x.kind \in One => x.next = 0
    /\ x.kind = "none" => x.run = "never" /\ Closed(x)

\* A call is about to continue t.
Pending(s, k, t) == Has(s, {"continue"}, t) \/ Has(k, {"next"}, t)
PendingOK(x, s, k, t) ==
    /\ Once(s, {"continue"}, t) /\ Once(k, {"next"}, t)
    /\ ~(Has(s, {"continue"}, t) /\ Has(k, {"next"}, t))
    /\ Closed(x) /\ x.run # "yes" /\ x.kind # "none"
    /\ IsTop(s, "next", t) => x.atret

Lives(x, s, k, t) ==
    /\ LateTask(x) \/ Once(s, Acts, t)
    /\ x.run = "yes" /\ ~LateTask(x) => Has(s, Acts, t)
    /\ Firm(x) /\ IsTop(s, "next", t) => ~Has(s, Acts, t) /\ (Closed(x) \/ (x.kind = "gen" /\ Third(x)))
    /\ Firm(x) /\ Pending(s, k, t) => PendingOK(x, s, k, t)

Core(T, s, k) ==
    /\ Types(T, BornIn(T), WaitersIn(T))
    /\ s \in Seq(Frames(BornIn(T))) /\ k \in Seq(Ticks(BornIn(T)))
    /\ AllOK(s, T) /\ (s # <<>> => Inner(Tail(s)))
    /\ \A t \in Tasks : TaskOK(T[t]) /\ Lives(T[t], s, k, t)

\* A wait is over when the next state runs, but for a generator whose timer
\* has woken it.
AllClosed(T) == \A t \in Tasks : Firm(T[t]) /\ T[t].run = "yes" => Closed(T[t])
Woken(T, s, t) == IsTop(s, "body", t) /\ T[t].kind = "gen" /\ T[t].cur = 3
MostClosed(T, s) ==
    \A t \in Tasks : Firm(T[t]) /\ T[t].run = "yes" => Closed(T[t]) \/ Woken(T, s, t)

IInv ==
    /\ Core(task, stack, tick) /\ MostClosed(task, stack)
    /\ plan \in Plans

-----------------------------------------------------------------------------
\* Sequences of frames.

LEMMA HasConcat ==
  ASSUME NEW S, NEW a \in Seq(S), NEW b \in Seq(S), NEW F, NEW t
  PROVE  Has(a \o b, F, t) <=> Has(a, F, t) \/ Has(b, F, t)
  <1>1. ASSUME Has(a, F, t) PROVE Has(a \o b, F, t)
    <2>1. PICK i \in DOMAIN a : a[i].f \in F /\ a[i].t = t
      BY <1>1 DEF Has
    <2>2. i \in DOMAIN (a \o b) /\ (a \o b)[i] = a[i]
      OBVIOUS
    <2> QED
      BY <2>1, <2>2 DEF Has
  <1>2. ASSUME Has(b, F, t) PROVE Has(a \o b, F, t)
    <2>1. PICK i \in DOMAIN b : b[i].f \in F /\ b[i].t = t
      BY <1>2 DEF Has
    <2>2. Len(a) + i \in DOMAIN (a \o b) /\ (a \o b)[Len(a) + i] = b[i]
      OBVIOUS
    <2> QED
      BY <2>1, <2>2 DEF Has
  <1>3. ASSUME Has(a \o b, F, t) PROVE Has(a, F, t) \/ Has(b, F, t)
    <2>1. PICK i \in DOMAIN (a \o b) : (a \o b)[i].f \in F /\ (a \o b)[i].t = t
      BY <1>3 DEF Has
    <2>2. CASE i \in DOMAIN a
      <3>1. (a \o b)[i] = a[i]
        BY <2>2
      <3> QED
        BY <2>1, <2>2, <3>1 DEF Has
    <2>3. CASE i \notin DOMAIN a
      <3>1. i - Len(a) \in DOMAIN b /\ (a \o b)[i] = b[i - Len(a)]
        BY <2>3
      <3> QED
        BY <2>1, <3>1 DEF Has
    <2> QED
      BY <2>2, <2>3
  <1> QED
    BY <1>1, <1>2, <1>3

LEMMA OnceConcat ==
  ASSUME NEW S, NEW a \in Seq(S), NEW b \in Seq(S), NEW F, NEW t
  PROVE  Once(a \o b, F, t) <=> Once(a, F, t) /\ Once(b, F, t) /\ ~(Has(a, F, t) /\ Has(b, F, t))
  <1> DEFINE c == a \o b
             In(x, i) == x[i].f \in F /\ x[i].t = t
  <1>1. \A i \in DOMAIN a : i \in DOMAIN c /\ c[i] = a[i]
    OBVIOUS
  <1>2. \A i \in DOMAIN b : Len(a) + i \in DOMAIN c /\ c[Len(a) + i] = b[i]
    OBVIOUS
  <1>3. \A i \in DOMAIN c : i \in DOMAIN a \/ (i - Len(a) \in DOMAIN b /\ c[i] = b[i - Len(a)])
    OBVIOUS
  <1>4. DOMAIN a \subseteq Int /\ DOMAIN b \subseteq Int /\ Len(a) \in Int /\ DOMAIN c \subseteq Int
    OBVIOUS
  <1>5. \A i \in DOMAIN b : Len(a) + i \notin DOMAIN a
    OBVIOUS
  <1> HIDE DEF c
  <1>6. ASSUME Once(c, F, t) PROVE Once(a, F, t)
    BY <1>1, <1>6 DEF Once
  <1>7. ASSUME Once(c, F, t) PROVE Once(b, F, t)
    <2> SUFFICES ASSUME NEW i \in DOMAIN b, NEW j \in DOMAIN b, In(b, i), In(b, j)
                 PROVE  i = j
      BY DEF Once
    <2>1. Len(a) + i = Len(a) + j
      BY <1>2, <1>7 DEF Once
    <2> QED
      BY <1>4, <2>1
  <1>8. ASSUME Once(c, F, t), Has(a, F, t), Has(b, F, t) PROVE FALSE
    <2>1. PICK i \in DOMAIN a : In(a, i)
      BY <1>8 DEF Has
    <2>2. PICK j \in DOMAIN b : In(b, j)
      BY <1>8 DEF Has
    <2>3. i = Len(a) + j
      BY <1>1, <1>2, <1>8, <2>1, <2>2 DEF Once
    <2> QED
      BY <1>5, <2>3
  <1>9. ASSUME Once(a, F, t), Once(b, F, t), ~(Has(a, F, t) /\ Has(b, F, t)) PROVE Once(c, F, t)
    <2> SUFFICES ASSUME NEW i \in DOMAIN c, NEW j \in DOMAIN c, In(c, i), In(c, j)
                 PROVE  i = j
      BY DEF Once
    <2>1. CASE i \in DOMAIN a /\ j \in DOMAIN a
      BY <1>1, <1>9, <2>1 DEF Once
    <2>2. CASE i \notin DOMAIN a /\ j \notin DOMAIN a
      <3>1. i - Len(a) = j - Len(a)
        BY <1>3, <1>9, <2>2 DEF Once
      <3> QED
        BY <1>4, <3>1
    <2>3. CASE i \in DOMAIN a /\ j \notin DOMAIN a
      BY <1>1, <1>3, <1>9, <2>3 DEF Has
    <2>4. CASE i \notin DOMAIN a /\ j \in DOMAIN a
      BY <1>1, <1>3, <1>9, <2>4 DEF Has
    <2> QED
      BY <2>1, <2>2, <2>3, <2>4
  <1> QED
    BY <1>6, <1>7, <1>8, <1>9 DEF c

LEMMA HeadTail ==
  ASSUME NEW S, NEW s \in Seq(S), s # <<>>
  PROVE  /\ Head(s) \in S /\ Tail(s) \in Seq(S) /\ s = <<Head(s)>> \o Tail(s)
  OBVIOUS

LEMMA HasOne ==
  ASSUME NEW h, NEW F, NEW t
  PROVE  (Has(<<h>>, F, t) <=> h.f \in F /\ h.t = t) /\ Once(<<h>>, F, t)
  BY DEF Has, Once

LEMMA HasNone ==
  ASSUME NEW F, NEW t
  PROVE  ~Has(<<>>, F, t) /\ Once(<<>>, F, t)
  BY DEF Has, Once

LEMMA PushHas ==
  ASSUME NEW S, NEW s \in Seq(S), NEW h \in S, NEW F, NEW t
  PROVE  /\ Has(<<h>> \o s, F, t) <=> (h.f \in F /\ h.t = t) \/ Has(s, F, t)
         /\ Once(<<h>> \o s, F, t) <=> Once(s, F, t) /\ ~(h.f \in F /\ h.t = t /\ Has(s, F, t))
         /\ <<h>> \o s \in Seq(S) /\ <<h>> \o s # <<>>
         /\ Head(<<h>> \o s) = h /\ Tail(<<h>> \o s) = s
  <1>1. <<h>> \in Seq(S)
    OBVIOUS
  <1>2. <<h>> \o s \in Seq(S) /\ <<h>> \o s # <<>> /\ Head(<<h>> \o s) = h /\ Tail(<<h>> \o s) = s
    OBVIOUS
  <1> QED
    BY <1>1, <1>2, HasOne, HasConcat, OnceConcat

\* What is on a stack and what is below its top.
LEMMA TopHas ==
  ASSUME NEW S, NEW s \in Seq(S), s # <<>>, NEW F, NEW t
  PROVE  /\ Has(s, F, t) <=> (Head(s).f \in F /\ Head(s).t = t) \/ Has(Tail(s), F, t)
         /\ Once(s, F, t) <=> /\ Once(Tail(s), F, t)
                              /\ ~(Head(s).f \in F /\ Head(s).t = t /\ Has(Tail(s), F, t))
  <1> DEFINE c == <<Head(s)>> \o Tail(s)
  <1>1. Head(s) \in S /\ Tail(s) \in Seq(S) /\ s = c
    BY HeadTail
  <1>2. /\ Has(c, F, t) <=> (Head(s).f \in F /\ Head(s).t = t) \/ Has(Tail(s), F, t)
        /\ Once(c, F, t) <=> /\ Once(Tail(s), F, t)
                             /\ ~(Head(s).f \in F /\ Head(s).t = t /\ Has(Tail(s), F, t))
    BY <1>1, PushHas
  <1> QED
    BY <1>1, <1>2

LEMMA AllConcat ==
  ASSUME NEW S, NEW a \in Seq(S), NEW b \in Seq(S), NEW T
  PROVE  /\ AllOK(a \o b, T) <=> AllOK(a, T) /\ AllOK(b, T)
         /\ Inner(a \o b) <=> Inner(a) /\ Inner(b)
  <1> DEFINE c == a \o b
  <1>1. \A i \in DOMAIN a : i \in DOMAIN c /\ c[i] = a[i]
    OBVIOUS
  <1>2. \A i \in DOMAIN b : Len(a) + i \in DOMAIN c /\ c[Len(a) + i] = b[i]
    OBVIOUS
  <1>3. \A i \in DOMAIN c : i \in DOMAIN a \/ (i - Len(a) \in DOMAIN b /\ c[i] = b[i - Len(a)])
    OBVIOUS
  <1> HIDE DEF c
  <1>4. AllOK(c, T) <=> AllOK(a, T) /\ AllOK(b, T)
    BY <1>1, <1>2, <1>3 DEF AllOK
  <1>5. Inner(c) <=> Inner(a) /\ Inner(b)
    BY <1>1, <1>2, <1>3 DEF Inner
  <1> QED
    BY <1>4, <1>5 DEF c

LEMMA AllPush ==
  ASSUME NEW S, NEW s \in Seq(S), NEW h \in S, NEW T
  PROVE  /\ AllOK(<<h>> \o s, T) <=> FrameOK(h, T) /\ AllOK(s, T)
         /\ Inner(<<h>> \o s) <=> h.f \notin {"next", "after"} /\ Inner(s)
  <1>1. AllOK(<<h>>, T) <=> FrameOK(h, T)
    BY DEF AllOK
  <1>2. Inner(<<h>>) <=> h.f \notin {"next", "after"}
    BY DEF Inner
  <1>3. <<h>> \in Seq(S)
    OBVIOUS
  <1> QED
    BY <1>1, <1>2, <1>3, AllConcat

LEMMA AllTop ==
  ASSUME NEW S, NEW s \in Seq(S), s # <<>>, NEW T
  PROVE  AllOK(s, T) <=> FrameOK(Head(s), T) /\ AllOK(Tail(s), T)
  <1> DEFINE c == <<Head(s)>> \o Tail(s)
  <1>1. Head(s) \in S /\ Tail(s) \in Seq(S) /\ s = c
    BY HeadTail
  <1>2. AllOK(c, T) <=> FrameOK(Head(s), T) /\ AllOK(Tail(s), T)
    BY <1>1, AllPush
  <1> QED
    BY <1>1, <1>2

\* Nothing that the invariant counts: no frame of a state, none that runs one.
Plain(f) == f.f \notin Acts \cup {"next", "continue"}

LEMMA PlainHas ==
  ASSUME NEW S, NEW gs \in Seq(S), \A i \in DOMAIN gs : Plain(gs[i]), NEW t
  PROVE  /\ ~Has(gs, Acts, t) /\ ~Has(gs, {"continue"}, t) /\ Inner(gs)
         /\ Once(gs, Acts, t) /\ Once(gs, {"continue"}, t)
  BY DEF Plain, Has, Once, Inner, Acts

-----------------------------------------------------------------------------
\* Pushing and popping.

LEMMA PopCore ==
  ASSUME NEW T, NEW s, NEW k, Core(T, s, k), s # <<>>, Head(s).f \notin Acts
  PROVE  Core(T, Tail(s), k) /\ Inner(Tail(s))
  <1> DEFINE B == BornIn(T)
             r == Tail(s)
  <1>1. s \in Seq(Frames(B)) /\ r \in Seq(Frames(B)) /\ Inner(r) /\ AllOK(s, T)
    BY HeadTail DEF Core
  <1>2. AllOK(r, T)
    BY <1>1, AllTop
  <1>3. r # <<>> => Inner(Tail(r)) /\ Head(r).f \notin {"next", "after"}
    <2>1. ASSUME r # <<>> PROVE \A i \in DOMAIN Tail(r) : i + 1 \in DOMAIN r /\ Tail(r)[i] = r[i + 1]
      BY <1>1, <2>1
    <2>2. ASSUME r # <<>> PROVE 1 \in DOMAIN r /\ Head(r) = r[1]
      BY <1>1, <2>2
    <2> QED
      BY <1>1, <2>1, <2>2 DEF Inner
  <1>4. ASSUME NEW t \in Tasks PROVE Lives(T[t], r, k, t)
    <2>1. Lives(T[t], s, k, t)
      BY DEF Core
    <2>2. Has(s, Acts, t) <=> Has(r, Acts, t)
      BY <1>1, TopHas
    <2>3. Has(r, {"continue"}, t) => Has(s, {"continue"}, t)
      BY <1>1, TopHas
    <2>4. Once(s, Acts, t) => Once(r, Acts, t)
      BY <1>1, TopHas
    <2>5. Once(s, {"continue"}, t) => Once(r, {"continue"}, t)
      BY <1>1, TopHas
    <2>6. ~IsTop(r, "next", t)
      BY <1>3 DEF IsTop
    <2> HIDE DEF r
    <2> QED
      BY <2>1, <2>2, <2>3, <2>4, <2>5, <2>6 DEF Lives, Pending, PendingOK
  <1> QED
    BY <1>1, <1>2, <1>3, <1>4 DEF Core

\* Frames that the invariant does not count go on top of any others.
LEMMA PushPlain ==
  ASSUME NEW T, NEW s, NEW k, Core(T, s, k), Inner(s), NEW gs \in Seq(Frames(BornIn(T))),
         \A i \in DOMAIN gs : Plain(gs[i]) /\ (gs[i].f = "return" => T[gs[i].t].atret)
  PROVE  Core(T, gs \o s, k) /\ Inner(gs \o s)
  <1> DEFINE B == BornIn(T)
             r == gs \o s
  <1>1. s \in Seq(Frames(B)) /\ gs \in Seq(Frames(B)) /\ AllOK(s, T)
    BY DEF Core
  <1>2. AllOK(gs, T)
    BY DEF AllOK, FrameOK, Plain
  <1>3. r \in Seq(Frames(B)) /\ AllOK(r, T) /\ Inner(r)
    <2>1. Inner(gs)
      BY PlainHas
    <2> QED
      BY <1>1, <1>2, <2>1, AllConcat
  <1>4. r # <<>> => Inner(Tail(r)) /\ Head(r).f \notin {"next", "after"}
    <2> HIDE DEF r
    <2>1. ASSUME r # <<>> PROVE \A i \in DOMAIN Tail(r) : i + 1 \in DOMAIN r /\ Tail(r)[i] = r[i + 1]
      BY <1>3, <2>1
    <2>2. ASSUME r # <<>> PROVE 1 \in DOMAIN r /\ Head(r) = r[1]
      BY <1>3, <2>2
    <2> QED
      BY <1>3, <2>1, <2>2 DEF Inner
  <1>5. ASSUME NEW t \in Tasks PROVE Lives(T[t], r, k, t)
    <2>1. Lives(T[t], s, k, t)
      BY DEF Core
    <2>2. /\ ~Has(gs, Acts, t) /\ ~Has(gs, {"continue"}, t)
          /\ Once(gs, Acts, t) /\ Once(gs, {"continue"}, t)
      BY PlainHas
    <2>3. Has(r, Acts, t) <=> Has(s, Acts, t)
      BY <1>1, <2>2, HasConcat
    <2>4. Has(r, {"continue"}, t) <=> Has(s, {"continue"}, t)
      BY <1>1, <2>2, HasConcat
    <2>5. Once(r, Acts, t) <=> Once(s, Acts, t)
      BY <1>1, <2>2, OnceConcat
    <2>6. Once(r, {"continue"}, t) <=> Once(s, {"continue"}, t)
      BY <1>1, <2>2, OnceConcat
    <2>7. ~IsTop(r, "next", t)
      BY <1>4 DEF IsTop
    <2> HIDE DEF r
    <2> QED
      BY <2>1, <2>3, <2>4, <2>5, <2>6, <2>7 DEF Lives, Pending, PendingOK
  <1> HIDE DEF r
  <1>6. Core(T, r, k)
    BY <1>3, <1>4, <1>5 DEF Core
  <1> QED
    BY <1>3, <1>6 DEF r

LEMMA PushNext ==
  ASSUME NEW T, NEW s, NEW k, Core(T, s, k), Inner(s), NEW h \in Frames(BornIn(T)), h.f = "next",
         Firm(T[h.t]) => /\ ~Has(s, Acts, h.t)
                         /\ Closed(T[h.t]) \/ (T[h.t].kind = "gen" /\ Third(T[h.t]))
                         /\ Pending(s, k, h.t) => T[h.t].atret
  PROVE  Core(T, <<h>> \o s, k)
  <1> DEFINE B == BornIn(T)
             r == <<h>> \o s
  <1>1. s \in Seq(Frames(B)) /\ AllOK(s, T)
    BY DEF Core
  <1>2. r \in Seq(Frames(B)) /\ r # <<>> /\ Head(r) = h /\ Tail(r) = s
    BY <1>1, PushHas
  <1>3. AllOK(r, T)
    BY <1>1, AllPush DEF FrameOK, Acts
  <1>4. ASSUME NEW t \in Tasks PROVE Lives(T[t], r, k, t)
    <2>1. Lives(T[t], s, k, t)
      BY DEF Core
    <2>2. Has(r, Acts, t) <=> Has(s, Acts, t)
      BY <1>1, PushHas DEF Acts
    <2>3. Has(r, {"continue"}, t) <=> Has(s, {"continue"}, t)
      BY <1>1, PushHas
    <2>4. Once(r, Acts, t) <=> Once(s, Acts, t)
      BY <1>1, PushHas DEF Acts
    <2>5. Once(r, {"continue"}, t) <=> Once(s, {"continue"}, t)
      BY <1>1, PushHas
    <2>6. IsTop(r, "next", t) <=> t = h.t
      BY <1>2 DEF IsTop
    <2> HIDE DEF r
    <2> QED
      BY <2>1, <2>2, <2>3, <2>4, <2>5, <2>6 DEF Lives, Pending, PendingOK
  <1> HIDE DEF r
  <1>5. Core(T, r, k)
    BY <1>2, <1>3, <1>4 DEF Core
  <1> QED
    BY <1>5 DEF r

LEMMA PushContinue ==
  ASSUME NEW T, NEW s, NEW k, Core(T, s, k), Inner(s), NEW h \in Frames(BornIn(T)), h.f = "continue",
         Firm(T[h.t]) => ~Pending(s, k, h.t) /\ Closed(T[h.t]) /\ T[h.t].run # "yes"
  PROVE  Core(T, <<h>> \o s, k) /\ Inner(<<h>> \o s)
  <1> DEFINE B == BornIn(T)
             r == <<h>> \o s
  <1>1. s \in Seq(Frames(B)) /\ AllOK(s, T)
    BY DEF Core
  <1>2. r \in Seq(Frames(B)) /\ r # <<>> /\ Head(r) = h /\ Tail(r) = s
    BY <1>1, PushHas
  <1>3. AllOK(r, T) /\ Inner(r)
    BY <1>1, AllPush DEF FrameOK, Acts
  <1>4. ASSUME NEW t \in Tasks PROVE Lives(T[t], r, k, t)
    <2>1. Lives(T[t], s, k, t)
      BY DEF Core
    <2>2. Has(r, Acts, t) <=> Has(s, Acts, t)
      BY <1>1, PushHas DEF Acts
    <2>3. Has(r, {"continue"}, t) <=> t = h.t \/ Has(s, {"continue"}, t)
      BY <1>1, PushHas
    <2>4. Once(r, Acts, t) <=> Once(s, Acts, t)
      BY <1>1, PushHas DEF Acts
    <2>5. Once(r, {"continue"}, t) <=> Once(s, {"continue"}, t) /\ ~(t = h.t /\ Has(s, {"continue"}, t))
      BY <1>1, PushHas
    <2>6. ~IsTop(r, "next", t)
      BY <1>2 DEF IsTop
    <2>7. T[h.t].kind # "none"
      BY DEF Frames, BornIn
    <2>8. ~Has(s, {"continue"}, t) => Once(s, {"continue"}, t)
      BY DEF Has, Once
    <2>9. ~Has(k, {"next"}, t) => Once(k, {"next"}, t)
      BY DEF Has, Once
    <2> HIDE DEF r
    <2> QED
      BY <2>1, <2>2, <2>3, <2>4, <2>5, <2>6, <2>7, <2>8, <2>9 DEF Lives, Pending, PendingOK
  <1> HIDE DEF r
  <1>5. Core(T, r, k)
    BY <1>2, <1>3, <1>4 DEF Core
  <1> QED
    BY <1>3, <1>5 DEF r

\* One part of a state follows another.
LEMMA ReplaceTop ==
  ASSUME NEW T, NEW s, NEW k, Core(T, s, k), s # <<>>, Head(s).f \in Acts,
         NEW g \in Frames(BornIn(T)), g.f \in Acts, g.t = Head(s).t, FrameOK(g, T)
  PROVE  /\ Core(T, <<g>> \o Tail(s), k)
         /\ g.f # "after" => Inner(<<g>> \o Tail(s))
  <1> DEFINE B == BornIn(T)
             q == Tail(s)
             r == <<g>> \o q
  <1>1. s \in Seq(Frames(B)) /\ AllOK(s, T) /\ q \in Seq(Frames(B)) /\ Inner(q)
    BY HeadTail DEF Core
  <1>2. r \in Seq(Frames(B)) /\ r # <<>> /\ Head(r) = g /\ Tail(r) = q
    BY <1>1, PushHas
  <1>3. AllOK(r, T) /\ (g.f # "after" => Inner(r))
    <2>1. AllOK(q, T)
      BY <1>1, AllTop
    <2> HIDE DEF q
    <2> QED
      BY <1>1, <2>1, AllPush DEF Acts
  <1>4. ASSUME NEW t \in Tasks PROVE Lives(T[t], r, k, t)
    <2>1. Lives(T[t], s, k, t)
      BY DEF Core
    <2>2. Has(r, Acts, t) <=> Has(s, Acts, t)
      <3>1. Has(s, Acts, t) <=> (t = Head(s).t \/ Has(q, Acts, t))
        BY <1>1, TopHas
      <3> HIDE DEF q
      <3> QED
        BY <1>1, <3>1, PushHas
    <2>3. Has(r, {"continue"}, t) <=> Has(s, {"continue"}, t)
      <3>1. Has(s, {"continue"}, t) <=> Has(q, {"continue"}, t)
        BY <1>1, TopHas DEF Acts
      <3> HIDE DEF q
      <3> QED
        BY <1>1, <3>1, PushHas DEF Acts
    <2>4. Once(r, Acts, t) <=> Once(s, Acts, t)
      <3>1. Once(s, Acts, t) <=> Once(q, Acts, t) /\ ~(t = Head(s).t /\ Has(q, Acts, t))
        BY <1>1, TopHas
      <3> HIDE DEF q
      <3> QED
        BY <1>1, <3>1, PushHas
    <2>5. Once(r, {"continue"}, t) <=> Once(s, {"continue"}, t)
      <3>1. Once(s, {"continue"}, t) <=> Once(q, {"continue"}, t)
        BY <1>1, TopHas DEF Acts
      <3> HIDE DEF q
      <3> QED
        BY <1>1, <3>1, PushHas DEF Acts
    <2>6. ~IsTop(r, "next", t)
      BY <1>2 DEF IsTop, Acts
    <2> HIDE DEF r
    <2> QED
      BY <2>1, <2>2, <2>3, <2>4, <2>5, <2>6 DEF Lives, Pending, PendingOK
  <1> HIDE DEF r
  <1>5. Core(T, r, k)
    BY <1>1, <1>2, <1>3, <1>4 DEF Core
  <1> QED
    BY <1>3, <1>5 DEF r

-----------------------------------------------------------------------------
\* Changes of the tasks.

\* A change that starts nothing: a wait may be closed, a timer stopped.
Gentle(x, y) ==
    /\ y.kind = x.kind /\ y.cur = x.cur /\ y.run = x.run
    /\ LateTask(x) => LateTask(y)
    /\ Closed(x) => Closed(y)
    /\ y.timer => x.timer
    /\ y.stray # 0 => x.stray # 0
    /\ x.atret => y.atret
    /\ y.next = x.next \/ y.next = 0

LEMMA BornSame ==
  ASSUME NEW T, NEW R, \A u \in Tasks : R[u].kind = T[u].kind
  PROVE  BornIn(R) = BornIn(T) /\ WaitersIn(R) = WaitersIn(T)
  BY DEF BornIn, WaitersIn

LEMMA GentleCore ==
  ASSUME NEW T, NEW R, NEW s, NEW k, Core(T, s, k), Types(R, BornIn(T), WaitersIn(T)),
         \A u \in Tasks : Gentle(T[u], R[u])
  PROVE  /\ Core(R, s, k) /\ BornIn(R) = BornIn(T) /\ WaitersIn(R) = WaitersIn(T)
         /\ AllClosed(T) => AllClosed(R)
  <1> DEFINE B == BornIn(T)
  <1>1. BornIn(R) = B /\ WaitersIn(R) = WaitersIn(T)
    BY BornSame DEF Gentle
  <1>2. AllOK(s, R)
    <2> SUFFICES ASSUME NEW i \in DOMAIN s PROVE FrameOK(s[i], R)
      BY DEF AllOK
    <2>1. s[i] \in Frames(B) /\ FrameOK(s[i], T)
      BY DEF Core, AllOK
    <2>2. s[i].t \in Tasks
      BY <2>1 DEF Frames, BornIn
    <2> QED
      BY <2>1, <2>2 DEF FrameOK, ActOK, Gentle, LateTask, Asking
  <1>3. ASSUME NEW t \in Tasks PROVE TaskOK(R[t])
    BY DEF Core, TaskOK, Gentle, Third
  <1>4. ASSUME NEW t \in Tasks PROVE Lives(R[t], s, k, t)
    <2>1. Lives(T[t], s, k, t) /\ Gentle(T[t], R[t])
      BY DEF Core
    <2>2. Firm(R[t]) => Firm(T[t])
      BY <2>1 DEF Gentle, Firm
    <2>3. (T[t].kind = "gen" /\ Third(T[t])) => (R[t].kind = "gen" /\ Third(R[t]))
      BY <2>1 DEF Gentle, Third
    <2>4. Firm(R[t]) /\ Pending(s, k, t) => PendingOK(R[t], s, k, t)
      BY <2>1, <2>2 DEF Lives, PendingOK, Gentle
    <2> QED
      BY <2>1, <2>2, <2>3, <2>4 DEF Lives, Gentle
  <1>5. AllClosed(T) => AllClosed(R)
    BY DEF AllClosed, Gentle, Firm
  <1> QED
    BY <1>1, <1>2, <1>3, <1>4, <1>5 DEF Core

\* Fields that the tree does not have and that may change.
LooseFields == {"err", "run", "atret", "atcont", "wait", "wop", "won", "wdone", "seq",
                "timer", "stray", "late", "fin", "then", "done", "cur", "next", "i"}
FieldsKept(T, R, F) == \A u \in Tasks, f \in Fields \ F : R[u][f] = T[u][f]
OthersKept(T, R, t) == \A u \in Tasks \ {t} : R[u] = T[u]

LEMMA TypesKept ==
  ASSUME NEW B, NEW W, NEW T, Types(T, B, W), NEW R, IsTable(R),
         NEW F \in SUBSET LooseFields, FieldsKept(T, R, F),
         \A u \in Tasks :
            /\ "cur" \in F => R[u].cur \in Nat
            /\ "next" \in F => R[u].next \in Nat
            /\ "wait" \in F => R[u].wait \in Nat
            /\ "seq" \in F => R[u].seq \in Nat
            /\ "i" \in F => R[u].i \in Nat
            /\ "atcont" \in F => R[u].atcont \in Values(B)
            /\ "fin" \in F => R[u].fin \in Seq({w \in Tokens(B) : w.n # 0})
            /\ "then" \in F => R[u].then \in Seq({w \in Tokens(B) : w.n = 0 => w.t \in W})
  PROVE  Types(R, B, W)
  <1>1. TreeTypes(R, B)
    BY DEF FieldsKept, Types, TreeTypes, Fields, LooseFields
  <1>2. ASSUME NEW u \in Tasks PROVE DataOK(R[u], B, W)
    <2>1. DataOK(T[u], B, W)
      BY DEF Types
    <2>2. R[u].kind = T[u].kind /\ R[u].by = T[u].by /\ R[u].arr = T[u].arr
      BY DEF FieldsKept, Fields, LooseFields
    <2>3. /\ "cur" \notin F => R[u].cur = T[u].cur
          /\ "next" \notin F => R[u].next = T[u].next
          /\ "wait" \notin F => R[u].wait = T[u].wait
          /\ "seq" \notin F => R[u].seq = T[u].seq
          /\ "i" \notin F => R[u].i = T[u].i
      BY DEF FieldsKept, Fields
    <2>4. /\ "atcont" \notin F => R[u].atcont = T[u].atcont
          /\ "fin" \notin F => R[u].fin = T[u].fin
          /\ "then" \notin F => R[u].then = T[u].then
      BY DEF FieldsKept, Fields
    <2> QED
      BY <2>1, <2>2, <2>3, <2>4 DEF DataOK
  <1> QED
    BY <1>1, <1>2 DEF Types

LEMMA TableOf ==
  ASSUME NEW T, NEW B, NEW W, Types(T, B, W)
  PROVE  Shape(T) /\ IsTable(T)
  BY DEF Types, IsTable

\* A state has been run.
LEMMA PopAfter ==
  ASSUME NEW T, NEW s, NEW k, Core(T, s, k), MostClosed(T, s), s # <<>>, Head(s).f = "after",
         NEW R, R = [T EXCEPT ![Head(s).t].run = "no"]
  PROVE  /\ Core(R, Tail(s), k) /\ AllClosed(R) /\ Inner(Tail(s))
         /\ BornIn(R) = BornIn(T) /\ WaitersIn(R) = WaitersIn(T)
         /\ Firm(R[Head(s).t]) => /\ ~Has(Tail(s), Acts, Head(s).t)
                                  /\ ~Pending(Tail(s), k, Head(s).t)
                                  /\ Closed(R[Head(s).t])
         /\ R[Head(s).t].run = "no"
         /\ FieldsKept(T, R, {"run"}) /\ OthersKept(T, R, Head(s).t)
  <1> DEFINE B == BornIn(T)
             r == Tail(s)
             t == Head(s).t
  <1>1. s \in Seq(Frames(B)) /\ r \in Seq(Frames(B)) /\ Head(s) \in Frames(B) /\ Inner(r) /\ AllOK(s, T)
    BY HeadTail DEF Core
  <1>2. t \in Tasks /\ t \in B
    BY <1>1 DEF Frames, BornIn
  <1>3. Shape(T) /\ IsTable(T)
    BY TableOf DEF Core
  <1>4. FieldsKept(T, R, {"run"}) /\ OthersKept(T, R, t) /\ R[t].run = "no" /\ IsTable(R)
    <2>1. R = [T EXCEPT ![t].run = "no"] /\ Shape(T) /\ IsTable(T) /\ t \in Tasks
      BY <1>2, <1>3
    <2>2. FieldsKept(T, R, {"run"})
      BY ONLY <2>1, ZenonT(40) DEF FieldsKept, Shape, Fields
    <2>3. OthersKept(T, R, t)
      BY ONLY <2>1, ZenonT(40) DEF OthersKept, Shape
    <2>4. R[t].run = "no"
      BY ONLY <2>1, ZenonT(40) DEF Shape, Fields
    <2>5. IsTable(R)
      BY ONLY <2>1, ZenonT(40) DEF IsTable, Shape
    <2> QED
      BY <2>2, <2>3, <2>4, <2>5
  <1>5. Types(R, B, WaitersIn(T))
    BY <1>4, TypesKept DEF Core, LooseFields
  <1>6. \A u \in Tasks : /\ R[u].kind = T[u].kind /\ R[u].late = T[u].late /\ R[u].cur = T[u].cur
                         /\ R[u].next = T[u].next /\ R[u].wait = T[u].wait /\ R[u].wdone = T[u].wdone
                         /\ R[u].timer = T[u].timer /\ R[u].stray = T[u].stray /\ R[u].atret = T[u].atret
    BY <1>4 DEF FieldsKept, Fields
  <1>7. BornIn(R) = B /\ WaitersIn(R) = WaitersIn(T)
    BY <1>6, BornSame
  <1>8. FrameOK(Head(s), T) /\ AllOK(r, T)
    BY <1>1, AllTop
  <1>9. LateTask(T[t]) \/ (Once(s, Acts, t) /\ ~Has(r, Acts, t))
    <2>1. Lives(T[t], s, k, t)
      BY <1>2 DEF Core
    <2>2. Once(s, Acts, t) => ~Has(r, Acts, t)
      BY <1>1, TopHas DEF Acts
    <2> QED
      BY <2>1, <2>2 DEF Lives
  <1> HIDE DEF r, t
  <1>10. AllOK(r, R)
    <2> SUFFICES ASSUME NEW i \in DOMAIN r PROVE FrameOK(r[i], R)
      BY DEF AllOK
    <2>1. r[i] \in Frames(B) /\ FrameOK(r[i], T)
      BY <1>1, <1>8 DEF AllOK
    <2>2. r[i].t \in Tasks
      BY <2>1 DEF Frames, BornIn
    <2>3. r[i].f \in Acts => r[i].t # t \/ LateTask(T[t])
      BY <1>9 DEF Has
    <2>4. r[i].t # t => R[r[i].t].run = T[r[i].t].run
      BY <1>4, <2>2 DEF OthersKept
    <2> QED
      BY <1>6, <2>1, <2>2, <2>3, <2>4 DEF FrameOK, ActOK, LateTask, Asking
  <1>11. ASSUME NEW u \in Tasks PROVE TaskOK(R[u])
    <2>1. TaskOK(T[u])
      BY DEF Core
    <2>2. R[u].run \in {T[u].run, "no"} /\ (u # t => R[u].run = T[u].run)
      BY <1>4 DEF OthersKept
    <2>3. T[t].kind # "none"
      BY <1>2 DEF t, BornIn
    <2> QED
      BY <1>6, <2>1, <2>2, <2>3 DEF TaskOK, Third
  <1>12. r # <<>> => Inner(Tail(r)) /\ Head(r).f \notin {"next", "after"}
    <2>1. ASSUME r # <<>> PROVE \A i \in DOMAIN Tail(r) : i + 1 \in DOMAIN r /\ Tail(r)[i] = r[i + 1]
      BY <1>1, <2>1
    <2>2. ASSUME r # <<>> PROVE 1 \in DOMAIN r /\ Head(r) = r[1]
      BY <1>1, <2>2
    <2> QED
      BY <1>1, <2>1, <2>2 DEF Inner
  <1>13. ASSUME NEW u \in Tasks
         PROVE  /\ (Has(r, Acts, u) <=> Has(s, Acts, u)) \/ u = t
                /\ Has(r, {"continue"}, u) <=> Has(s, {"continue"}, u)
                /\ Once(s, Acts, u) => Once(r, Acts, u)
                /\ Once(s, {"continue"}, u) <=> Once(r, {"continue"}, u)
    <2>1. Head(s).f \in Acts /\ Head(s).f \notin {"continue"}
      BY DEF Acts
    <2> QED
      BY <1>1, <2>1, TopHas DEF r, t
  <1>14. ASSUME NEW u \in Tasks PROVE Lives(R[u], r, k, u)
    <2>1. Lives(T[u], s, k, u)
      BY DEF Core
    <2>2. u # t => R[u] = T[u]
      BY <1>4 DEF OthersKept
    <2>3. ~IsTop(r, "next", u)
      BY <1>12 DEF IsTop
    <2>4. LateTask(R[u]) <=> LateTask(T[u])
      BY <1>6 DEF LateTask
    <2>5. Closed(R[u]) <=> Closed(T[u])
      BY <1>6 DEF Closed
    <2>6. Firm(R[u]) <=> Firm(T[u])
      BY <1>6, <2>4 DEF Firm
    <2>7. u = t => R[u].run = "no"
      BY <1>4 DEF t
    <2> QED
      BY <1>6, <1>13, <2>1, <2>2, <2>3, <2>4, <2>5, <2>6, <2>7 DEF Lives, Pending, PendingOK
  <1>15. AllClosed(R)
    <2> SUFFICES ASSUME NEW u \in Tasks, Firm(R[u]), R[u].run = "yes" PROVE Closed(R[u])
      BY DEF AllClosed
    <2>1. u # t /\ R[u] = T[u]
      BY <1>4 DEF OthersKept, t
    <2>2. ~Woken(T, s, u)
      BY DEF Woken, IsTop
    <2> QED
      BY <2>1, <2>2 DEF MostClosed
  <1>16. Firm(R[t]) => ~Has(r, Acts, t) /\ ~Pending(r, k, t) /\ Closed(R[t])
    <2>1. Firm(R[t]) <=> Firm(T[t])
      BY <1>2, <1>6 DEF Firm, LateTask, t
    <2>2. Firm(T[t]) => T[t].run = "yes"
      BY <1>8 DEF FrameOK, ActOK, Firm, Acts, t
    <2>3. Firm(T[t]) => ~Pending(s, k, t)
      BY <1>2, <2>2 DEF Core, Lives, PendingOK, t
    <2>4. Pending(r, k, t) => Pending(s, k, t)
      BY <1>2, <1>13 DEF Pending, t
    <2>5. ~Woken(T, s, t)
      BY DEF Woken, IsTop
    <2>6. Firm(T[t]) => Closed(T[t])
      BY <1>2, <2>2, <2>5 DEF MostClosed, t
    <2>7. Closed(R[t]) <=> Closed(T[t])
      BY <1>2, <1>6 DEF Closed, t
    <2> QED
      BY <1>9, <2>1, <2>3, <2>4, <2>6, <2>7 DEF Firm
  <1>17. Core(R, r, k)
    BY <1>1, <1>5, <1>7, <1>10, <1>11, <1>12, <1>14 DEF Core
  <1> QED
    BY <1>1, <1>4, <1>7, <1>15, <1>16, <1>17 DEF r, t

\* A task goes on to another state: s is without the frame that says so.
LEMMA AdvanceCore ==
  ASSUME NEW T, NEW s, NEW k, Core(T, s, k), Inner(s), NEW t \in BornIn(T), NEW R, NEW i \in Nat, i # 0,
         FieldsKept(T, R, {"err", "cur", "next", "done"}), OthersKept(T, R, t), IsTable(R),
         R[t].cur = i, R[t].next = 0,
         Firm(T[t]) => ~Has(s, Acts, t),
         T[t].kind = "gen" /\ Third(T[t]) => i >= 2
  PROVE  /\ Core(R, s, k) /\ BornIn(R) = BornIn(T) /\ WaitersIn(R) = WaitersIn(T)
  <1> DEFINE B == BornIn(T)
  <1>1. s \in Seq(Frames(B)) /\ AllOK(s, T) /\ t \in Tasks
    BY DEF Core, BornIn
  <1>2. \A u \in Tasks : /\ R[u].kind = T[u].kind /\ R[u].late = T[u].late /\ R[u].run = T[u].run
                         /\ R[u].wait = T[u].wait /\ R[u].wdone = T[u].wdone
                         /\ R[u].timer = T[u].timer /\ R[u].stray = T[u].stray /\ R[u].atret = T[u].atret
    BY DEF FieldsKept, Fields
  <1>3. BornIn(R) = B /\ WaitersIn(R) = WaitersIn(T)
    BY <1>2, BornSame
  <1>4. Types(R, B, WaitersIn(T))
    <2>1. \A u \in Tasks : R[u].cur \in Nat /\ R[u].next \in Nat
      <3>1. \A u \in Tasks : T[u].cur \in Nat /\ T[u].next \in Nat
        BY DEF Core, Types, DataOK
      <3> QED
        BY <1>1, <3>1 DEF OthersKept
    <2> QED
      BY <2>1, TypesKept, SMTT(30) DEF Core, LooseFields
  <1>5. AllOK(s, R)
    <2> SUFFICES ASSUME NEW j \in DOMAIN s PROVE FrameOK(s[j], R)
      BY DEF AllOK
    <2>1. s[j] \in Frames(B) /\ FrameOK(s[j], T)
      BY <1>1 DEF AllOK
    <2>2. s[j].t \in Tasks
      BY <2>1 DEF Frames, BornIn
    <2>3. s[j].f \in Acts => s[j].t # t \/ ~Firm(T[t])
      BY DEF Has
    <2>4. s[j].t # t => R[s[j].t] = T[s[j].t]
      BY <2>2 DEF OthersKept
    <2>5. ~Firm(T[t]) => T[t].kind # "gen"
      BY DEF Firm, One, LateTask
    <2> QED
      BY <1>2, <2>1, <2>2, <2>3, <2>4, <2>5 DEF FrameOK, ActOK, LateTask, Asking
  <1>6. ASSUME NEW u \in Tasks PROVE TaskOK(R[u])
    <2>1. TaskOK(T[u]) /\ (u # t => R[u] = T[u])
      BY DEF Core, OthersKept
    <2>2. T[t].kind = "gen" /\ Third(T[t]) => Third(R[t])
      BY DEF Third
    <2>3. T[t].kind # "gen" => Third(R[t])
      BY <1>1, <1>2 DEF Third
    <2>4. T[t].kind # "none" /\ (Closed(T[u]) => Closed(R[u]))
      BY <1>2 DEF BornIn, Closed
    <2> QED
      BY <1>2, <2>1, <2>2, <2>3, <2>4 DEF TaskOK
  <1>7. ASSUME NEW u \in Tasks PROVE Lives(R[u], s, k, u)
    <2>1. Lives(T[u], s, k, u)
      BY DEF Core
    <2>2. ~IsTop(s, "next", u)
      <3>1. s # <<>> => 1 \in DOMAIN s /\ Head(s) = s[1]
        BY <1>1
      <3> QED
        BY <3>1 DEF Inner, IsTop
    <2>3. LateTask(R[u]) <=> LateTask(T[u])
      BY <1>2 DEF LateTask
    <2>4. Closed(R[u]) <=> Closed(T[u])
      BY <1>2 DEF Closed
    <2>5. Firm(R[u]) <=> Firm(T[u])
      BY <1>2, <2>3 DEF Firm
    <2> QED
      BY <1>2, <2>1, <2>2, <2>3, <2>4, <2>5 DEF Lives, PendingOK
  <1> QED
    BY <1>1, <1>3, <1>4, <1>5, <1>6, <1>7 DEF Core

LEMMA BodyCore ==
  ASSUME NEW T, NEW s, NEW k, Core(T, s, k), Inner(s), NEW h \in Frames(BornIn(T)), h.f = "body",
         NEW R, R = [T EXCEPT ![h.t].run = "yes"], T[h.t].cur # 0, T[h.t].next = 0,
         Firm(T[h.t]) => ~Pending(s, k, h.t),
         LateTask(T[h.t]) \/ ~Has(s, Acts, h.t),
         T[h.t].kind = "gen" /\ T[h.t].cur = 2 => ~T[h.t].timer
  PROVE  Core(R, <<h>> \o s, k)
  <1> DEFINE B == BornIn(T)
             t == h.t
             r == <<h>> \o s
  <1>1. s \in Seq(Frames(B)) /\ AllOK(s, T)
    BY DEF Core
  <1>2. t \in Tasks /\ t \in B
    BY DEF Frames, BornIn
  <1>3. Shape(T) /\ IsTable(T)
    BY TableOf DEF Core
  <1>4. FieldsKept(T, R, {"run"}) /\ OthersKept(T, R, t) /\ R[t].run = "yes" /\ IsTable(R)
    <2>1. R = [T EXCEPT ![t].run = "yes"] /\ Shape(T) /\ IsTable(T) /\ t \in Tasks
      BY <1>2, <1>3
    <2>2. FieldsKept(T, R, {"run"})
      BY ONLY <2>1, ZenonT(40) DEF FieldsKept, Shape, Fields
    <2>3. OthersKept(T, R, t)
      BY ONLY <2>1, ZenonT(40) DEF OthersKept, Shape
    <2>4. R[t].run = "yes"
      BY ONLY <2>1, ZenonT(40) DEF Shape, Fields
    <2>5. IsTable(R)
      BY ONLY <2>1, ZenonT(40) DEF IsTable, Shape
    <2> QED
      BY <2>2, <2>3, <2>4, <2>5
  <1>5. Types(R, B, WaitersIn(T))
    BY <1>4, TypesKept DEF Core, LooseFields
  <1>6. \A u \in Tasks : /\ R[u].kind = T[u].kind /\ R[u].late = T[u].late /\ R[u].cur = T[u].cur
                         /\ R[u].next = T[u].next /\ R[u].wait = T[u].wait /\ R[u].wdone = T[u].wdone
                         /\ R[u].timer = T[u].timer /\ R[u].stray = T[u].stray /\ R[u].atret = T[u].atret
    BY <1>4 DEF FieldsKept, Fields
  <1>7. BornIn(R) = B /\ WaitersIn(R) = WaitersIn(T)
    <2>1. \A u \in Tasks : R[u].kind = T[u].kind
      BY <1>6
    <2> QED
      BY <2>1, BornSame
  <1>8. r \in Seq(Frames(B)) /\ r # <<>> /\ Head(r) = h /\ Tail(r) = s
    BY <1>1, PushHas
  <1>9. ASSUME NEW u \in Tasks PROVE T[u].run = "yes" => R[u].run = "yes"
    BY <1>4 DEF OthersKept
  <1>10. AllOK(r, R)
    <2>1. ASSUME NEW f \in Frames(B), FrameOK(f, T) PROVE FrameOK(f, R)
      <3>1. f.t \in Tasks
        BY DEF Frames, BornIn
      <3> HIDE DEF t
      <3> QED
        BY <1>6, <1>9, <2>1, <3>1 DEF FrameOK, ActOK, LateTask, Asking
    <2>2. AllOK(s, R)
      <3> SUFFICES ASSUME NEW i \in DOMAIN s PROVE FrameOK(s[i], R)
        BY DEF AllOK
      <3>1. s[i] \in Frames(B) /\ FrameOK(s[i], T)
        BY <1>1 DEF AllOK
      <3> QED
        BY <2>1, <3>1
    <2>3. FrameOK(h, R)
      BY <1>2, <1>4, <1>6 DEF FrameOK, ActOK, Acts
    <2> QED
      BY <1>1, <2>2, <2>3, AllPush
  <1>11. ASSUME NEW u \in Tasks PROVE TaskOK(R[u])
    <2>1. TaskOK(T[u]) /\ (u # t => R[u].run = T[u].run)
      BY <1>4 DEF Core, OthersKept
    <2>2. T[t].kind # "none"
      BY <1>2 DEF BornIn
    <2> HIDE DEF t
    <2> QED
      BY <1>6, <2>1, <2>2 DEF TaskOK, Third
  <1>12. ASSUME NEW u \in Tasks
         PROVE  /\ Has(r, Acts, u) <=> u = t \/ Has(s, Acts, u)
                /\ Has(r, {"continue"}, u) <=> Has(s, {"continue"}, u)
                /\ Once(r, Acts, u) <=> Once(s, Acts, u) /\ ~(u = t /\ Has(s, Acts, u))
                /\ Once(r, {"continue"}, u) <=> Once(s, {"continue"}, u)
    <2>1. h.f \in Acts /\ h.f \notin {"continue"}
      BY DEF Acts
    <2> QED
      BY <1>1, <2>1, PushHas
  <1> HIDE DEF r, t
  <1>13. ASSUME NEW u \in Tasks PROVE Lives(R[u], r, k, u)
    <2>1. Lives(T[u], s, k, u)
      BY DEF Core
    <2>2. ~IsTop(r, "next", u)
      BY <1>8 DEF IsTop
    <2>3. LateTask(R[u]) <=> LateTask(T[u])
      BY <1>6 DEF LateTask
    <2>4. Closed(R[u]) <=> Closed(T[u])
      BY <1>6 DEF Closed
    <2>5. Firm(R[u]) <=> Firm(T[u])
      BY <1>6, <2>3 DEF Firm
    <2>6. u # t => R[u] = T[u]
      BY <1>4 DEF OthersKept
    <2>7. LateTask(T[t]) \/ ~Has(s, Acts, t)
      BY DEF t
    <2>8. Firm(T[t]) => ~Pending(s, k, t)
      BY DEF t
    <2> QED
      BY <1>6, <1>12, <2>1, <2>2, <2>3, <2>4, <2>5, <2>6, <2>7, <2>8 DEF Lives, Pending, PendingOK
  <1>14. Core(R, r, k)
    BY <1>5, <1>7, <1>8, <1>10, <1>11, <1>13 DEF Core
  <1> QED
    BY <1>14 DEF r

LEMMA SeqMore ==
  ASSUME NEW A, NEW C, A \subseteq C, NEW s \in Seq(A)
  PROVE  s \in Seq(C)
  OBVIOUS

\* Values that the actions answer with.
LEMMA RetIs ==
  \A x, c, b : /\ Ret(x) = [k |-> x, t |-> Nobody, tmo |-> FALSE]
              /\ [Ret(x) EXCEPT !.tmo = b] = [k |-> x, t |-> Nobody, tmo |-> b]
              /\ [Ret(x) EXCEPT !.t = c] = [k |-> x, t |-> c, tmo |-> FALSE]
  <1> DEFINE no == FALSE
             ok == "ok"
  <1>1. Ok = [k |-> ok, t |-> Nobody, tmo |-> no]
    BY DEF Ok
  <1>2. \A x, c : [k |-> x, t |-> c, tmo |-> no] = [k |-> x, t |-> c, tmo |-> FALSE]
    OBVIOUS
  <1> HIDE DEF no, ok
  <1>3. TAKE x, c, b
  <1>4. Ret(x) = [k |-> x, t |-> Nobody, tmo |-> no]
    BY <1>1 DEF Ret
  <1>5. /\ [Ret(x) EXCEPT !.tmo = b] = [k |-> x, t |-> Nobody, tmo |-> b]
        /\ [Ret(x) EXCEPT !.t = c] = [k |-> x, t |-> c, tmo |-> no]
    BY <1>4
  <1> QED
    BY <1>2, <1>4, <1>5

LEMMA WaitIn ==
  ASSUME NEW B, NEW b \in BOOLEAN, NEW x \in {"wait", "any"}
  PROVE  [k |-> x, t |-> Nobody, tmo |-> b] \in Values(B)
  <1> DEFINE A == Answers
             C == {"task", "child"}
  <1>1. x \in A /\ x \notin C
    BY DEF Answers
  <1>2. Nobody \in Tasks \cup {Nobody}
    OBVIOUS
  <1>3. Values(B) = {v \in [k : A, t : Tasks \cup {Nobody}, tmo : BOOLEAN] : v.k \in C => v.t \in B}
    BY DEF Values
  <1> HIDE DEF A, C
  <1> QED
    BY ONLY <1>1, <1>2, <1>3, b \in BOOLEAN

LEMMA ChildIn ==
  ASSUME NEW B \in SUBSET Tasks, NEW c \in B
  PROVE  [k |-> "child", t |-> c, tmo |-> FALSE] \in Values(B)
  <1> DEFINE A == Answers
             C == {"task", "child"}
             x == "child"
             b == FALSE
  <1>1. x \in A /\ b \in BOOLEAN
    BY DEF Answers
  <1>2. c \in Tasks \cup {Nobody} /\ c \in B
    OBVIOUS
  <1>3. Values(B) = {v \in [k : A, t : Tasks \cup {Nobody}, tmo : BOOLEAN] : v.k \in C => v.t \in B}
    BY DEF Values
  <1> HIDE DEF A, C, x, b
  <1>4. [k |-> x, t |-> c, tmo |-> b] \in Values(B)
    BY ONLY <1>1, <1>2, <1>3
  <1> QED
    BY <1>4 DEF x, b

LEMMA ValueIn ==
  ASSUME NEW B
  PROVE  /\ Ok \in Values(B) /\ Err \in Values(B) /\ None \in Values(B) /\ Ok # Err
         /\ ~Ok.tmo /\ ~Err.tmo
         /\ \A e : ErrOf(e) \in Values(B)
         /\ \A x \in {"wait", "promise", "any", "all"} : Ret(x) \in Values(B) /\ ~Ret(x).tmo
  <1>1. Ok = [k |-> "ok", t |-> Nobody, tmo |-> FALSE]
    BY DEF Ok
  <1>2. Err = [k |-> "err", t |-> Nobody, tmo |-> FALSE]
    BY DEF Err
  <1>3. \A x : Ret(x) = [k |-> x, t |-> Nobody, tmo |-> FALSE]
    BY RetIs
  <1>4. \A x \in Answers \ {"task", "child"} : [k |-> x, t |-> Nobody, tmo |-> FALSE] \in Values(B)
    BY DEF Values
  <1>5. Ok \in Values(B) /\ Err \in Values(B) /\ Ok # Err /\ ~Ok.tmo /\ ~Err.tmo
    BY <1>1, <1>2, <1>4 DEF Answers
  <1>6. None \in Values(B)
    BY <1>3, <1>4 DEF None, Answers
  <1>7. \A x \in {"wait", "promise", "any", "all"} : Ret(x) \in Values(B) /\ ~Ret(x).tmo
    BY <1>3, <1>4 DEF Answers
  <1> QED
    BY <1>5, <1>6, <1>7 DEF ErrOf

\* A new task.
LEMMA NewTypes ==
  ASSUME NEW T, NEW B, NEW W, Types(T, B, W), NEW B2, NEW W2, B \subseteq B2, W \subseteq W2,
         NEW t \in Tasks, NEW kind \in Kinds, NEW p \in Ref(B)
  PROVE  Types(Create(T, t, kind, p), B2, W2)
  <1> DEFINE R == Create(T, t, kind, p)
             x == [Unborn EXCEPT !.kind = kind, !.root = TRUE, !.by = p]
  <1>1. R = [T EXCEPT ![t] = x]
    BY DEF Create
  <1>2. DOMAIN x = Fields /\ x = [f \in Fields |-> x[f]]
    BY ZenonT(40) DEF Unborn, Fields
  <1>3. Shape(T) /\ IsTable(T)
    BY TableOf
  <1>4. R[t] = x /\ \A u \in Tasks \ {t} : R[u] = T[u]
    BY <1>1, <1>3 DEF Shape
  <1>5. IsTable(R)
    <2> HIDE DEF x
    <2> QED
      BY <1>1, <1>2, <1>3 DEF IsTable, Shape
  <1>6. /\ x.kind = kind /\ x.cur = 0 /\ x.next = 0 /\ x.wait = 0 /\ x.seq = 0 /\ x.i = 0
        /\ x.by = p /\ x.arr = <<>> /\ x.atcont = None /\ x.fin = <<>> /\ x.then = <<>>
        /\ x.up = Nobody /\ x.down = Nobody /\ x.parent = Nobody /\ x.child = <<>>
        /\ x.root = TRUE /\ x.free = FALSE
    BY DEF Unborn
  <1> HIDE DEF x, R
  <1>7. Ref(B) \subseteq Ref(B2) /\ Nobody \in Ref(B2)
    BY DEF Ref
  <1>8. Values(B) \subseteq Values(B2) /\ None \in Values(B2)
    <2>1. Values(B) \subseteq Values(B2)
      BY DEF Values
    <2> QED
      BY <2>1, ValueIn
  <1>9. Tokens(B) \subseteq Tokens(B2)
    BY DEF Tokens
  <1>10. TreeTypes(R, B2)
    <2> SUFFICES ASSUME NEW u \in Tasks
                 PROVE  /\ R[u].up \in Ref(B2) /\ R[u].down \in Ref(B2)
                        /\ R[u].parent \in Ref(B2) /\ R[u].child \in Seq(B2)
                        /\ R[u].root \in BOOLEAN /\ R[u].free \in BOOLEAN
      BY DEF TreeTypes
    <2>1. CASE u = t
      <3>1. R[u] = x /\ <<>> \in Seq(B2)
        BY <1>4, <2>1
      <3> QED
        BY <1>6, <1>7, <3>1
    <2>2. CASE u # t
      <3>1. R[u] = T[u]
        BY <1>4, <2>2
      <3>2. T[u].child \in Seq(B2)
        BY SeqMore DEF Types, TreeTypes
      <3> QED
        BY <1>7, <3>1, <3>2 DEF Types, TreeTypes
    <2> QED
      BY <2>1, <2>2
  <1>11. ASSUME NEW u \in Tasks PROVE DataOK(R[u], B2, W2)
    <2>1. CASE u = t
      <3>1. R[u] = x
        BY <1>4, <2>1
      <3>2. /\ <<>> \in Seq(B2) /\ <<>> \in Seq({w \in Tokens(B2) : w.n # 0})
            /\ <<>> \in Seq({w \in Tokens(B2) : w.n = 0 => w.t \in W2})
        OBVIOUS
      <3>3. p \in Ref(B2)
        BY <1>7
      <3>4. DataOK(x, B2, W2)
        BY <1>6, <1>8, <3>2, <3>3 DEF DataOK
      <3> QED
        BY <3>1, <3>4
    <2>2. CASE u # t
      <3>1. R[u] = T[u] /\ DataOK(T[u], B, W)
        BY <1>4, <2>2 DEF Types
      <3>2. T[u].arr \in Seq(B2)
        BY <3>1, SeqMore DEF DataOK
      <3>3. T[u].fin \in Seq({w \in Tokens(B2) : w.n # 0})
        BY <1>9, <3>1, SeqMore DEF DataOK
      <3>4. T[u].then \in Seq({w \in Tokens(B2) : w.n = 0 => w.t \in W2})
        BY <1>9, <3>1, SeqMore DEF DataOK
      <3> QED
        BY <1>7, <1>8, <3>1, <3>2, <3>3, <3>4 DEF DataOK
    <2> QED
      BY <2>1, <2>2
  <1> QED
    BY <1>5, <1>10, <1>11 DEF Types, R

LEMMA NewCore ==
  ASSUME NEW T, NEW s, NEW k, Core(T, s, k), NEW t \in Tasks \ BornIn(T), NEW kind \in Kinds \ {"none"},
         NEW p \in Ref(BornIn(T)), NEW R, R = Create(T, t, kind, p)
  PROVE  /\ Core(R, s, k) /\ BornIn(R) = BornIn(T) \cup {t}
         /\ WaitersIn(T) \subseteq WaitersIn(R) /\ (kind = "waiter" => t \in WaitersIn(R))
         /\ AllClosed(T) => AllClosed(R)
         /\ ~Has(s, Acts, t) /\ ~Pending(s, k, t) /\ Closed(R[t]) /\ R[t].run = "never"
         /\ OthersKept(T, R, t)
  <1> DEFINE B == BornIn(T)
             C == B \cup {t}
  <1>1. s \in Seq(Frames(B)) /\ k \in Seq(Ticks(B)) /\ AllOK(s, T) /\ Shape(T)
    BY TableOf DEF Core
  <1>2. T[t].kind = "none" /\ T[t].run = "never" /\ Firm(T[t]) /\ ~LateTask(T[t])
    BY DEF BornIn, Core, TaskOK, Firm, LateTask, One
  <1>3. /\ R[t].kind = kind /\ R[t].run = "never" /\ R[t].wait = 0 /\ R[t].timer = FALSE
        /\ R[t].next = 0 /\ R[t].stray = 0
        /\ OthersKept(T, R, t)
    BY <1>1 DEF Create, Shape, Unborn, OthersKept
  <1>4. BornIn(R) = C
    BY <1>3 DEF BornIn, OthersKept
  <1>5. WaitersIn(T) \subseteq WaitersIn(R) /\ (kind = "waiter" => t \in WaitersIn(R))
    BY <1>2, <1>3 DEF WaitersIn, OthersKept
  <1>6. Types(R, C, WaitersIn(R))
    BY <1>5, NewTypes DEF Core
  <1>7. ~Has(s, Acts, t)
    <2> SUFFICES ASSUME NEW i \in DOMAIN s, s[i].t = t, s[i].f \in Acts PROVE FALSE
      BY DEF Has
    <2>1. ActOK(s[i], T[t])
      BY <1>1 DEF AllOK, FrameOK
    <2> QED
      BY <1>2, <2>1 DEF ActOK
  <1>8. ~Pending(s, k, t)
    BY <1>2 DEF Core, Lives, PendingOK
  <1>9. s \in Seq(Frames(C)) /\ k \in Seq(Ticks(C))
    <2>1. Values(B) \subseteq Values(C)
      BY DEF Values
    <2>2. Frames(B) \subseteq Frames(C)
      BY <2>1 DEF Frames
    <2>3. Ticks(B) \subseteq Ticks(C)
      BY <2>2 DEF Ticks
    <2> QED
      BY <1>1, <2>2, <2>3, SeqMore
  <1>10. AllOK(s, R)
    <2> SUFFICES ASSUME NEW i \in DOMAIN s PROVE FrameOK(s[i], R)
      BY DEF AllOK
    <2>1. s[i] \in Frames(B) /\ FrameOK(s[i], T)
      BY <1>1 DEF AllOK
    <2>2. s[i].t \in Tasks /\ s[i].t # t
      BY <2>1 DEF Frames, BornIn
    <2>3. R[s[i].t] = T[s[i].t]
      BY <1>3, <2>2 DEF OthersKept
    <2> QED
      BY <2>1, <2>3 DEF FrameOK
  <1>11. ASSUME NEW u \in Tasks PROVE TaskOK(R[u])
    <2>1. CASE u = t
      BY <1>3, <2>1 DEF TaskOK
    <2>2. CASE u # t
      BY <1>3, <2>2 DEF OthersKept, Core
    <2> QED
      BY <2>1, <2>2
  <1>12. ASSUME NEW u \in Tasks PROVE Lives(R[u], s, k, u)
    <2>1. CASE u = t
      <3>1. Once(s, Acts, t)
        BY <1>7 DEF Has, Once
      <3>2. Closed(R[t])
        BY <1>3 DEF Closed
      <3> QED
        BY <1>3, <1>7, <1>8, <2>1, <3>1, <3>2 DEF Lives
    <2>2. CASE u # t
      BY <1>3, <2>2 DEF OthersKept, Core
    <2> QED
      BY <2>1, <2>2
  <1>13. AllClosed(T) => AllClosed(R)
    BY <1>3 DEF AllClosed, OthersKept
  <1>14. Core(R, s, k)
    BY <1>4, <1>6, <1>9, <1>10, <1>11, <1>12 DEF Core
  <1>15. Closed(R[t])
    BY <1>3 DEF Closed
  <1> QED
    BY <1>3, <1>4, <1>5, <1>7, <1>8, <1>13, <1>14, <1>15

\* A task that does not run waits.
LEMMA WaitCore ==
  ASSUME NEW T, NEW s, NEW k, Core(T, s, k), Inner(s), NEW t \in BornIn(T), NEW op, NEW on,
         NEW R, R = SetWait(T, t, op, on), T[t].run # "yes",
         Firm(T[t]) => ~Pending(s, k, t)
  PROVE  /\ Core(R, s, k) /\ BornIn(R) = BornIn(T) /\ WaitersIn(R) = WaitersIn(T)
         /\ AllClosed(T) => AllClosed(R)
         /\ FieldsKept(T, R, {"wait", "seq", "wop", "won", "wdone"})
         /\ R[t].wait = T[t].seq + 1 /\ R[t].wait \in Nat \ {0} /\ R[t].seq = T[t].seq + 1
         /\ R[t].run # "yes"
  <1> DEFINE B == BornIn(T)
  <1>1. s \in Seq(Frames(B)) /\ AllOK(s, T) /\ t \in Tasks /\ Shape(T) /\ IsTable(T) /\ T[t].seq \in Nat
    BY TableOf DEF Core, BornIn, Types, DataOK
  <1>2. /\ FieldsKept(T, R, {"wait", "seq", "wop", "won", "wdone"}) /\ OthersKept(T, R, t)
        /\ R[t].wait = T[t].seq + 1 /\ R[t].seq = T[t].seq + 1 /\ IsTable(R)
    <2> DEFINE n == T[t].seq + 1
               no == FALSE
    <2>1. /\ R = [T EXCEPT ![t].wait = n, ![t].seq = n, ![t].wop = op, ![t].won = on, ![t].wdone = no]
          /\ Shape(T) /\ IsTable(T) /\ t \in Tasks
      BY <1>1 DEF SetWait, Shape, Fields
    <2> HIDE DEF n, no
    <2>2. FieldsKept(T, R, {"wait", "seq", "wop", "won", "wdone"})
      BY ONLY <2>1, ZenonT(40) DEF FieldsKept, Shape, Fields
    <2>3. OthersKept(T, R, t)
      BY ONLY <2>1 DEF OthersKept, Shape
    <2>4. R[t].wait = n /\ R[t].seq = n
      BY ONLY <2>1 DEF Shape, Fields
    <2>5. IsTable(R)
      BY ONLY <2>1 DEF IsTable, Shape
    <2> QED
      BY <2>2, <2>3, <2>4, <2>5 DEF n
  <1>3. R[t].wait \in Nat \ {0} /\ R[t].seq \in Nat
    BY <1>1, <1>2
  <1>4. \A u \in Tasks : /\ R[u].kind = T[u].kind /\ R[u].late = T[u].late /\ R[u].cur = T[u].cur
                         /\ R[u].next = T[u].next /\ R[u].run = T[u].run
                         /\ R[u].timer = T[u].timer /\ R[u].stray = T[u].stray /\ R[u].atret = T[u].atret
    BY <1>2 DEF FieldsKept, Fields
  <1>5. BornIn(R) = B /\ WaitersIn(R) = WaitersIn(T)
    <2>1. \A u \in Tasks : R[u].kind = T[u].kind
      BY <1>4
    <2> QED
      BY <2>1, BornSame
  <1>6. Types(R, B, WaitersIn(T))
    <2>1. \A u \in Tasks : R[u].wait \in Nat /\ R[u].seq \in Nat
      <3>1. \A u \in Tasks : T[u].wait \in Nat /\ T[u].seq \in Nat
        BY DEF Core, Types, DataOK
      <3> QED
        BY <1>2, <1>3, <3>1 DEF OthersKept
    <2> HIDE DEF B
    <2>2. Types(T, B, WaitersIn(T))
      BY DEF Core, B
    <2>3. {"wait", "seq", "wop", "won", "wdone"} \in SUBSET LooseFields
      BY DEF LooseFields
    <2> QED
      BY <1>2, <2>1, <2>2, <2>3, TypesKept
  <1>7. AllOK(s, R)
    <2> SUFFICES ASSUME NEW i \in DOMAIN s PROVE FrameOK(s[i], R)
      BY DEF AllOK
    <2>1. s[i] \in Frames(B) /\ FrameOK(s[i], T)
      BY <1>1 DEF AllOK
    <2>2. s[i].t \in Tasks
      BY <2>1 DEF Frames, BornIn
    <2> QED
      BY <1>4, <2>1, <2>2 DEF FrameOK, ActOK, LateTask, Asking
  <1>8. ASSUME NEW u \in Tasks PROVE TaskOK(R[u])
    <2>1. TaskOK(T[u]) /\ (u # t => R[u] = T[u]) /\ T[t].kind # "none"
      BY <1>2 DEF Core, OthersKept, BornIn
    <2> QED
      BY <1>4, <2>1 DEF TaskOK, Third
  <1>9. ASSUME NEW u \in Tasks PROVE Lives(R[u], s, k, u)
    <2>1. Lives(T[u], s, k, u) /\ (u # t => R[u] = T[u])
      BY <1>2 DEF Core, OthersKept
    <2>2. ~IsTop(s, "next", u)
      <3>1. s # <<>> => 1 \in DOMAIN s /\ Head(s) = s[1]
        BY <1>1
      <3> QED
        BY <3>1 DEF Inner, IsTop
    <2>3. LateTask(R[u]) <=> LateTask(T[u])
      BY <1>4 DEF LateTask
    <2>4. Firm(R[u]) <=> Firm(T[u])
      BY <1>4, <2>3 DEF Firm
    <2> QED
      BY <1>4, <2>1, <2>2, <2>3, <2>4 DEF Lives
  <1>10. AllClosed(T) => AllClosed(R)
    BY <1>2, <1>4 DEF AllClosed, OthersKept
  <1>11. Core(R, s, k)
    BY <1>1, <1>5, <1>6, <1>7, <1>8, <1>9 DEF Core
  <1> QED
    BY <1>1, <1>2, <1>3, <1>4, <1>5, <1>10, <1>11

\* Changes that start nothing, B and W the tasks and the waiters there are.
Soft(T, R, B, W) == Types(R, B, W) /\ \A u \in Tasks : Gentle(T[u], R[u])

LEMMA SoftSelf ==
  ASSUME NEW B, NEW W, NEW T, Types(T, B, W)
  PROVE  Soft(T, T, B, W)
  BY DEF Soft, Gentle

LEMMA SoftTrans ==
  ASSUME NEW B, NEW W, NEW T, NEW R, NEW Q, Soft(T, R, B, W), Soft(R, Q, B, W)
  PROVE  Soft(T, Q, B, W)
  <1>1. ASSUME NEW u \in Tasks PROVE Gentle(T[u], Q[u])
    <2>1. Gentle(T[u], R[u]) /\ Gentle(R[u], Q[u])
      BY DEF Soft
    <2> QED
      BY <2>1 DEF Gentle
  <1> QED
    BY <1>1 DEF Soft

LEMMA SoftTree ==
  ASSUME NEW B, NEW W, NEW T, NEW R, Types(T, B, W), TreeKept(T, R, B)
  PROVE  Soft(T, R, B, W)
  <1>1. \A u \in Tasks :
           /\ R[u].kind = T[u].kind /\ R[u].cur = T[u].cur /\ R[u].next = T[u].next
           /\ R[u].run = T[u].run /\ R[u].late = T[u].late /\ R[u].wait = T[u].wait
           /\ R[u].wdone = T[u].wdone /\ R[u].timer = T[u].timer /\ R[u].stray = T[u].stray /\ R[u].atret = T[u].atret
           /\ R[u].seq = T[u].seq /\ R[u].i = T[u].i /\ R[u].by = T[u].by /\ R[u].arr = T[u].arr
           /\ R[u].atcont = T[u].atcont /\ R[u].fin = T[u].fin /\ R[u].then = T[u].then
    BY DEF TreeKept, Fields, TreeFields
  <1>2. ASSUME NEW u \in Tasks PROVE Gentle(T[u], R[u])
    BY <1>1 DEF Gentle, LateTask, Closed
  <1>3. ASSUME NEW u \in Tasks PROVE DataOK(R[u], B, W)
    <2>1. DataOK(T[u], B, W)
      BY DEF Types
    <2> QED
      BY <1>1, <2>1 DEF DataOK
  <1> QED
    BY <1>2, <1>3 DEF Soft, Types, TreeKept

\* The fields that only data depends on.
DataFields == {"err", "wop", "won", "done", "seq", "fin", "then", "i", "atcont"}
LEMMA SoftData ==
  ASSUME NEW B, NEW W, NEW T, Types(T, B, W), NEW R, Types(R, B, W), FieldsKept(T, R, DataFields)
  PROVE  Soft(T, R, B, W)
  <1>1. \A u \in Tasks :
           /\ R[u].kind = T[u].kind /\ R[u].cur = T[u].cur /\ R[u].next = T[u].next
           /\ R[u].run = T[u].run /\ R[u].late = T[u].late /\ R[u].wait = T[u].wait
           /\ R[u].wdone = T[u].wdone /\ R[u].timer = T[u].timer /\ R[u].stray = T[u].stray /\ R[u].atret = T[u].atret
    BY DEF FieldsKept, Fields, DataFields
  <1> QED
    BY <1>1 DEF Soft, Gentle, LateTask, Closed

LEMMA SoftCore ==
  ASSUME NEW T, NEW R, NEW s, NEW k, Core(T, s, k), Soft(T, R, BornIn(T), WaitersIn(T))
  PROVE  /\ Core(R, s, k) /\ BornIn(R) = BornIn(T) /\ WaitersIn(R) = WaitersIn(T)
         /\ AllClosed(T) => AllClosed(R)
  BY GentleCore DEF Soft

\* Changes of one field of a task.
SetOne(T, t, f, v) == [T EXCEPT ![t][f] = v]

LEMMA OneField ==
  ASSUME NEW T, Shape(T), IsTable(T), NEW t \in Tasks, NEW f \in Fields, NEW v,
         NEW R, R = SetOne(T, t, f, v)
  PROVE  IsTable(R) /\ Shape(R) /\ FieldsKept(T, R, {f}) /\ OthersKept(T, R, t) /\ R[t][f] = v
  <1>0. R = [T EXCEPT ![t][f] = v]
    BY DEF SetOne
  <1>1. IsTable(R)
    BY <1>0 DEF IsTable, Shape
  <1>2. Shape(R)
    BY <1>0 DEF Shape
  <1>3. FieldsKept(T, R, {f})
    BY <1>0 DEF FieldsKept, Shape
  <1>4. OthersKept(T, R, t)
    BY <1>0 DEF OthersKept, Shape
  <1> QED
    BY <1>0, <1>1, <1>2, <1>3, <1>4 DEF Shape

LEMMA SoftErr ==
  ASSUME NEW B, NEW W, NEW T, Types(T, B, W), NEW t \in Tasks, NEW v
  PROVE  Soft(T, SetRetval(T, t, v), B, W) /\ FieldsKept(T, SetRetval(T, t, v), {"err"})
  <1>1. CASE v.k \in {"ok", "err"}
    <2> DEFINE e == (v.k = "err")
               R == [T EXCEPT ![t].err = e]
    <2>1. SetRetval(T, t, v) = R
      BY <1>1 DEF SetRetval
    <2> HIDE DEF e
    <2>2. IsTable(R) /\ FieldsKept(T, R, {"err"})
      <3> DEFINE f == "err"
                 z == e
      <3>1. R = SetOne(T, t, f, z) /\ f \in Fields /\ t \in Tasks /\ Shape(T) /\ IsTable(T)
        BY TableOf DEF Fields, SetOne
      <3> HIDE DEF f, z, R
      <3>2. IsTable(R) /\ FieldsKept(T, R, {f}) /\ R[t][f] = z /\ OthersKept(T, R, t)
        BY ONLY <3>1, OneField
      <3> QED
        BY <3>2 DEF f, z
    <2> HIDE DEF R
    <2>3. Types(R, B, W)
      BY <2>2, TypesKept DEF LooseFields
    <2>4. FieldsKept(T, R, DataFields)
      BY <2>2 DEF FieldsKept, DataFields
    <2> QED
      BY <2>1, <2>2, <2>3, <2>4, SoftData
  <1>2. CASE v.k \notin {"ok", "err"}
    BY <1>2, SoftSelf DEF SetRetval, FieldsKept
  <1> QED
    BY <1>1, <1>2

LEMMA SoftCont ==
  ASSUME NEW B, NEW W, NEW T, Types(T, B, W), NEW t \in Tasks, NEW v
  PROVE  /\ Soft(T, ContinueTask(T, t, v), B, W)
         /\ ContinueTask(T, t, v)[t].wait = 0
         /\ FieldsKept(T, ContinueTask(T, t, v), {"wait", "err"})
  <1> DEFINE R == [T EXCEPT ![t].wait = 0]
             Q == SetRetval(R, t, v)
  <1>2. ContinueTask(T, t, v) = Q
    BY DEF ContinueTask
  <1>1. IsTable(R) /\ FieldsKept(T, R, {"wait"}) /\ R[t].wait = 0 /\ OthersKept(T, R, t)
    <2> DEFINE f == "wait"
               z == 0
    <2>1. R = SetOne(T, t, f, z) /\ f \in Fields /\ t \in Tasks /\ Shape(T) /\ IsTable(T)
      BY TableOf DEF Fields, SetOne
    <2> HIDE DEF f, z, R
    <2>2. IsTable(R) /\ FieldsKept(T, R, {f}) /\ R[t][f] = z /\ OthersKept(T, R, t)
      BY ONLY <2>1, OneField
    <2> QED
      BY <2>2 DEF f, z
  <1> HIDE DEF R
  <1>3. Types(R, B, W)
    <2>1. \A u \in Tasks : R[u].wait \in Nat
      <3>1. \A u \in Tasks : T[u].wait \in Nat
        BY DEF Types, DataOK
      <3> QED
        BY <1>1, <3>1 DEF OthersKept
    <2> QED
      BY <1>1, <2>1, TypesKept DEF LooseFields
  <1>4. \A u \in Tasks :
           /\ R[u].kind = T[u].kind /\ R[u].cur = T[u].cur /\ R[u].next = T[u].next
           /\ R[u].run = T[u].run /\ R[u].late = T[u].late
           /\ R[u].wdone = T[u].wdone /\ R[u].timer = T[u].timer /\ R[u].stray = T[u].stray /\ R[u].atret = T[u].atret
           /\ R[u].wait \in {T[u].wait, 0}
    BY <1>1 DEF FieldsKept, Fields, OthersKept
  <1>5. Soft(T, R, B, W)
    BY <1>3, <1>4 DEF Soft, Gentle, LateTask, Closed
  <1>6. Soft(R, Q, B, W) /\ FieldsKept(R, Q, {"err"})
    BY <1>3, SoftErr
  <1> HIDE DEF Q
  <1>7. Soft(T, Q, B, W)
    BY <1>5, <1>6, SoftTrans
  <1>8. Q[t].wait = 0
    BY <1>1, <1>6 DEF FieldsKept, Fields
  <1>9. FieldsKept(T, Q, {"wait", "err"})
    BY <1>1, <1>6 DEF FieldsKept
  <1> QED
    BY <1>2, <1>7, <1>8, <1>9

LEMMA SoftReturn ==
  ASSUME NEW B, NEW W, NEW T, Types(T, B, W), NEW t \in Tasks, NEW v
  PROVE  /\ Soft(T, ReturnTask(T, t, v), B, W)
         /\ ~T[t].done => ReturnTask(T, t, v)[t].atret
         /\ FieldsKept(T, ReturnTask(T, t, v), {"wait", "err", "atret", "next"})
  <1>1. CASE T[t].done
    <2>1. Soft(T, SetRetval(T, t, v), B, W) /\ FieldsKept(T, SetRetval(T, t, v), {"err"})
      BY SoftErr
    <2> QED
      BY <1>1, <2>1 DEF ReturnTask, FieldsKept
  <1>2. CASE ~T[t].done
    <2> DEFINE R == [T EXCEPT ![t].atret = TRUE, ![t].next = 0]
               Q == ContinueTask(R, t, v)
    <2>1. ReturnTask(T, t, v) = Q
      BY <1>2 DEF ReturnTask
    <2>2. /\ IsTable(R) /\ FieldsKept(T, R, {"atret", "next"})
          /\ R[t].atret = TRUE /\ R[t].next = 0 /\ OthersKept(T, R, t)
      <3>1. Shape(T) /\ IsTable(T)
        BY TableOf
      <3>2. IsTable(R)
        BY <3>1 DEF IsTable, Shape
      <3>3. FieldsKept(T, R, {"atret", "next"})
        BY <3>1 DEF FieldsKept, Shape, Fields
      <3>4. R[t].atret = TRUE /\ R[t].next = 0
        BY <3>1 DEF Shape, Fields
      <3>5. OthersKept(T, R, t)
        BY <3>1 DEF OthersKept, Shape
      <3> QED
        BY <3>2, <3>3, <3>4, <3>5
    <2> HIDE DEF R
    <2>3. Types(R, B, W)
      <3>0. \A u \in Tasks : T[u].next \in Nat
        BY DEF Types, DataOK
      <3>1. \A u \in Tasks : R[u].next \in Nat
        BY <2>2, <3>0 DEF OthersKept
      <3> QED
        BY <2>2, <3>1, TypesKept DEF LooseFields
    <2>4. \A u \in Tasks :
             /\ R[u].kind = T[u].kind /\ R[u].cur = T[u].cur /\ R[u].next \in {T[u].next, 0}
             /\ R[u].run = T[u].run /\ R[u].late = T[u].late /\ R[u].wait = T[u].wait
             /\ R[u].wdone = T[u].wdone /\ R[u].timer = T[u].timer /\ R[u].stray = T[u].stray
             /\ R[u].atret = T[u].atret \/ R[u].atret = TRUE
      BY <2>2 DEF FieldsKept, Fields, OthersKept
    <2>5. Soft(T, R, B, W)
      BY <2>3, <2>4 DEF Soft, Gentle, LateTask, Closed
    <2>6. Soft(R, Q, B, W) /\ FieldsKept(R, Q, {"wait", "err"})
      BY <2>3, SoftCont
    <2> HIDE DEF Q
    <2>7. Soft(T, Q, B, W)
      BY <2>5, <2>6, SoftTrans
    <2>8. Q[t].atret
      BY <2>2, <2>6 DEF FieldsKept, Fields
    <2>9. FieldsKept(T, Q, {"wait", "err", "atret", "next"})
      BY <2>2, <2>6 DEF FieldsKept
    <2> QED
      BY <2>1, <2>7, <2>8, <2>9
  <1> QED
    BY <1>1, <1>2

LEMMA SoftDel ==
  ASSUME NEW B, NEW W, NEW T, Types(T, B, W), NEW t \in Tasks
  PROVE  /\ Soft(T, DelWaitTimer(T, t), B, W)
         /\ DelWaitTimer(T, t)[t].wait = 0 /\ DelWaitTimer(T, t)[t].timer = FALSE
         /\ FieldsKept(T, DelWaitTimer(T, t), {"wait", "timer"})
         /\ OthersKept(T, DelWaitTimer(T, t), t)
  <1> DEFINE R == [T EXCEPT ![t].timer = FALSE, ![t].wait = 0]
  <1>1. DelWaitTimer(T, t) = R
    BY DEF DelWaitTimer
  <1>2. /\ IsTable(R) /\ FieldsKept(T, R, {"wait", "timer"})
        /\ R[t].timer = FALSE /\ R[t].wait = 0 /\ OthersKept(T, R, t)
    <2>1. Shape(T) /\ IsTable(T)
      BY TableOf
    <2>2. IsTable(R)
      BY <2>1 DEF IsTable, Shape
    <2>3. FieldsKept(T, R, {"wait", "timer"})
      BY <2>1 DEF FieldsKept, Shape, Fields
    <2>4. R[t].timer = FALSE /\ R[t].wait = 0
      BY <2>1 DEF Shape, Fields
    <2>5. OthersKept(T, R, t)
      BY <2>1 DEF OthersKept, Shape
    <2> QED
      BY <2>2, <2>3, <2>4, <2>5
  <1> HIDE DEF R
  <1>3. Types(R, B, W)
    <2>0. \A u \in Tasks : T[u].wait \in Nat
      BY DEF Types, DataOK
    <2>1. \A u \in Tasks : R[u].wait \in Nat
      BY <1>2, <2>0 DEF OthersKept
    <2> QED
      BY <1>2, <2>1, TypesKept DEF LooseFields
  <1>4. \A u \in Tasks :
           /\ R[u].kind = T[u].kind /\ R[u].cur = T[u].cur /\ R[u].next = T[u].next
           /\ R[u].run = T[u].run /\ R[u].late = T[u].late
           /\ R[u].wdone = T[u].wdone /\ R[u].atret = T[u].atret
           /\ R[u].wait = T[u].wait \/ R[u].wait = 0
           /\ R[u].timer = T[u].timer \/ R[u].timer = FALSE
           /\ R[u].stray = T[u].stray
    BY <1>2 DEF FieldsKept, Fields, OthersKept
  <1>5. Soft(T, R, B, W)
    BY <1>3, <1>4 DEF Soft, Gentle, LateTask, Closed
  <1> QED
    BY <1>1, <1>2, <1>5

LEMMA SoftAtcont ==
  ASSUME NEW B, NEW W, NEW T, Types(T, B, W), NEW t \in Tasks, NEW v \in Values(B)
  PROVE  /\ Soft(T, [T EXCEPT ![t].atcont = v], B, W)
         /\ FieldsKept(T, [T EXCEPT ![t].atcont = v], {"atcont"})
         /\ OthersKept(T, [T EXCEPT ![t].atcont = v], t)
  <1> DEFINE R == [T EXCEPT ![t].atcont = v]
  <1>1. IsTable(R) /\ FieldsKept(T, R, {"atcont"}) /\ R[t].atcont = v /\ OthersKept(T, R, t)
    <2> DEFINE f == "atcont"
               z == v
    <2>1. R = SetOne(T, t, f, z) /\ f \in Fields /\ t \in Tasks /\ Shape(T) /\ IsTable(T)
      BY TableOf DEF Fields, SetOne
    <2> HIDE DEF f, z, R
    <2>2. IsTable(R) /\ FieldsKept(T, R, {f}) /\ R[t][f] = z /\ OthersKept(T, R, t)
      BY ONLY <2>1, OneField
    <2> QED
      BY <2>2 DEF f, z
  <1> HIDE DEF R
  <1>2. Types(R, B, W)
    <2>1. \A u \in Tasks : R[u].atcont \in Values(B)
      BY <1>1 DEF Types, DataOK, OthersKept
    <2> QED
      BY <1>1, <2>1, TypesKept DEF LooseFields
  <1>3. FieldsKept(T, R, DataFields)
    BY <1>1 DEF FieldsKept, DataFields
  <1>4. Soft(T, R, B, W)
    BY <1>2, <1>3, SoftData
  <1> QED
    BY <1>1, <1>4 DEF R

LEMMA SoftKeeps ==
  ASSUME NEW B, NEW W, NEW T, Types(T, B, W), Self \in Tasks, NEW v \in Values(B)
  PROVE  /\ Soft(T, Keeps(T, v), B, W)
         /\ Keeps(T, v)[Self].wait = 0 /\ Keeps(T, v)[Self].timer = FALSE
         /\ FieldsKept(T, Keeps(T, v), {"wait", "timer", "atcont"})
         /\ OthersKept(T, Keeps(T, v), Self)
  <1> DEFINE R == DelWaitTimer(T, Self)
             Q == [R EXCEPT ![Self].atcont = v]
  <1>1. Keeps(T, v) = Q
    BY DEF Keeps
  <1>2. /\ Soft(T, R, B, W) /\ R[Self].wait = 0 /\ R[Self].timer = FALSE
        /\ FieldsKept(T, R, {"wait", "timer"}) /\ OthersKept(T, R, Self)
    BY SoftDel
  <1> HIDE DEF R
  <1>3. Types(R, B, W)
    BY <1>2 DEF Soft
  <1>4. Soft(R, Q, B, W) /\ FieldsKept(R, Q, {"atcont"}) /\ OthersKept(R, Q, Self)
    BY <1>3, SoftAtcont
  <1> HIDE DEF Q
  <1>5. Soft(T, Q, B, W)
    BY <1>2, <1>4, SoftTrans
  <1>6. Q[Self].wait = 0 /\ Q[Self].timer = FALSE
    BY <1>2, <1>4 DEF FieldsKept, Fields
  <1>7. FieldsKept(T, Q, {"wait", "timer", "atcont"}) /\ OthersKept(T, Q, Self)
    BY <1>2, <1>4 DEF FieldsKept, OthersKept
  <1> QED
    BY <1>1, <1>5, <1>6, <1>7

\* A change of one task whose state runs or has just run.
LEMMA ChangeCore ==
  ASSUME NEW T, NEW R, NEW s, NEW k, Core(T, s, k), Types(R, BornIn(T), WaitersIn(T)),
         NEW t \in Tasks, \A u \in Tasks \ {t} : Gentle(T[u], R[u]),
         R[t].kind = T[t].kind, R[t].run = T[t].run, LateTask(T[t]) => LateTask(R[t]),
         Closed(T[t]) => Closed(R[t]), T[t].atret => R[t].atret,
         TaskOK(R[t]), AllOK(s, R), ~IsTop(s, "next", t)
  PROVE  /\ Core(R, s, k) /\ BornIn(R) = BornIn(T) /\ WaitersIn(R) = WaitersIn(T)
         /\ AllClosed(T) => AllClosed(R)
  <1> DEFINE B == BornIn(T)
  <1>1. BornIn(R) = B /\ WaitersIn(R) = WaitersIn(T)
    <2>1. \A u \in Tasks : R[u].kind = T[u].kind
      BY DEF Gentle
    <2> QED
      BY <2>1, BornSame
  <1>2. ASSUME NEW u \in Tasks PROVE TaskOK(R[u])
    <2>1. CASE u = t
      BY <2>1
    <2>2. CASE u # t
      <3>1. TaskOK(T[u]) /\ Gentle(T[u], R[u])
        BY <2>2 DEF Core
      <3> QED
        BY <3>1 DEF TaskOK, Gentle, Third
    <2> QED
      BY <2>1, <2>2
  <1>3. ASSUME NEW u \in Tasks PROVE Lives(R[u], s, k, u)
    <2>1. Lives(T[u], s, k, u) /\ (u # t => Gentle(T[u], R[u]))
      BY DEF Core
    <2>2. Firm(R[u]) => Firm(T[u])
      BY <2>1 DEF Gentle, Firm
    <2>3. u # t /\ (T[u].kind = "gen" /\ Third(T[u])) => (R[u].kind = "gen" /\ Third(R[u]))
      BY <2>1 DEF Gentle, Third
    <2>4. Firm(R[u]) /\ Pending(s, k, u) => PendingOK(R[u], s, k, u)
      BY <2>1, <2>2 DEF Lives, PendingOK, Gentle
    <2> QED
      BY <2>1, <2>2, <2>3, <2>4 DEF Lives, Gentle
  <1>4. AllClosed(T) => AllClosed(R)
    BY DEF AllClosed, Gentle, Firm
  <1> QED
    BY <1>1, <1>2, <1>3, <1>4 DEF Core

\* A timer is started with a wait.
LEMMA TimerCore ==
  ASSUME NEW T, NEW s, NEW k, Core(T, s, k), Inner(s), NEW t \in BornIn(T), NEW v \in BOOLEAN,
         NEW R, R = SetWaitTimer(T, t, v), v => T[t].kind \in Timed /\ Asking(T[t]),
         v /\ T[t].kind = "gen" => ~T[t].timer /\ ~Has(s, Acts, t)
  PROVE  /\ Core(R, s, k) /\ BornIn(R) = BornIn(T) /\ WaitersIn(R) = WaitersIn(T)
         /\ AllClosed(T) => AllClosed(R)
         /\ FieldsKept(T, R, {"timer", "stray"})
  <1> DEFINE B == BornIn(T)
             e == IF T[t].timer THEN T[t].stray + 1 ELSE T[t].stray
  <1>1. t \in Tasks /\ s \in Seq(Frames(B)) /\ AllOK(s, T) /\ Types(T, B, WaitersIn(T))
        /\ Shape(T) /\ IsTable(T)
    BY TableOf DEF Core, BornIn
  <1>2. CASE ~v
    <2>1. R = T
      BY <1>2 DEF SetWaitTimer
    <2> QED
      BY <2>1 DEF FieldsKept
  <1>3. CASE v
    <2>1. R = [T EXCEPT ![t].stray = e, ![t].timer = TRUE]
      BY <1>1, <1>3 DEF SetWaitTimer, Shape, Fields
    <2> HIDE DEF e
    <2>2. IsTable(R) /\ FieldsKept(T, R, {"timer", "stray"}) /\ OthersKept(T, R, t)
          /\ R[t].timer = TRUE /\ R[t].stray = e
      <3>1. IsTable(R)
        BY <1>1, <2>1 DEF IsTable, Shape
      <3>2. FieldsKept(T, R, {"timer", "stray"})
        <4>1. ASSUME NEW u \in Tasks, NEW f \in Fields \ {"timer", "stray"}
              PROVE  R[u][f] = T[u][f]
          <5>1. DOMAIN T = Tasks /\ DOMAIN T[t] = Fields
            BY <1>1 DEF Shape
          <5>2. CASE u = t
            BY ONLY <1>1, <2>1, <5>1, <5>2, f \in Fields, f # "timer", f # "stray"
          <5>3. CASE u # t
            BY ONLY <1>1, <2>1, <5>1, <5>3, u \in Tasks
          <5> QED
            BY <5>2, <5>3
        <4> QED
          BY <4>1 DEF FieldsKept
      <3>3. OthersKept(T, R, t)
        BY <1>1, <2>1 DEF OthersKept, Shape
      <3>4. R[t].timer = TRUE /\ R[t].stray = e
        BY <1>1, <2>1 DEF Shape, Fields
      <3> QED
        BY <3>1, <3>2, <3>3, <3>4
    <2>3. Types(R, B, WaitersIn(T))
      BY <1>1, <2>2, TypesKept DEF LooseFields
    <2>4. \A u \in Tasks :
             /\ R[u].kind = T[u].kind /\ R[u].cur = T[u].cur /\ R[u].next = T[u].next
             /\ R[u].run = T[u].run /\ R[u].late = T[u].late /\ R[u].wait = T[u].wait
             /\ R[u].wdone = T[u].wdone /\ R[u].atret = T[u].atret
      BY <2>2 DEF FieldsKept, Fields
    <2>5. \A u \in Tasks \ {t} : Gentle(T[u], R[u])
      BY <2>2 DEF OthersKept, Gentle
    <2>6. AllOK(s, R)
      <3> SUFFICES ASSUME NEW i \in DOMAIN s PROVE FrameOK(s[i], R)
        BY DEF AllOK
      <3>1. s[i] \in Frames(B) /\ FrameOK(s[i], T)
        BY <1>1 DEF AllOK
      <3>2. s[i].t \in Tasks
        BY <3>1 DEF Frames, BornIn
      <3>3. s[i].f \in Acts /\ s[i].t = t => T[t].kind # "gen"
        BY <1>3 DEF Has
      <3>4. s[i].t # t => R[s[i].t] = T[s[i].t]
        BY <2>2, <3>2 DEF OthersKept
      <3> QED
        BY <2>4, <3>1, <3>2, <3>3, <3>4 DEF FrameOK, ActOK, LateTask, Asking
    <2>7. TaskOK(R[t])
      <3>1. TaskOK(T[t])
        BY <1>1 DEF Core
      <3>2. R[t].kind \in Timed /\ Third(R[t])
        <4>1. T[t].kind \in Timed /\ Asking(T[t])
          BY <1>3
        <4>2. R[t].kind \in Timed /\ Asking(R[t])
          BY <1>1, <2>4, <4>1 DEF Asking
        <4> QED
          BY <4>2 DEF Asking, Third
      <3>3. R[t].stray # 0 => R[t].kind \in Handless
        <4>1. R[t].kind = "gen" => R[t].stray = T[t].stray
          BY <1>1, <1>3, <2>2, <2>4 DEF e
        <4> QED
          BY <1>1, <2>4, <3>1, <3>2, <4>1 DEF TaskOK, Timed, Handless
      <3> QED
        BY <1>1, <2>4, <3>1, <3>2, <3>3 DEF TaskOK, Closed
    <2>8. ~IsTop(s, "next", t)
      <3>1. s # <<>> => 1 \in DOMAIN s /\ Head(s) = s[1]
        BY <1>1
      <3> QED
        BY <3>1 DEF Inner, IsTop
    <2>9. /\ R[t].kind = T[t].kind /\ R[t].run = T[t].run /\ (LateTask(T[t]) => LateTask(R[t]))
          /\ (Closed(T[t]) => Closed(R[t])) /\ (T[t].atret => R[t].atret)
      BY <1>1, <2>4 DEF LateTask, Closed
    <2> QED
      BY <1>1, <2>2, <2>3, <2>5, <2>6, <2>7, <2>8, <2>9, ChangeCore
  <1> QED
    BY <1>2, <1>3

\* A state of a list of states says that it comes again.
LEMMA NextCore ==
  ASSUME NEW T, NEW s, NEW k, Core(T, s, k), NEW t \in BornIn(T), T[t].kind \notin One \cup {"gen"},
         ~IsTop(s, "next", t),
         NEW v \in Nat, NEW R, R = SetOne(T, t, "next", v)
  PROVE  /\ Core(R, s, k) /\ BornIn(R) = BornIn(T) /\ WaitersIn(R) = WaitersIn(T)
         /\ AllClosed(T) => AllClosed(R)
         /\ FieldsKept(T, R, {"next"}) /\ OthersKept(T, R, t)
  <1> DEFINE B == BornIn(T)
  <1>1. t \in Tasks /\ s \in Seq(Frames(B)) /\ AllOK(s, T) /\ Types(T, B, WaitersIn(T))
    BY DEF Core, BornIn
  <1>2. IsTable(R) /\ FieldsKept(T, R, {"next"}) /\ R[t].next = v /\ OthersKept(T, R, t)
    <2> DEFINE f == "next"
               z == v
    <2>1. R = SetOne(T, t, f, z) /\ f \in Fields /\ t \in Tasks /\ Shape(T) /\ IsTable(T)
      BY <1>1, TableOf DEF Fields
    <2> HIDE DEF f, z
    <2>2. IsTable(R) /\ FieldsKept(T, R, {f}) /\ R[t][f] = z /\ OthersKept(T, R, t)
      BY ONLY <2>1, OneField
    <2> QED
      BY <2>2 DEF f, z
  <1>3. Types(R, B, WaitersIn(T))
    <2>1. \A u \in Tasks : R[u].next \in Nat
      BY <1>1, <1>2 DEF Types, DataOK, OthersKept
    <2> QED
      BY <1>1, <1>2, <2>1, TypesKept DEF LooseFields
  <1>4. \A u \in Tasks :
           /\ R[u].kind = T[u].kind /\ R[u].cur = T[u].cur /\ R[u].timer = T[u].timer /\ R[u].stray = T[u].stray
           /\ R[u].run = T[u].run /\ R[u].late = T[u].late /\ R[u].wait = T[u].wait
           /\ R[u].wdone = T[u].wdone /\ R[u].atret = T[u].atret
    BY <1>2 DEF FieldsKept, Fields
  <1>5. \A u \in Tasks \ {t} : Gentle(T[u], R[u])
    BY <1>2 DEF OthersKept, Gentle
  <1>6. AllOK(s, R)
    <2> SUFFICES ASSUME NEW i \in DOMAIN s PROVE FrameOK(s[i], R)
      BY DEF AllOK
    <2>1. s[i] \in Frames(B) /\ FrameOK(s[i], T)
      BY <1>1 DEF AllOK
    <2>2. s[i].t \in Tasks
      BY <2>1 DEF Frames, BornIn
    <2>3. s[i].t # t => R[s[i].t] = T[s[i].t]
      BY <1>2, <2>2 DEF OthersKept
    <2>4. Asking(R[t])
      BY <1>1, <1>4 DEF Asking
    <2> QED
      BY <1>1, <1>4, <2>1, <2>2, <2>3, <2>4 DEF FrameOK, ActOK, LateTask
  <1>7. TaskOK(R[t])
    <2>1. TaskOK(T[t])
      BY <1>1 DEF Core
    <2> QED
      BY <1>1, <1>4, <2>1 DEF TaskOK, Third, Closed
  <1>8. /\ R[t].kind = T[t].kind /\ R[t].run = T[t].run /\ (LateTask(T[t]) => LateTask(R[t]))
        /\ (Closed(T[t]) => Closed(R[t])) /\ (T[t].atret => R[t].atret)
    BY <1>1, <1>4 DEF LateTask, Closed
  <1> QED
    BY <1>1, <1>2, <1>3, <1>5, <1>6, <1>7, <1>8, ChangeCore

-----------------------------------------------------------------------------
\* The ticks.

LEMMA AppendHas ==
  ASSUME NEW S, NEW k \in Seq(S), NEW h \in S, NEW F, NEW t
  PROVE  /\ Has(Append(k, h), F, t) <=> (h.f \in F /\ h.t = t) \/ Has(k, F, t)
         /\ Once(Append(k, h), F, t) <=> Once(k, F, t) /\ ~(h.f \in F /\ h.t = t /\ Has(k, F, t))
         /\ Append(k, h) \in Seq(S)
  <1>1. Append(k, h) = k \o <<h>> /\ <<h>> \in Seq(S)
    OBVIOUS
  <1>2. Append(k, h) \in Seq(S)
    OBVIOUS
  <1>3. Has(k \o <<h>>, F, t) <=> Has(k, F, t) \/ Has(<<h>>, F, t)
    BY <1>1, HasConcat
  <1>4. Once(k \o <<h>>, F, t) <=> Once(k, F, t) /\ Once(<<h>>, F, t) /\ ~(Has(k, F, t) /\ Has(<<h>>, F, t))
    BY <1>1, OnceConcat
  <1> QED
    BY <1>1, <1>2, <1>3, <1>4, HasOne

LEMMA AddTick ==
  ASSUME NEW T, NEW s, NEW k, Core(T, s, k), NEW h \in Ticks(BornIn(T)),
         Firm(T[h.t]) /\ h.f = "next" =>
            /\ ~Pending(s, k, h.t) /\ Closed(T[h.t]) /\ T[h.t].run # "yes" /\ ~IsTop(s, "next", h.t)
  PROVE  Core(T, s, Append(k, h))
  <1> DEFINE B == BornIn(T)
             q == Append(k, h)
  <1>1. k \in Seq(Ticks(B))
    BY DEF Core
  <1>2. q \in Seq(Ticks(B))
    BY <1>1, AppendHas
  <1>3. ASSUME NEW t \in Tasks PROVE Lives(T[t], s, q, t)
    <2>1. Lives(T[t], s, k, t)
      BY DEF Core
    <2>2. Has(q, {"next"}, t) <=> (h.f = "next" /\ h.t = t) \/ Has(k, {"next"}, t)
      BY <1>1, AppendHas
    <2>3. Once(q, {"next"}, t) <=> Once(k, {"next"}, t) /\ ~(h.f = "next" /\ h.t = t /\ Has(k, {"next"}, t))
      BY <1>1, AppendHas
    <2>4. T[h.t].kind # "none"
      BY DEF Ticks, Frames, BornIn
    <2>5. ~Has(s, {"continue"}, t) => Once(s, {"continue"}, t)
      BY DEF Has, Once
    <2>6. ~Has(k, {"next"}, t) => Once(k, {"next"}, t)
      BY DEF Has, Once
    <2> HIDE DEF q
    <2> QED
      BY <2>1, <2>2, <2>3, <2>4, <2>5, <2>6 DEF Lives, Pending, PendingOK
  <1> HIDE DEF q
  <1>4. Core(T, s, q)
    BY <1>2, <1>3 DEF Core
  <1> QED
    BY <1>4 DEF q

LEMMA TakeTick ==
  ASSUME NEW T, NEW k, Core(T, <<>>, k), k # <<>>
  PROVE  /\ Core(T, <<>>, Tail(k)) /\ Head(k) \in Ticks(BornIn(T))
         /\ Firm(T[Head(k).t]) /\ Head(k).f = "next" =>
               /\ ~Pending(<<>>, Tail(k), Head(k).t) /\ Closed(T[Head(k).t])
  <1> DEFINE B == BornIn(T)
             q == Tail(k)
             h == Head(k)
  <1>1. k \in Seq(Ticks(B)) /\ q \in Seq(Ticks(B)) /\ h \in Ticks(B)
    BY HeadTail DEF Core
  <1>2. ASSUME NEW t \in Tasks
        PROVE  /\ Has(k, {"next"}, t) <=> (h.f = "next" /\ h.t = t) \/ Has(q, {"next"}, t)
               /\ Once(k, {"next"}, t) <=> /\ Once(q, {"next"}, t)
                                           /\ ~(h.f = "next" /\ h.t = t /\ Has(q, {"next"}, t))
    BY <1>1, TopHas
  <1> HIDE DEF q, h
  <1>3. ASSUME NEW t \in Tasks PROVE Lives(T[t], <<>>, q, t)
    <2>1. Lives(T[t], <<>>, k, t)
      BY DEF Core
    <2> QED
      BY <1>2, <2>1 DEF Lives, Pending, PendingOK
  <1>4. Firm(T[h.t]) /\ h.f = "next" => ~Pending(<<>>, q, h.t) /\ Closed(T[h.t])
    <2>1. h.t \in Tasks
      BY <1>1 DEF Ticks, Frames, BornIn
    <2>2. Lives(T[h.t], <<>>, k, h.t) /\ ~Has(<<>>, {"continue"}, h.t)
      BY <2>1, HasNone DEF Core
    <2> QED
      BY <1>2, <2>1, <2>2 DEF Lives, Pending, PendingOK
  <1>5. Core(T, <<>>, q)
    BY <1>1, <1>3 DEF Core
  <1> QED
    BY <1>1, <1>4, <1>5 DEF q, h

-----------------------------------------------------------------------------
\* What the actions push.

LEMMA FrameIn ==
  ASSUME NEW B, NEW t \in B, NEW v \in Values(B),
         NEW f \in {"next", "body", "call", "iter", "after", "got", "start", "spawn", "continue", "return",
                   "depth", "cancel", "end", "complete", "child", "leave", "then"}
  PROVE  /\ Frame(f, t, v).f = f /\ Frame(f, t, v).t = t /\ Frame(f, t, v).v = v
         /\ f \notin {"got", "start"} => Frame(f, t, v) \in Frames(B)
         /\ f = "next" => Frame(f, t, v) \in Ticks(B)
  <1> DEFINE h == Frame(f, t, v)
  <1>1. h = [f |-> f, t |-> t, v |-> v, n |-> 0]
    BY DEF Frame
  <1>2. h.f = f /\ h.t = t /\ h.v = v
    BY <1>1
  <1>3. h \in [f : Calls, t : B, v : Values(B), n : Nat]
    BY <1>1 DEF Calls
  <1> HIDE DEF h
  <1> QED
    BY <1>2, <1>3 DEF Frames, Ticks, h

LEMMA GotIn ==
  ASSUME NEW B, NEW w, w.t \in B, w.n \in Nat \ {0}, NEW v \in Values(B)
  PROVE  GotFrame(w, v) \in Frames(B) /\ Plain(GotFrame(w, v)) /\ GotFrame(w, v).f = "got"
  <1> DEFINE h == GotFrame(w, v)
  <1>1. h = [f |-> "got", t |-> w.t, v |-> v, n |-> w.n]
    BY DEF GotFrame
  <1>2. h.f = "got" /\ h.n = w.n
    BY <1>1
  <1>3. h \in [f : Calls, t : B, v : Values(B), n : Nat]
    BY <1>1 DEF Calls
  <1> HIDE DEF h
  <1> QED
    BY <1>2, <1>3 DEF Frames, Plain, Acts, h

LEMMA TaskValIn ==
  ASSUME NEW B \in SUBSET Tasks, NEW u \in B
  PROVE  TaskVal(u) \in Values(B) /\ ~TaskVal(u).tmo
  BY DEF TaskVal, Values, Answers

LEMMA Assoc ==
  ASSUME NEW S, NEW a \in Seq(S), NEW b \in Seq(S), NEW c \in Seq(S)
  PROVE  (a \o b) \o c = a \o (b \o c) /\ <<>> \o a = a
  OBVIOUS

LEMMA PushOne ==
  ASSUME NEW T, NEW s, NEW k, Core(T, s, k), Inner(s), NEW h \in Frames(BornIn(T)), Plain(h),
         h.f = "return" => T[h.t].atret
  PROVE  Core(T, <<h>> \o s, k) /\ Inner(<<h>> \o s)
  <1>1. <<h>> \in Seq(Frames(BornIn(T))) /\ \A i \in DOMAIN <<h>> : <<h>>[i] = h
    OBVIOUS
  <1> QED
    BY <1>1, PushPlain

LEMMA PushCont ==
  ASSUME NEW T, NEW s, NEW k, Core(T, s, k), Inner(s), NEW t \in BornIn(T),
         NEW v \in Values(BornIn(T)), NEW S, S[t].down \in Ref(BornIn(T)),
         NEW f \in {"continue", "return"},
         ~S[t].done /\ f = "return" => T[t].atret,
         ~S[t].done /\ f = "continue" /\ Firm(T[t]) =>
            ~Pending(s, k, t) /\ Closed(T[t]) /\ T[t].run # "yes"
  PROVE  /\ ContinueFrames(S, t, v, f) \in Seq(Frames(BornIn(T)))
         /\ Core(T, ContinueFrames(S, t, v, f) \o s, k)
         /\ Inner(ContinueFrames(S, t, v, f) \o s)
  <1> DEFINE B == BornIn(T)
             c == Frame(f, t, v)
             q == <<c>> \o s
  <1>1. s \in Seq(Frames(B))
    BY DEF Core
  <1>2. CASE S[t].done
    BY <1>1, <1>2, Assoc DEF ContinueFrames
  <1>3. CASE ~S[t].done
    <2>1. c \in Frames(B) /\ c.f = f /\ c.t = t
      BY FrameIn
    <2> HIDE DEF c
    <2>2. Core(T, q, k) /\ Inner(q)
      <3>1. CASE f = "continue"
        BY <1>3, <2>1, <3>1, PushContinue
      <3>2. CASE f = "return"
        BY <1>3, <2>1, <3>2, PushOne DEF Plain, Acts
      <3> QED
        BY <3>1, <3>2
    <2>3. <<c>> \in Seq(Frames(B)) /\ q \in Seq(Frames(B))
      BY <1>1, <2>1, PushHas
    <2>4. CASE S[t].down = Nobody
      <3>1. ContinueFrames(S, t, v, f) = <<c>>
        BY <1>3, <2>3, <2>4, Assoc DEF ContinueFrames, c
      <3> QED
        BY <2>2, <2>3, <3>1
    <2>5. CASE S[t].down # Nobody
      <3> DEFINE d == Frame("cancel", S[t].down, Ok)
      <3>1. ContinueFrames(S, t, v, f) = <<d>> \o <<c>>
        BY <1>3, <2>5 DEF ContinueFrames, c
      <3>2. S[t].down \in B
        BY <2>5 DEF Ref
      <3>0. Ok \in Values(B)
        BY ValueIn
      <3>3. d \in Frames(B) /\ d.f = "cancel"
        BY <3>0, <3>2, FrameIn
      <3> HIDE DEF d, q
      <3>4. Core(T, <<d>> \o q, k) /\ Inner(<<d>> \o q)
        BY <2>2, <3>3, PushOne DEF Plain, Acts
      <3>5. <<d>> \in Seq(Frames(B)) /\ <<d>> \o <<c>> \in Seq(Frames(B))
        BY <2>3, <3>3
      <3>6. (<<d>> \o <<c>>) \o s = <<d>> \o q
        BY <1>1, <2>3, <3>5, Assoc DEF q
      <3> QED
        BY <3>1, <3>4, <3>5, <3>6
    <2> QED
      BY <2>4, <2>5
  <1> QED
    BY <1>2, <1>3

\* A state runs on a stack that goes on below it.
LEMMA BodyInner ==
  ASSUME NEW S, NEW s \in Seq(S), s # <<>>, Inner(Tail(s)), Head(s).f \notin {"next", "after"}
  PROVE  Inner(s)
  <1> DEFINE c == <<Head(s)>> \o Tail(s)
  <1>1. Head(s) \in S /\ Tail(s) \in Seq(S) /\ s = c
    BY HeadTail
  <1>2. Inner(c)
    BY <1>1, AllPush
  <1> QED
    BY <1>1, <1>2

-----------------------------------------------------------------------------
\* The steps of the machine.

Kept(T, s, k) == Core(T, s, k) /\ MostClosed(T, s)

LEMMA ClosedKept ==
  ASSUME NEW T, NEW s, NEW k, Core(T, s, k), AllClosed(T)
  PROVE  Kept(T, s, k)
  BY DEF Kept, AllClosed, MostClosed

LEMMA TopClosed ==
  ASSUME NEW T, NEW s, MostClosed(T, s),
         \A t \in Tasks : IsTop(s, "body", t) => ~(T[t].kind = "gen" /\ T[t].cur = 3)
  PROVE  AllClosed(T)
  BY DEF AllClosed, MostClosed, Woken

LEMMA Here ==
  ASSUME IInv
  PROVE  /\ BornIn(task) \in SUBSET Tasks /\ Born = BornIn(task)
         /\ Types(task, BornIn(task), WaitersIn(task)) /\ IsTable(task) /\ Shape(task)
         /\ TreeTypes(task, BornIn(task))
         /\ stack \in Seq(Frames(BornIn(task))) /\ tick \in Seq(Ticks(BornIn(task)))
  BY TableOf DEF IInv, Core, BornIn, Born, Types

LEMMA OnTop ==
  ASSUME IInv, stack # <<>>
  PROVE  /\ Top \in Frames(BornIn(task)) /\ Rest \in Seq(Frames(BornIn(task)))
         /\ stack = <<Top>> \o Rest /\ Inner(Rest) /\ FrameOK(Top, task)
         /\ Top.t \in BornIn(task) /\ Top.t \in Tasks /\ Top.v \in Values(BornIn(task)) /\ Top.n \in Nat
         /\ Top.f # "body" => AllClosed(task)
  <1>1. stack \in Seq(Frames(BornIn(task))) /\ BornIn(task) \in SUBSET Tasks
    BY Here
  <1>2. Top \in Frames(BornIn(task)) /\ Rest \in Seq(Frames(BornIn(task))) /\ stack = <<Top>> \o Rest
    BY <1>1, HeadTail DEF Top, Rest
  <1>3. Inner(Rest) /\ AllOK(stack, task)
    BY DEF IInv, Core, Rest
  <1>4. FrameOK(Top, task)
    BY <1>1, <1>3, AllTop DEF Top
  <1>5. Top.t \in BornIn(task) /\ Top.v \in Values(BornIn(task)) /\ Top.n \in Nat
    BY <1>2 DEF Frames
  <1>6. Top.f # "body" => AllClosed(task)
    BY TopClosed DEF IInv, IsTop, Top
  <1> QED
    BY <1>1, <1>2, <1>3, <1>4, <1>5, <1>6

\* The frame on top has ended.
LEMMA Popped ==
  ASSUME IInv, stack # <<>>, Top.f \notin Acts
  PROVE  Core(task, Rest, tick) /\ AllClosed(task) /\ Inner(Rest)
  <1>1. Core(task, Rest, tick) /\ Inner(Rest)
    BY PopCore DEF IInv, Top, Rest
  <1> QED
    BY <1>1, OnTop DEF Acts

LEMMA DepthStep ==
  ASSUME IInv, Depth
  PROVE  Kept(task', stack', tick')
  <1>1. stack # <<>> /\ Top.f = "depth" /\ task' = task /\ tick' = tick /\ stack' = <<>> \o Rest
    BY DEF Depth, On, Step
  <1>2. Core(task, Rest, tick) /\ AllClosed(task)
    BY <1>1, Popped DEF Acts
  <1>3. <<>> \o Rest = Rest
    BY <1>1, OnTop, Assoc
  <1> QED
    BY <1>1, <1>2, <1>3, ClosedKept

\* Nothing but plain frames is pushed.
LEMMA PlainStep ==
  ASSUME IInv, stack # <<>>, Top.f \notin Acts, tick' = tick,
         Soft(task, task', BornIn(task), WaitersIn(task)), NEW gs \in Seq(Frames(BornIn(task))),
         \A i \in DOMAIN gs : Plain(gs[i]) /\ gs[i].f # "return", stack' = gs \o Rest
  PROVE  Kept(task', stack', tick')
  <1>1. Core(task, Rest, tick) /\ AllClosed(task) /\ Inner(Rest)
    BY Popped
  <1>2. Core(task', Rest, tick) /\ AllClosed(task') /\ BornIn(task') = BornIn(task)
    BY <1>1, SoftCore
  <1>3. Core(task', gs \o Rest, tick)
    BY <1>1, <1>2, PushPlain
  <1> QED
    BY <1>2, <1>3, ClosedKept

LEMMA SelfStep ==
  ASSUME IInv
  PROVE  Soft(task, task, BornIn(task), WaitersIn(task))
  BY Here, SoftSelf

LEMMA CancelStep ==
  ASSUME IInv, Cancel
  PROVE  Kept(task', stack', tick')
  <1> DEFINE t == Top.t
             B == BornIn(task)
  <1>1. stack # <<>> /\ Top.f \in {"cancel", "end"} /\ tick' = tick
    BY DEF Cancel, On
  <1>2. Top.f \notin Acts
    BY <1>1 DEF Acts
  <1>3. CASE task[t].done \/ (Top.f = "cancel" /\ task[t].kind \notin Cancelable)
    <2>1. task' = task /\ stack' = <<>> \o Rest
      BY <1>3 DEF Cancel, Step
    <2>2. <<>> \in Seq(Frames(B)) /\ \A i \in DOMAIN <<>> : FALSE
      OBVIOUS
    <2> QED
      BY <1>1, <1>2, <2>1, <2>2, SelfStep, PlainStep
  <1>4. CASE ~(task[t].done \/ (Top.f = "cancel" /\ task[t].kind \notin Cancelable))
    <2> DEFINE R == ReturnTask(task, t, Ok)
               c == ContinueFrames(task, t, Ok, "return")
    <2>1. task' = R /\ stack' = c \o Rest /\ ~task[t].done
      BY <1>4 DEF Cancel, Step
    <2>2. Core(task, Rest, tick) /\ AllClosed(task) /\ Inner(Rest)
      BY <1>1, <1>2, Popped
    <2>3. t \in Tasks /\ t \in B /\ Types(task, B, WaitersIn(task))
      BY <1>1, OnTop, Here
    <2>4. Soft(task, R, B, WaitersIn(task)) /\ R[t].atret
      BY <2>1, <2>3, SoftReturn
    <2> HIDE DEF R
    <2>5. Core(R, Rest, tick) /\ AllClosed(R) /\ BornIn(R) = B
      BY <2>2, <2>4, SoftCore
    <2>6. task[t].down \in Ref(B) /\ Ok \in Values(B)
      BY <2>3, ValueIn DEF Types, TreeTypes
    <2> HIDE DEF t
    <2>7. Core(R, c \o Rest, tick)
      BY <2>2, <2>3, <2>4, <2>5, <2>6, PushCont
    <2> QED
      BY <1>1, <2>1, <2>5, <2>7, ClosedKept
  <1> QED
    BY <1>3, <1>4

\* Frames for the tasks or the waits of a list.
LEMMA FramesFor ==
  ASSUME NEW B, NEW c \in Seq(B), NEW f \in {"cancel", "end"}
  PROVE  LET gs == [i \in DOMAIN c |-> Frame(f, c[i], Ok)] IN
         gs \in Seq(Frames(B)) /\ \A i \in DOMAIN gs : Plain(gs[i]) /\ gs[i].f # "return"
  <1> DEFINE gs == [i \in DOMAIN c |-> Frame(f, c[i], Ok)]
  <1>1. ASSUME NEW i \in DOMAIN c PROVE Frame(f, c[i], Ok) \in Frames(B) /\ Frame(f, c[i], Ok).f = f
    BY FrameIn, ValueIn
  <1>2. DOMAIN gs = 1 .. Len(c) /\ Len(c) \in Nat /\ \A i \in DOMAIN gs : gs[i] = Frame(f, c[i], Ok)
    OBVIOUS
  <1>3. gs \in Seq(Frames(B))
    BY <1>1, <1>2
  <1>4. \A i \in DOMAIN gs : Plain(gs[i]) /\ gs[i].f # "return"
    <2> HIDE DEF gs
    <2> QED
      BY <1>1, <1>2 DEF Plain, Acts
  <1> QED
    BY <1>3, <1>4

LEMMA GotFramesFor ==
  ASSUME NEW B, NEW c \in Seq({w \in Tokens(B) : w.n # 0})
  PROVE  LET gs == [i \in DOMAIN c |-> GotFrame(c[i], Ok)] IN
         gs \in Seq(Frames(B)) /\ \A i \in DOMAIN gs : Plain(gs[i]) /\ gs[i].f # "return"
  <1> DEFINE gs == [i \in DOMAIN c |-> GotFrame(c[i], Ok)]
  <1>1. ASSUME NEW i \in DOMAIN c
        PROVE  /\ GotFrame(c[i], Ok) \in Frames(B) /\ Plain(GotFrame(c[i], Ok))
               /\ GotFrame(c[i], Ok).f = "got"
    <2>1. c[i] \in Tokens(B) /\ c[i].n # 0
      OBVIOUS
    <2>2. c[i].t \in B /\ c[i].n \in Nat \ {0}
      BY <2>1 DEF Tokens
    <2> QED
      BY <2>2, GotIn, ValueIn
  <1>2. DOMAIN gs = 1 .. Len(c) /\ Len(c) \in Nat /\ \A i \in DOMAIN gs : gs[i] = GotFrame(c[i], Ok)
    OBVIOUS
  <1>3. gs \in Seq(Frames(B))
    BY <1>1, <1>2
  <1>4. \A i \in DOMAIN gs : Plain(gs[i]) /\ gs[i].f # "return"
    <2> HIDE DEF gs
    <2> QED
      BY <1>1, <1>2
  <1> QED
    BY <1>3, <1>4

\* One more plain frame after others.
LEMMA OneMore ==
  ASSUME NEW B, NEW gs \in Seq(Frames(B)), \A i \in DOMAIN gs : Plain(gs[i]) /\ gs[i].f # "return",
         NEW h \in Frames(B), Plain(h), h.f # "return"
  PROVE  /\ gs \o <<h>> \in Seq(Frames(B))
         /\ \A i \in DOMAIN (gs \o <<h>>) : Plain((gs \o <<h>>)[i]) /\ (gs \o <<h>>)[i].f # "return"
  <1> DEFINE q == gs \o <<h>>
  <1>1. q \in Seq(Frames(B))
    OBVIOUS
  <1>2. \A i \in DOMAIN q : (i \in DOMAIN gs /\ q[i] = gs[i]) \/ q[i] = h
    OBVIOUS
  <1> HIDE DEF q
  <1>3. \A i \in DOMAIN q : Plain(q[i]) /\ q[i].f # "return"
    BY <1>2
  <1> QED
    BY <1>1, <1>3 DEF q

LEMMA CompleteStep ==
  ASSUME IInv, Complete
  PROVE  Kept(task', stack', tick')
  <1> DEFINE t == Top.t
             B == BornIn(task)
             c == task[t].fin
             gs == [i \in DOMAIN c |-> GotFrame(c[i], Ok)]
             h == Frame("child", t, Ok)
  <1>1. stack # <<>> /\ Top.f \notin Acts /\ task' = task /\ tick' = tick /\ stack' = (gs \o <<h>>) \o Rest
    BY DEF Complete, On, Step, Acts
  <1>2. t \in B /\ c \in Seq({w \in Tokens(B) : w.n # 0})
    BY <1>1, OnTop, Here DEF Types, DataOK
  <1>3. gs \in Seq(Frames(B)) /\ \A i \in DOMAIN gs : Plain(gs[i]) /\ gs[i].f # "return"
    <2> HIDE DEF c
    <2> QED
      BY <1>2, GotFramesFor
  <1>4. h \in Frames(B) /\ Plain(h) /\ h.f # "return"
    BY <1>2, FrameIn, ValueIn DEF Plain, Acts
  <1> HIDE DEF gs, h
  <1> DEFINE q == gs \o <<h>>
  <1>5. q \in Seq(Frames(B)) /\ \A i \in DOMAIN q : Plain(q[i]) /\ q[i].f # "return"
    BY <1>3, <1>4, OneMore
  <1>6. stack' = q \o Rest
    BY <1>1
  <1> HIDE DEF q
  <1> QED
    BY <1>1, <1>5, <1>6, SelfStep, PlainStep

LEMMA EmitChildStep ==
  ASSUME IInv, EmitChild
  PROVE  Kept(task', stack', tick')
  <1> DEFINE B == BornIn(task)
             p == task[Top.t].parent
             g == GotFrame(Token(p, task[p].wait), Ok)
             gs == IF p # Nobody /\ Heard(task, p) THEN <<g>> ELSE <<>>
             h == Frame("leave", Top.t, Ok)
  <1>1. /\ stack # <<>> /\ Top.f \notin Acts /\ task' = task /\ tick' = tick
        /\ stack' = (gs \o <<h>>) \o Rest
    BY DEF EmitChild, On, Step, Acts
  <1>2. Top.t \in B /\ p \in Ref(B)
    BY <1>1, OnTop, Here DEF TreeTypes
  <1>3. gs \in Seq(Frames(B)) /\ \A i \in DOMAIN gs : Plain(gs[i]) /\ gs[i].f # "return"
    <2>1. CASE p # Nobody /\ Heard(task, p)
      <3>1. p \in B /\ p \in Tasks
        BY <1>2, <2>1, Here DEF Ref
      <3>2. task[p].wait \in Nat \ {0}
        BY <2>1, <3>1, Here DEF Heard, WaitOf, Types, DataOK
      <3> HIDE DEF p
      <3>3. Token(p, task[p].wait).t = p /\ Token(p, task[p].wait).n = task[p].wait
        BY DEF Token
      <3>4. g \in Frames(B) /\ Plain(g) /\ g.f = "got"
        BY <3>1, <3>2, <3>3, GotIn, ValueIn
      <3>5. gs = <<g>>
        BY <2>1 DEF p
      <3> HIDE DEF g, gs
      <3> QED
        BY <3>4, <3>5
    <2>2. CASE ~(p # Nobody /\ Heard(task, p))
      <3>1. gs = <<>>
        BY <2>2
      <3> HIDE DEF gs
      <3> QED
        BY <3>1
    <2> QED
      BY <2>1, <2>2
  <1>4. h \in Frames(B) /\ Plain(h) /\ h.f # "return"
    BY <1>2, FrameIn, ValueIn DEF Plain, Acts
  <1> HIDE DEF gs, h
  <1> DEFINE q == gs \o <<h>>
  <1>5. q \in Seq(Frames(B)) /\ \A i \in DOMAIN q : Plain(q[i]) /\ q[i].f # "return"
    BY <1>3, <1>4, OneMore
  <1>6. stack' = q \o Rest
    BY <1>1
  <1> HIDE DEF q
  <1> QED
    BY <1>1, <1>5, <1>6, SelfStep, PlainStep

LEMMA LeaveStep ==
  ASSUME IInv, Leave
  PROVE  Kept(task', stack', tick')
  <1> DEFINE B == BornIn(task)
             W == WaitersIn(task)
             t == Top.t
             K == KeepUnderUp(task, t)
             R == CheckFree(K, t)
             T == DelWaitTimer(R, t)
             c == T[t].child
             gs == [i \in DOMAIN c |-> Frame("cancel", c[i], Ok)]
             h == Frame("then", t, Ok)
  <1>1. stack # <<>> /\ Top.f \notin Acts /\ tick' = tick
    BY DEF Leave, On, Acts
  <1>2. CASE Bare(K, t) /\ ~RootAsserts(K, t)
    <2>1. task' = task /\ stack' = stack
      BY <1>2 DEF Leave
    <2> QED
      BY <1>1, <2>1 DEF IInv, Kept
  <1>3. CASE ~(Bare(K, t) /\ ~RootAsserts(K, t))
    <2>1. task' = T /\ stack' = (gs \o <<h>>) \o Rest
      BY <1>3 DEF Leave, Step
    <2>2. t \in B /\ t \in Tasks /\ B \in SUBSET Tasks
      BY <1>1, OnTop, Here
    <2> HIDE DEF t
    <2>3. TreeKept(task, K, B)
      BY <2>2, Here, KeepUnderUpKept
    <2> HIDE DEF K
    <2>4. TreeKept(K, R, B)
      BY <2>2, <2>3, CheckFreeKept DEF TreeKept
    <2> HIDE DEF R
    <2>5. Soft(task, R, B, W)
      BY <2>3, <2>4, TreeKeptTrans, Here, SoftTree
    <2>6. Soft(R, T, B, W)
      BY <2>2, <2>5, SoftDel DEF Soft
    <2> HIDE DEF T
    <2>7. Soft(task, T, B, W)
      BY <2>5, <2>6, SoftTrans
    <2>8. c \in Seq(B)
      BY <2>2, <2>7 DEF Soft, Types, TreeTypes
    <2>9. gs \in Seq(Frames(B)) /\ \A i \in DOMAIN gs : Plain(gs[i]) /\ gs[i].f # "return"
      <3> HIDE DEF c
      <3> QED
        BY <2>8, FramesFor
    <2>10. h \in Frames(B) /\ Plain(h) /\ h.f # "return"
      BY <2>2, FrameIn, ValueIn DEF Plain, Acts
    <2> HIDE DEF gs, h
    <2> DEFINE q == gs \o <<h>>
    <2>11. q \in Seq(Frames(B)) /\ \A i \in DOMAIN q : Plain(q[i]) /\ q[i].f # "return"
      BY <2>9, <2>10, OneMore
    <2>12. stack' = q \o Rest
      BY <2>1
    <2> HIDE DEF q
    <2> QED
      BY <1>1, <2>1, <2>7, <2>11, <2>12, PlainStep
  <1> QED
    BY <1>2, <1>3

LEMMA SpawnedStep ==
  ASSUME IInv, Spawned
  PROVE  Kept(task', stack', tick')
  <1> DEFINE B == BornIn(task)
             t == Top.t
             R == SpawnParent(task, t, task[t].by)
  <1>1. stack # <<>> /\ Top.f \notin Acts /\ tick' = tick /\ task' = R /\ stack' = <<>> \o Rest
    BY DEF Spawned, On, Acts, Step, Self
  <1>2. t \in B /\ task[t].by \in Ref(B)
    BY <1>1, OnTop, Here DEF Types, DataOK
  <1>3. TreeKept(task, R, B)
    BY <1>2, Here, SpawnParentKept
  <1> HIDE DEF R, t
  <1>4. Soft(task, R, B, WaitersIn(task))
    BY <1>3, Here, SoftTree
  <1>5. <<>> \in Seq(Frames(B)) /\ \A i \in DOMAIN <<>> : FALSE
    OBVIOUS
  <1> QED
    BY <1>1, <1>4, <1>5, PlainStep

LEMMA StartedStep ==
  ASSUME IInv, Started
  PROVE  Kept(task', stack', tick')
  <1> DEFINE B == BornIn(task)
             t == Top.t
             g == GotFrame(Token(t, Top.n), Ok)
  <1>1. stack # <<>> /\ Top.f = "start" /\ Top.f \notin Acts /\ tick' = tick /\ task' = task
    BY DEF Started, On, Acts, Step
  <1>2. CASE task[t].run # "never"
    <2>1. stack' = <<>> \o Rest
      BY <1>2 DEF Started, Step, Self
    <2>2. <<>> \in Seq(Frames(B)) /\ \A i \in DOMAIN <<>> : FALSE
      OBVIOUS
    <2> QED
      BY <1>1, <2>1, <2>2, SelfStep, PlainStep
  <1>3. CASE task[t].run = "never"
    <2>1. stack' = <<g>> \o Rest
      BY <1>3 DEF Started, Step, Self
    <2>2. t \in B /\ Top.n \in Nat \ {0}
      BY <1>1, OnTop DEF Frames
    <2>3. Token(t, Top.n).t = t /\ Token(t, Top.n).n = Top.n
      BY DEF Token
    <2> HIDE DEF t
    <2>4. g \in Frames(B) /\ Plain(g) /\ g.f = "got"
      BY <2>2, <2>3, GotIn, ValueIn
    <2> HIDE DEF g
    <2>5. <<g>> \in Seq(Frames(B)) /\ \A i \in DOMAIN <<g>> : Plain(<<g>>[i]) /\ <<g>>[i].f # "return"
      BY <2>4
    <2> QED
      BY <1>1, <2>1, <2>5, SelfStep, PlainStep
  <1> QED
    BY <1>2, <1>3

\* A task that waits and does not run: nothing of it is under way.
LEMMA OpenWait ==
  ASSUME IInv, NEW t \in Tasks, ~Closed(task[t]), Firm(task[t]), ~Woken(task, stack, t)
  PROVE  task[t].run # "yes" /\ ~Has(stack, Acts, t) /\ ~Pending(stack, tick, t)
  <1>1. task[t].run # "yes"
    BY DEF IInv, MostClosed
  <1>2. ~Pending(stack, tick, t)
    BY DEF IInv, Core, Lives, PendingOK
  <1>3. ~Has(stack, Acts, t)
    <2> SUFFICES ASSUME NEW i \in DOMAIN stack, stack[i].f \in Acts, stack[i].t = t PROVE FALSE
      BY DEF Has
    <2>1. ActOK(stack[i], task[t])
      BY DEF IInv, Core, AllOK, FrameOK
    <2> QED
      BY <1>1, <2>1 DEF ActOK, Firm
  <1> QED
    BY <1>1, <1>2, <1>3

\* What holds of a stack holds of the frames below its top.
LEMMA Below ==
  ASSUME IInv, stack # <<>>, NEW t
  PROVE  /\ ~Has(stack, Acts, t) => ~Has(Rest, Acts, t)
         /\ ~Pending(stack, tick, t) => ~Pending(Rest, tick, t)
  <1>1. stack \in Seq(Frames(BornIn(task)))
    BY Here
  <1>2. Has(Rest, Acts, t) => Has(stack, Acts, t)
    BY <1>1, TopHas DEF Rest
  <1>3. Has(Rest, {"continue"}, t) => Has(stack, {"continue"}, t)
    BY <1>1, TopHas DEF Rest
  <1> QED
    BY <1>2, <1>3 DEF Pending

LEMMA GotStep ==
  ASSUME IInv, Got_retval
  PROVE  Kept(task', stack', tick')
  <1> DEFINE B == BornIn(task)
             t == Top.t
  <1>1. stack # <<>> /\ Top.f = "got" /\ Top.f \notin Acts /\ tick' = tick
    BY DEF Got_retval, On, Acts
  <1>2. t \in B /\ t \in Tasks /\ Top.n # 0 /\ Top.v \in Values(B) /\ stack \in Seq(Frames(B))
    BY <1>1, OnTop, Here DEF Frames
  <1>3. CASE task[t].wait # Top.n \/ task[t].wdone
    <2>1. task' = task /\ stack' = <<>> \o Rest
      BY <1>3 DEF Got_retval, Step
    <2>2. <<>> \in Seq(Frames(B)) /\ \A i \in DOMAIN <<>> : FALSE
      OBVIOUS
    <2> QED
      BY <1>1, <2>1, <2>2, SelfStep, PlainStep
  <1>4. CASE ~(task[t].wait # Top.n \/ task[t].wdone)
    <2> DEFINE R == [task EXCEPT ![t].wdone = TRUE]
               h == Frame("next", t, Top.v)
    <2>1. task' = R /\ stack' = <<h>> \o Rest
      BY <1>4 DEF Got_retval, Step
    <2>2. ~Closed(task[t])
      BY <1>2, <1>4 DEF Closed
    <2>3. ~Woken(task, stack, t)
      BY <1>1 DEF Woken, IsTop, Top
    <2>4. Firm(task[t]) => ~Has(Rest, Acts, t) /\ ~Pending(Rest, tick, t)
      BY <1>1, <1>2, <2>2, <2>3, OpenWait, Below
    <2>5. Core(task, Rest, tick) /\ AllClosed(task) /\ Inner(Rest)
      BY <1>1, Popped
    <2>6. IsTable(R) /\ FieldsKept(task, R, {"wdone"}) /\ R[t].wdone = TRUE /\ OthersKept(task, R, t)
      <3> DEFINE f == "wdone"
                 z == TRUE
      <3>1. R = SetOne(task, t, f, z) /\ f \in Fields /\ t \in Tasks /\ Shape(task) /\ IsTable(task)
        BY <1>2, Here DEF Fields, SetOne
      <3> HIDE DEF f, z, R
      <3>2. IsTable(R) /\ FieldsKept(task, R, {f}) /\ R[t][f] = z /\ OthersKept(task, R, t)
        BY ONLY <3>1, OneField
      <3> QED
        BY <3>2 DEF f, z
    <2> HIDE DEF R
    <2>7. Types(R, B, WaitersIn(task))
      BY <2>6, Here, TypesKept DEF LooseFields
    <2>8. \A u \in Tasks :
             /\ R[u].kind = task[u].kind /\ R[u].cur = task[u].cur /\ R[u].next = task[u].next
             /\ R[u].run = task[u].run /\ R[u].late = task[u].late /\ R[u].wait = task[u].wait
             /\ R[u].atret = task[u].atret /\ R[u].timer = task[u].timer /\ R[u].stray = task[u].stray
             /\ R[u].wdone = task[u].wdone \/ R[u].wdone = TRUE
      BY <2>6 DEF FieldsKept, Fields, OthersKept
    <2>9. Soft(task, R, B, WaitersIn(task))
      BY <2>7, <2>8 DEF Soft, Gentle, LateTask, Closed
    <2>10. Core(R, Rest, tick) /\ AllClosed(R) /\ BornIn(R) = B
      BY <2>5, <2>9, SoftCore
    <2>11. h \in Frames(B) /\ h.f = "next" /\ h.t = t
      <3> HIDE DEF t
      <3> QED
        BY <1>2, FrameIn
    <2>12. Firm(R[t]) => Firm(task[t])
      BY <1>2, <2>8 DEF Firm, LateTask
    <2>13. Closed(R[t])
      BY <2>6 DEF Closed
    <2> HIDE DEF h, t
    <2>14. Core(R, <<h>> \o Rest, tick)
      BY <2>4, <2>5, <2>10, <2>11, <2>12, <2>13, PushNext
    <2> QED
      BY <1>1, <2>1, <2>10, <2>14, ClosedKept
  <1> QED
    BY <1>3, <1>4

LEMMA ResumeStep ==
  ASSUME IInv, Resume
  PROVE  Kept(task', stack', tick')
  <1> DEFINE B == BornIn(task)
             W == WaitersIn(task)
             t == Top.t
             T == DelWaitTimer(task, t)
             h == Frame("next", t, Top.v)
  <1>1. stack # <<>> /\ Top.f \in {"continue", "return"} /\ Top.f \notin Acts
    BY DEF Resume, On, Acts
  <1>2. t \in B /\ t \in Tasks /\ Top.v \in Values(B) /\ FrameOK(Top, task) /\ stack \in Seq(Frames(B))
        /\ Rest \in Seq(Frames(B))
    BY <1>1, OnTop, Here
  <1>3. Core(task, Rest, tick) /\ AllClosed(task) /\ Inner(Rest)
    BY <1>1, Popped
  <1>4. /\ Soft(task, T, B, W) /\ T[t].wait = 0 /\ T[t].timer = FALSE
        /\ FieldsKept(task, T, {"wait", "timer"}) /\ OthersKept(task, T, t)
    <2>1. Types(task, B, W) /\ t \in Tasks
      BY <1>2, Here
    <2> HIDE DEF B, W, t
    <2> QED
      BY ONLY <2>1, SoftDel
  <1>5. Core(T, Rest, tick) /\ AllClosed(T) /\ BornIn(T) = B /\ WaitersIn(T) = W
    <2> HIDE DEF T
    <2> QED
      BY <1>3, <1>4, SoftCore
  <1>6. /\ T[t].kind = task[t].kind /\ T[t].late = task[t].late /\ T[t].run = task[t].run
        /\ T[t].atret = task[t].atret
    <2> HIDE DEF T
    <2> QED
      BY <1>2, <1>4 DEF FieldsKept, Fields
  <1>7. Closed(T[t]) /\ (Firm(T[t]) <=> Firm(task[t]))
    <2> HIDE DEF T
    <2> QED
      BY <1>4, <1>6 DEF Closed, Firm, LateTask
  <1>8. h \in Frames(B) /\ h \in Ticks(B) /\ h.f = "next" /\ h.t = t
    <2> HIDE DEF t
    <2> QED
      BY <1>2, FrameIn
  <1>9. Firm(task[t]) /\ task[t].run # "yes" => ~Has(Rest, Acts, t)
    <2> SUFFICES ASSUME Firm(task[t]), task[t].run # "yes", NEW i \in DOMAIN Rest,
                        Rest[i].f \in Acts, Rest[i].t = t
                 PROVE  FALSE
      BY DEF Has
    <2>1. ActOK(Rest[i], task[t])
      BY <1>3 DEF Core, AllOK, FrameOK
    <2> QED
      BY <2>1 DEF ActOK, Firm
  <1>10. Firm(task[t]) /\ Top.f = "continue" => ~Pending(Rest, tick, t)
    <2>1. Has(stack, {"continue"}, t) <=> Top.f = "continue" \/ Has(Rest, {"continue"}, t)
      BY <1>1, <1>2, TopHas DEF Top, Rest
    <2>2. Once(stack, {"continue"}, t) <=> /\ Once(Rest, {"continue"}, t)
                                           /\ ~(Top.f = "continue" /\ Has(Rest, {"continue"}, t))
      BY <1>1, <1>2, TopHas DEF Top, Rest
    <2>3. Lives(task[t], stack, tick, t)
      BY <1>2 DEF IInv, Core
    <2> QED
      BY <2>1, <2>2, <2>3 DEF Lives, Pending, PendingOK
  <1>11. Top.f = "return" => T[t].atret
    BY <1>2, <1>6 DEF FrameOK
  <1>12. CASE task[t].run = "yes"
    <2> DEFINE R == [T EXCEPT ![t].atcont = Top.v]
    <2>1. task' = R /\ stack' = <<>> \o Rest /\ tick' = tick
      BY <1>12 DEF Resume, Step
    <2>2. Soft(T, R, B, W)
      <3> HIDE DEF T
      <3> QED
        BY <1>2, <1>4, SoftAtcont DEF Soft
    <2> HIDE DEF T, R
    <2>3. Soft(task, R, B, W)
      BY <1>4, <2>2, SoftTrans
    <2>4. <<>> \in Seq(Frames(B)) /\ \A i \in DOMAIN <<>> : FALSE
      OBVIOUS
    <2> QED
      BY <1>1, <2>1, <2>3, <2>4, PlainStep
  <1>13. CASE task[t].run # "yes" /\ (Top.f = "return" \/ ~(InContinue \/ InRun))
    <2> DEFINE d == Frame("depth", t, Ok)
               q == <<d>> \o Rest
    <2>1. task' = T /\ stack' = <<h, d>> \o Rest /\ tick' = tick
      BY <1>13 DEF Resume, Step
    <2> HIDE DEF T, h
    <2>2. d \in Frames(B) /\ d.f = "depth" /\ d.t = t
      <3> HIDE DEF t
      <3> QED
        BY <1>2, FrameIn, ValueIn
    <2> HIDE DEF d
    <2>3. Core(T, q, tick) /\ Inner(q)
      BY <1>3, <1>5, <2>2, PushOne DEF Plain, Acts
    <2>4. Has(q, Acts, t) <=> Has(Rest, Acts, t)
      BY <1>2, <2>2, PushHas DEF Acts
    <2>5. Has(q, {"continue"}, t) <=> Has(Rest, {"continue"}, t)
      BY <1>2, <2>2, PushHas
    <2>6. stack' = <<h>> \o q
      <3>1. <<h, d>> = <<h>> \o <<d>> /\ <<h>> \in Seq(Frames(B)) /\ <<d>> \in Seq(Frames(B))
        BY <1>8, <2>2
      <3>2. (<<h>> \o <<d>>) \o Rest = <<h>> \o (<<d>> \o Rest)
        BY <1>2, <3>1, Assoc
      <3> QED
        BY <2>1, <3>1, <3>2
    <2>7. Pending(q, tick, t) <=> Pending(Rest, tick, t)
      BY <2>5 DEF Pending
    <2> HIDE DEF q, t
    <2>8. Core(T, <<h>> \o q, tick)
      <3>1. Firm(T[t]) => ~Has(q, Acts, t) /\ Closed(T[t]) /\ (Pending(q, tick, t) => T[t].atret)
        BY <1>1, <1>7, <1>9, <1>10, <1>11, <1>13, <2>4, <2>7
      <3> QED
        BY <1>5, <1>8, <2>3, <3>1, PushNext
    <2> QED
      BY <1>5, <2>1, <2>6, <2>8, ClosedKept
  <1>14. CASE task[t].run # "yes" /\ ~(Top.f = "return" \/ ~(InContinue \/ InRun))
    <2>1. task' = T /\ stack' = <<>> \o Rest /\ tick' = Append(tick, h)
      BY <1>14 DEF Resume, Step
    <2>2. Top.f = "continue"
      BY <1>1, <1>14
    <2> HIDE DEF T, h
    <2>3. <<>> \o Rest = Rest
      BY <1>2, Assoc
    <2>4. ~IsTop(Rest, "next", t)
      <3>1. Rest # <<>> => 1 \in DOMAIN Rest /\ Head(Rest) = Rest[1]
        BY <1>2
      <3> QED
        BY <1>3, <3>1 DEF Inner, IsTop
    <2> HIDE DEF t
    <2>5. Core(T, Rest, Append(tick, h))
      BY <1>5, <1>6, <1>7, <1>8, <1>10, <1>14, <2>2, <2>4, AddTick
    <2> QED
      BY <1>5, <2>1, <2>3, <2>5, ClosedKept
  <1> QED
    BY <1>12, <1>13, <1>14

LEMMA ThenStep ==
  ASSUME IInv, Then
  PROVE  Kept(task', stack', tick')
  <1> DEFINE B == BornIn(task)
             W == WaitersIn(task)
             t == Top.t
             w == task[t].then
             T == [task EXCEPT ![t].then = Tail(w)]
             u == Head(w).t
             v == ErrOf(task[t].err)
  <1>1. stack # <<>> /\ Top.f = "then" /\ Top.f \notin Acts /\ tick' = tick
    BY DEF Then, On, Acts
  <1>2. /\ t \in B /\ t \in Tasks /\ Top \in Frames(B) /\ Rest \in Seq(Frames(B))
        /\ w \in Seq({x \in Tokens(B) : x.n = 0 => x.t \in W})
    BY <1>1, OnTop, Here DEF Types, DataOK
  <1>3. CASE w = <<>>
    <2>1. task' = task /\ stack' = <<>> \o Rest
      BY <1>3 DEF Then, Step
    <2>2. <<>> \in Seq(Frames(B)) /\ \A i \in DOMAIN <<>> : FALSE
      OBVIOUS
    <2> QED
      BY <1>1, <2>1, <2>2, SelfStep, PlainStep
  <1>4. CASE w # <<>>
    <2>1. /\ Head(w) \in {x \in Tokens(B) : x.n = 0 => x.t \in W}
          /\ Tail(w) \in Seq({x \in Tokens(B) : x.n = 0 => x.t \in W})
      <3> HIDE DEF w
      <3> QED
        BY <1>2, <1>4
    <2>2. u \in B /\ u \in Tasks /\ Head(w).n \in Nat /\ (Head(w).n = 0 => u \in W)
      BY <2>1 DEF Tokens, BornIn
    <2>3. v \in Values(B)
      BY ValueIn
    <2>4. IsTable(T) /\ FieldsKept(task, T, {"then"}) /\ T[t].then = Tail(w) /\ OthersKept(task, T, t)
      <3> DEFINE y == Tail(w)
      <3> HIDE DEF y
      <3>1. T = [task EXCEPT ![t].then = y]
        BY DEF y
      <3> HIDE DEF T
      <3>2. IsTable(T) /\ FieldsKept(task, T, {"then"}) /\ T[t].then = y /\ OthersKept(task, T, t)
        <4> DEFINE f == "then"
                   z == y
        <4>1. T = SetOne(task, t, f, z) /\ f \in Fields /\ t \in Tasks /\ Shape(task) /\ IsTable(task)
          BY <1>2, <3>1, Here DEF Fields, SetOne
        <4> HIDE DEF f, z
        <4>2. IsTable(T) /\ FieldsKept(task, T, {f}) /\ T[t][f] = z /\ OthersKept(task, T, t)
          BY ONLY <4>1, OneField
        <4> QED
          BY <4>2 DEF f, z
      <3> QED
        BY <3>2 DEF y
    <2>5. Soft(task, T, B, W)
      <3> HIDE DEF T, w
      <3>1. \A x \in Tasks : T[x].then \in Seq({z \in Tokens(B) : z.n = 0 => z.t \in W})
        BY <1>2, <2>1, <2>4, Here DEF Types, DataOK, OthersKept
      <3>2. Types(T, B, W)
        BY <2>4, <3>1, Here, TypesKept DEF LooseFields
      <3>3. FieldsKept(task, T, DataFields)
        BY <2>4 DEF FieldsKept, DataFields
      <3> QED
        BY <3>2, <3>3, Here, SoftData
    <2>6. CASE Head(w).n # 0
      <3> DEFINE g == GotFrame(Head(w), v)
      <3>1. task' = T /\ stack' = <<g, Top>> \o Rest
        BY <1>4, <2>6 DEF Then, Step
      <3>2. g \in Frames(B) /\ Plain(g) /\ g.f = "got"
        <4>1. Head(w).t \in B /\ Head(w).n \in Nat \ {0}
          BY <2>2, <2>6
        <4> HIDE DEF w, v
        <4> QED
          BY <2>3, <4>1, GotIn
      <3> HIDE DEF g, T
      <3> DEFINE gs == <<g, Top>>
      <3>3. gs \in Seq(Frames(B)) /\ \A i \in DOMAIN gs : gs[i] = g \/ gs[i] = Top
        BY <1>2, <3>2
      <3>4. Plain(Top) /\ Top.f # "return"
        BY <1>1 DEF Plain, Acts
      <3>5. stack' = gs \o Rest
        BY <3>1
      <3> HIDE DEF gs
      <3> QED
        BY <1>1, <2>5, <3>1, <3>2, <3>3, <3>4, <3>5, PlainStep
    <2>7. CASE Head(w).n = 0
      <3> DEFINE R == ContinueTask(T, u, v)
                 c == ContinueFrames(T, u, v, "continue")
                 q == <<Top>> \o Rest
      <3>1. task' = R /\ stack' = Append(c, Top) \o Rest
        BY <1>4, <2>7 DEF Then, Step
      <3>2. Soft(T, R, B, W)
        <4> HIDE DEF T, u, v
        <4> QED
          BY <2>2, <2>5, SoftCont DEF Soft
      <3>3. T[u].down \in Ref(B) /\ T[u].kind = "waiter"
        <4>1. T[u].kind = task[u].kind
          BY <2>2, <2>4 DEF FieldsKept, Fields
        <4> HIDE DEF T
        <4> QED
          BY <2>2, <2>5, <2>7, <4>1 DEF Soft, Types, TreeTypes, WaitersIn
      <3> HIDE DEF R
      <3>4. Soft(task, R, B, W)
        <4> HIDE DEF T
        <4> QED
          BY <2>5, <3>2, SoftTrans
      <3>5. R[u].kind = "waiter"
        BY <2>2, <3>2, <3>3 DEF Soft, Gentle
      <3>6. Core(task, Rest, tick) /\ AllClosed(task) /\ Inner(Rest)
        BY <1>1, Popped
      <3>7. Core(R, Rest, tick) /\ AllClosed(R) /\ BornIn(R) = B
        BY <3>4, <3>6, SoftCore
      <3>8. Core(R, q, tick) /\ Inner(q)
        BY <1>1, <1>2, <3>6, <3>7, PushOne DEF Plain, Acts
      <3> HIDE DEF T, u, v, q
      <3>9. c \in Seq(Frames(B)) /\ Core(R, c \o q, tick)
        <4>1. ~Firm(R[u])
          BY <3>5 DEF Firm, One
        <4> QED
          BY <2>2, <2>3, <3>3, <3>7, <3>8, <4>1, PushCont
      <3> HIDE DEF c
      <3>10. stack' = c \o q
        <4>1. Append(c, Top) = c \o <<Top>> /\ <<Top>> \in Seq(Frames(B))
          BY <1>2, <3>9
        <4>2. (c \o <<Top>>) \o Rest = c \o (<<Top>> \o Rest)
          BY <1>2, <3>9, <4>1, Assoc
        <4> QED
          BY <3>1, <4>1, <4>2 DEF q
      <3> QED
        BY <1>1, <3>1, <3>7, <3>9, <3>10, ClosedKept
    <2> QED
      BY <2>2, <2>6, <2>7
  <1> QED
    BY <1>3, <1>4

LEMMA NextStateIs ==
  ASSUME NEW T, NEW t, T[t].cur \in Nat, T[t].next \in Nat, NEW v,
         NEW n \in Nat, Len(States[T[t].kind]) = n, DOMAIN States[T[t].kind] = 1 .. n
  PROVE  /\ NextState(T, t, v) \in 1 .. n + 1
         /\ T[t].atret => NextState(T, t, v) = n + 1
         /\ ~T[t].atret /\ T[t].next = 0 => NextState(T, t, v) >= T[t].cur + 1 \/ NextState(T, t, v) = n + 1
  <1> DEFINE S == States[T[t].kind]
             x == T[t]
             from == IF x.atret THEN n + 1 ELSE IF x.next # 0 THEN x.next ELSE x.cur + 1
             may == IF v.k # "err" THEN {i \in DOMAIN S : S[i] # "catch"}
                    ELSE IF S[x.cur] = "try" THEN DOMAIN S
                    ELSE {i \in DOMAIN S : S[i] = "catch"}
             at == {i \in may : i >= from}
             r == NextState(T, t, v)
  <1>1. r = IF at = {} THEN n + 1 ELSE CHOOSE i \in at : \A j \in at : i <= j
    BY DEF NextState
  <1>2. may \subseteq 1 .. n
    OBVIOUS
  <1>3. from \in Nat /\ (x.atret => from = n + 1) /\ (~x.atret /\ x.next = 0 => from = x.cur + 1)
    OBVIOUS
  <1> HIDE DEF may, from, r
  <1>4. at \subseteq 1 .. n /\ (\A i \in at : i >= from) /\ at \subseteq Nat
    <2>1. at \subseteq may /\ \A i \in at : i >= from
      OBVIOUS
    <2> HIDE DEF at
    <2>2. at \subseteq 1 .. n
      BY <1>2, <2>1
    <2>3. 1 .. n \subseteq Nat
      OBVIOUS
    <2> QED
      BY <2>1, <2>2, <2>3
  <1> HIDE DEF at
  <1>5. at # {} => r \in at
    BY <1>1, <1>4, LeastNat
  <1>6. at = {} => r = n + 1
    BY <1>1
  <1>7. r \in 1 .. n + 1 /\ (r >= from \/ r = n + 1)
    <2>1. CASE at = {}
      BY <1>6, <2>1
    <2>2. CASE at # {}
      <3>1. r \in 1 .. n /\ r >= from
        BY <1>4, <1>5, <2>2
      <3>2. 1 .. n \subseteq 1 .. n + 1
        OBVIOUS
      <3> QED
        BY <3>1, <3>2
    <2> QED
      BY <2>1, <2>2
  <1>8. x.atret => r = n + 1
    BY <1>3, <1>7
  <1> QED
    BY <1>3, <1>7, <1>8 DEF r

LEMMA StatesOf ==
  ASSUME NEW x \in Kinds \ {"none"}
  PROVE  /\ Len(States[x]) \in Nat /\ DOMAIN States[x] = 1 .. Len(States[x])
         /\ x = "gen" => Len(States[x]) = 3
         /\ x \in One => Len(States[x]) = 1
  BY DEF Kinds, One, States

LEMMA NextStep ==
  ASSUME IInv, Next_run
  PROVE  Kept(task', stack', tick')
  <1> DEFINE B == BornIn(task)
             W == WaitersIn(task)
             t == Top.t
             i == NextState(task, t, Top.v)
             n == Len(States[task[t].kind])
             e == (Top.v.k = "err")
             T == [task EXCEPT ![t].err = e, ![t].cur = i, ![t].next = 0]
             x == task[t]
  <1>1. stack # <<>> /\ Top.f = "next" /\ Top.f \notin Acts /\ tick' = tick
    BY DEF Next_run, On, Acts
  <1>2. /\ t \in B /\ t \in Tasks /\ Top.v \in Values(B) /\ stack \in Seq(Frames(B))
        /\ Rest \in Seq(Frames(B)) /\ B \in SUBSET Tasks
    BY <1>1, OnTop, Here
  <1>3. Core(task, Rest, tick) /\ AllClosed(task) /\ Inner(Rest)
    BY <1>1, Popped
  <1>4. /\ x.cur \in Nat /\ x.next \in Nat /\ x.kind \in Kinds \ {"none"}
        /\ TaskOK(x) /\ Lives(x, stack, tick, t) /\ IsTop(stack, "next", t)
    <2>1. DataOK(x, B, W) /\ TaskOK(x) /\ Lives(x, stack, tick, t)
      BY <1>2, Here DEF IInv, Core, Types
    <2>2. x.kind # "none"
      BY <1>2 DEF BornIn
    <2>3. IsTop(stack, "next", t)
      BY <1>1 DEF IsTop, Top
    <2> QED
      BY <2>1, <2>2, <2>3 DEF DataOK
  <1>5. /\ n \in Nat /\ (x.kind = "gen" => n = 3) /\ (x.kind \in One => n = 1)
        /\ i \in 1 .. n + 1 /\ (x.atret => i = n + 1)
        /\ (~x.atret /\ x.next = 0 => i >= x.cur + 1 \/ i = n + 1)
    <2>1. n \in Nat /\ DOMAIN States[x.kind] = 1 .. n /\ (x.kind = "gen" => n = 3) /\ (x.kind \in One => n = 1)
      BY <1>4, StatesOf
    <2> HIDE DEF t, n
    <2>2. n = Len(States[task[t].kind])
      BY DEF n
    <2> QED
      BY <1>4, <2>1, <2>2, NextStateIs
  <1>6. Firm(x) => ~Has(Rest, Acts, t)
    <2>1. Has(stack, Acts, t) <=> Has(Rest, Acts, t)
      BY <1>1, <1>2, TopHas DEF Top, Rest
    <2> QED
      BY <1>4, <2>1 DEF Lives
  <1>7. x.kind = "gen" /\ Third(x) => i >= 2 /\ (i = n + 1 \/ i = 3)
    <2>1. ASSUME x.kind = "gen", Third(x) PROVE i >= 2 /\ (i = n + 1 \/ i = 3)
      <3>1. x.cur >= 2 /\ x.next = 0 /\ n = 3
        BY <1>5, <2>1 DEF Third
      <3> HIDE DEF x, i, n
      <3> QED
        BY <1>4, <1>5, <3>1
    <2> QED
      BY <2>1
  <1> HIDE DEF i, n, e
  <1>8. CASE x.done
    <2>1. task' = task /\ stack' = <<>> \o Rest
      BY <1>8 DEF Next_run, Step
    <2>2. <<>> \in Seq(Frames(B)) /\ \A j \in DOMAIN <<>> : FALSE
      OBVIOUS
    <2> QED
      BY <1>1, <2>1, <2>2, SelfStep, PlainStep
  <1>9. /\ IsTable(T) /\ FieldsKept(task, T, {"err", "cur", "next"}) /\ OthersKept(task, T, t)
        /\ T[t].cur = i /\ T[t].next = 0
    <2>1. IsTable(T)
      BY Here DEF IsTable, Shape
    <2>2. FieldsKept(task, T, {"err", "cur", "next"})
      BY <1>2, Here DEF FieldsKept, Shape, Fields
    <2>3. OthersKept(task, T, t)
      BY <1>2, Here DEF OthersKept, Shape
    <2>4. T[t].cur = i /\ T[t].next = 0
      BY <1>2, Here DEF Shape, Fields
    <2> QED
      BY <2>1, <2>2, <2>3, <2>4
  <1>10. CASE ~x.done /\ i > n
    <2> DEFINE R == [T EXCEPT ![t].done = TRUE]
               h == Frame("complete", t, Ok)
    <2>1. task' = R /\ stack' = <<h>> \o Rest
      BY <1>10 DEF Next_run, Step, i, n, e
    <2> HIDE DEF T
    <2>2. IsTable(R) /\ FieldsKept(T, R, {"done"}) /\ OthersKept(T, R, t)
      <3> DEFINE f == "done"
                 z == TRUE
      <3>1. R = SetOne(T, t, f, z) /\ f \in Fields /\ t \in Tasks /\ Shape(T) /\ IsTable(T)
        BY <1>2, <1>9 DEF Fields, SetOne, IsTable
      <3> HIDE DEF f, z, R
      <3>2. IsTable(R) /\ FieldsKept(T, R, {f}) /\ R[t][f] = z /\ OthersKept(T, R, t)
        BY ONLY <3>1, OneField
      <3> QED
        BY <3>2 DEF f, z
    <2> HIDE DEF R
    <2>3. FieldsKept(task, R, {"err", "cur", "next", "done"}) /\ OthersKept(task, R, t)
      BY <1>9, <2>2 DEF FieldsKept, OthersKept
    <2>4. R[t].cur = i /\ R[t].next = 0
      BY <1>2, <1>9, <2>2 DEF FieldsKept, Fields
    <2>5. Core(R, Rest, tick) /\ BornIn(R) = B
      <3> HIDE DEF t
      <3>1. i \in Nat /\ i # 0 /\ (Firm(task[t]) => ~Has(Rest, Acts, t))
            /\ (task[t].kind = "gen" /\ Third(task[t]) => i >= 2)
        BY <1>5, <1>6, <1>7
      <3> QED
        BY <1>2, <1>3, <2>2, <2>3, <2>4, <3>1, AdvanceCore
    <2>6. AllClosed(R)
      <3>1. \A u \in Tasks : /\ R[u].kind = task[u].kind /\ R[u].late = task[u].late /\ R[u].run = task[u].run
                             /\ R[u].wait = task[u].wait /\ R[u].wdone = task[u].wdone
        BY <2>3 DEF FieldsKept, Fields
      <3> QED
        BY <1>3, <3>1 DEF AllClosed, Firm, LateTask, Closed
    <2>7. h \in Frames(B) /\ h.f = "complete"
      <3> HIDE DEF t
      <3> QED
        BY <1>2, FrameIn, ValueIn
    <2> HIDE DEF h
    <2>8. Core(R, <<h>> \o Rest, tick)
      BY <1>3, <2>5, <2>7, PushOne DEF Plain, Acts
    <2> QED
      BY <1>1, <2>1, <2>6, <2>8, ClosedKept
  <1>11. CASE ~x.done /\ ~(i > n)
    <2> DEFINE R == [T EXCEPT ![t].run = "yes"]
               h == Frame("body", t, Top.v)
    <2>1. task' = R /\ stack' = <<h>> \o Rest
      BY <1>11 DEF Next_run, Step, i, n, e
    <2> HIDE DEF T
    <2>2. i \in 1 .. n /\ ~x.atret
      BY <1>5, <1>11
    <2>15. x.kind = "gen" /\ i = 2 => ~x.timer
      <3>1. x.timer => Third(x)
        BY <1>4 DEF TaskOK
      <3>2. x.kind = "gen" => n = 3
        BY <1>5
      <3> QED
        BY <1>7, <3>1, <3>2
    <2>3. FieldsKept(task, T, {"err", "cur", "next", "done"})
      BY <1>9 DEF FieldsKept
    <2>4. Core(T, Rest, tick) /\ BornIn(T) = B /\ WaitersIn(T) = W
      <3> HIDE DEF t
      <3>1. i \in Nat /\ i # 0 /\ (Firm(task[t]) => ~Has(Rest, Acts, t))
            /\ (task[t].kind = "gen" /\ Third(task[t]) => i >= 2)
        BY <1>5, <1>6, <1>7
      <3> QED
        BY <1>2, <1>3, <1>9, <2>3, <3>1, AdvanceCore
    <2>5. /\ T[t].kind = x.kind /\ T[t].late = x.late /\ T[t].wait = x.wait /\ T[t].wdone = x.wdone
      BY <1>2, <1>9 DEF FieldsKept, Fields
    <2>6. (Firm(T[t]) <=> Firm(x)) /\ (LateTask(T[t]) <=> LateTask(x)) /\ (Closed(T[t]) <=> Closed(x))
      BY <2>5 DEF Firm, LateTask, Closed
    <2>7. Firm(T[t]) => ~Pending(Rest, tick, t)
      <3>1. Firm(x) => ~Pending(stack, tick, t)
        BY <1>4, <2>2 DEF Lives, PendingOK
      <3> QED
        BY <1>1, <2>6, <3>1, Below
    <2>8. LateTask(T[t]) \/ ~Has(Rest, Acts, t)
      <3>1. CASE Firm(x)
        BY <1>6, <3>1
      <3>2. CASE LateTask(x)
        BY <2>6, <3>2
      <3>3. CASE x.kind \in One
        <4>1. x.next = 0 /\ n = 1 /\ i = 1
          BY <1>4, <1>5, <2>2, <3>3 DEF TaskOK
        <4>2. x.cur = 0
          <5> HIDE DEF x
          <5> QED
            BY <1>4, <1>5, <2>2, <4>1
        <4>3. ASSUME NEW j \in DOMAIN Rest, Rest[j].f \in Acts, Rest[j].t = t PROVE FALSE
          <5>1. ActOK(Rest[j], x)
            BY <1>3, <4>3 DEF Core, AllOK, FrameOK
          <5> QED
            BY <4>2, <5>1 DEF ActOK
        <4> QED
          BY <4>3 DEF Has
      <3> QED
        BY <3>1, <3>2, <3>3 DEF Firm
    <2>9. h \in Frames(B) /\ h.f = "body" /\ h.t = t
      <3> HIDE DEF t
      <3> QED
        BY <1>2, FrameIn
    <2>10. Core(R, <<h>> \o Rest, tick)
      <3>1. R = [T EXCEPT ![h.t].run = "yes"]
        BY <2>9
      <3>2. T[t].cur # 0
        BY <1>9, <2>2
      <3>3. T[t].kind = "gen" /\ T[t].cur = 2 => ~T[t].timer
        <4>1. T[t].timer = x.timer /\ T[t].kind = x.kind
          BY <1>2, <2>3 DEF FieldsKept, Fields
        <4> QED
          BY <1>9, <2>15, <4>1
      <3> HIDE DEF R, h, t
      <3> QED
        BY <1>3, <1>9, <2>4, <2>7, <2>8, <2>9, <3>1, <3>2, <3>3, BodyCore
    <2>11. IsTable(R) /\ FieldsKept(T, R, {"run"}) /\ R[t].run = "yes" /\ OthersKept(T, R, t)
      <3> DEFINE f == "run"
                 z == "yes"
      <3>1. R = SetOne(T, t, f, z) /\ f \in Fields /\ t \in Tasks /\ Shape(T) /\ IsTable(T)
        BY <1>2, <1>9 DEF Fields, SetOne, IsTable
      <3> HIDE DEF f, z, R
      <3>2. IsTable(R) /\ FieldsKept(T, R, {f}) /\ R[t][f] = z /\ OthersKept(T, R, t)
        BY ONLY <3>1, OneField
      <3> QED
        BY <3>2 DEF f, z
    <2> HIDE DEF R
    <2>12. <<h>> \o Rest # <<>> /\ Head(<<h>> \o Rest) = h
      BY <1>2, <2>9, PushHas
    <2>13. ASSUME NEW u \in Tasks, Firm(R[u]), R[u].run = "yes"
           PROVE  Closed(R[u]) \/ Woken(R, <<h>> \o Rest, u)
      <3>1. CASE u # t
        <4>1. R[u] = task[u]
          BY <1>9, <2>11, <3>1 DEF OthersKept
        <4> QED
          BY <1>3, <2>13, <4>1 DEF AllClosed
      <3>2. CASE u = t
        <4>1. R[t].kind = x.kind /\ R[t].late = x.late /\ R[t].wait = x.wait /\ R[t].wdone = x.wdone
              /\ R[t].cur = i
          BY <1>2, <1>9, <2>5, <2>11 DEF FieldsKept, Fields
        <4>2. Firm(x) /\ (Closed(R[t]) <=> Closed(x))
          BY <2>13, <3>2, <4>1 DEF Firm, LateTask, Closed
        <4>3. Closed(x) \/ (x.kind = "gen" /\ i = 3)
          <5>1. Closed(x) \/ (x.kind = "gen" /\ Third(x))
            BY <1>4, <4>2 DEF Lives
          <5>2. i # n + 1
            BY <1>5, <2>2
          <5> QED
            BY <1>7, <5>1, <5>2
        <4>4. x.kind = "gen" /\ i = 3 => Woken(R, <<h>> \o Rest, t)
          BY <2>9, <2>12, <4>1 DEF Woken, IsTop
        <4> QED
          BY <3>2, <4>2, <4>3, <4>4
      <3> QED
        BY <3>1, <3>2
    <2>14. MostClosed(R, <<h>> \o Rest)
      BY <2>13 DEF MostClosed
    <2> QED
      BY <1>1, <2>1, <2>10, <2>14 DEF Kept
  <1> QED
    BY <1>8, <1>10, <1>11

\* What is waited for is told where to answer.
LEMMA SoftTold ==
  ASSUME NEW B, NEW W, NEW T, Types(T, B, W), NEW u \in Tasks,
         NEW w \in Tokens(B), NEW f \in {"fin", "then"}, w.n # 0 \/ (f = "then" /\ w.t \in W),
         NEW R, R = [T EXCEPT ![u][f] = Append(@, w)]
  PROVE  Soft(T, R, B, W)
  <1> DEFINE y == Append(T[u][f], w)
  <1>1. R = [T EXCEPT ![u][f] = y]
    BY TableOf DEF Shape, Fields
  <1>2. /\ f = "fin" => y \in Seq({z \in Tokens(B) : z.n # 0})
        /\ f = "then" => y \in Seq({z \in Tokens(B) : z.n = 0 => z.t \in W})
    <2>1. DataOK(T[u], B, W)
      BY DEF Types
    <2> QED
      BY <2>1 DEF DataOK
  <1> HIDE DEF y
  <1>3. IsTable(R) /\ FieldsKept(T, R, {f}) /\ R[u][f] = y /\ OthersKept(T, R, u)
    <2>1. R = SetOne(T, u, f, y) /\ f \in Fields /\ u \in Tasks /\ Shape(T) /\ IsTable(T)
      BY <1>1, TableOf DEF Fields, SetOne
    <2> QED
      BY ONLY <2>1, OneField
  <1>4. Types(R, B, W)
    <2>1. ASSUME NEW x \in Tasks
          PROVE  /\ f = "fin" => R[x].fin \in Seq({z \in Tokens(B) : z.n # 0})
                 /\ f = "then" => R[x].then \in Seq({z \in Tokens(B) : z.n = 0 => z.t \in W})
      <3>1. CASE x = u
        BY <1>2, <1>3, <3>1
      <3>2. CASE x # u
        <4>1. R[x] = T[x] /\ DataOK(T[x], B, W)
          BY <1>3, <3>2 DEF OthersKept, Types
        <4> QED
          BY <4>1 DEF DataOK
      <3> QED
        BY <3>1, <3>2
    <2>2. {f} \in SUBSET LooseFields
      BY DEF LooseFields
    <2> QED
      BY <1>3, <2>1, <2>2, TypesKept
  <1>5. FieldsKept(T, R, DataFields)
    BY <1>3 DEF FieldsKept, DataFields
  <1> QED
    BY <1>4, <1>5, SoftData

\* A state of t has returned.
Ready(T, s, k, t) ==
    /\ T[t].run = "no"
    /\ Firm(T[t]) => ~Has(s, Acts, t) /\ ~Pending(s, k, t) /\ Closed(T[t])

LEMMA ReadySoft ==
  ASSUME NEW T, NEW R, NEW s, NEW k, NEW t \in Tasks, Ready(T, s, k, t), Gentle(T[t], R[t])
  PROVE  Ready(R, s, k, t)
  BY DEF Ready, Gentle, Firm

LEMMA GoOn ==
  ASSUME NEW T, NEW s, NEW k, Core(T, s, k), AllClosed(T), Inner(s), NEW t \in BornIn(T),
         Ready(T, s, k, t), NEW v \in Values(BornIn(T))
  PROVE  Kept(T, <<Frame("next", t, v)>> \o s, k)
  <1> DEFINE h == Frame("next", t, v)
  <1>1. h \in Frames(BornIn(T)) /\ h.f = "next" /\ h.t = t
    BY FrameIn
  <1> HIDE DEF h
  <1>2. Core(T, <<h>> \o s, k)
    BY <1>1, PushNext DEF Ready
  <1> QED
    BY <1>2, ClosedKept DEF h

LEMMA HandleKept ==
  ASSUME NEW T, Core(T, Rest, tick), AllClosed(T), Inner(Rest), NEW t \in BornIn(T),
         Ready(T, Rest, tick, t), NEW v \in Values(BornIn(T)),
         Kept(task, stack, tick), tick' = tick, HandleRv(T, t, v)
  PROVE  Kept(task', stack', tick')
  <1> DEFINE B == BornIn(T)
             W == WaitersIn(T)
  <1>1. /\ t \in Tasks /\ B \in SUBSET Tasks /\ Types(T, B, W) /\ IsTable(T) /\ TreeTypes(T, B)
        /\ Rest \in Seq(Frames(B)) /\ <<>> \o Rest = Rest
    <2>1. Rest \in Seq(Frames(B)) /\ Types(T, B, W)
      BY DEF Core
    <2>2. <<>> \o Rest = Rest
      BY <2>1, Assoc
    <2> QED
      BY <2>1, <2>2 DEF BornIn, Types
  <1>2. CASE v.k = "task" /\ ~T[v.t].done
    <2> DEFINE D == SetDown(T, t, v.t)
               R == SetWait(D, t, "int", v.t)
               w == Token(t, R[t].wait)
               Q == [R EXCEPT ![v.t].then = Append(@, w)]
    <2>1. CASE ~DownAsserts(T, t, v.t)
      <3>1. task' = task /\ stack' = stack
        BY <1>2, <2>1 DEF HandleRv
      <3> QED
        BY <3>1
    <2>2. CASE DownAsserts(T, t, v.t)
      <3>1. task' = Q /\ stack' = <<>> \o Rest
        BY <1>2, <2>2 DEF HandleRv, Step
      <3>2. v.t \in B
        BY <1>2 DEF Values
      <3>3. TreeKept(T, D, B)
        BY <1>1, <3>2, SetDownKept
      <3> HIDE DEF D
      <3>4. Soft(T, D, B, W)
        BY <1>1, <3>3, SoftTree
      <3>5. Core(D, Rest, tick) /\ AllClosed(D) /\ BornIn(D) = B /\ WaitersIn(D) = W
        BY <3>4, SoftCore
      <3>6. Ready(D, Rest, tick, t)
        BY <1>1, <3>4, ReadySoft DEF Soft
      <3>7. Core(R, Rest, tick) /\ AllClosed(R) /\ BornIn(R) = B /\ WaitersIn(R) = W
            /\ R[t].wait \in Nat \ {0}
        <4> HIDE DEF R
        <4>1. R = SetWait(D, t, "int", v.t) /\ D[t].run # "yes" /\ (Firm(D[t]) => ~Pending(Rest, tick, t))
          BY <3>6 DEF Ready, R
        <4> QED
          BY <3>5, <4>1, WaitCore
      <3> HIDE DEF R
      <3>8. w \in Tokens(B) /\ w.n # 0
        BY <3>7 DEF Token, Tokens
      <3> HIDE DEF w
      <3>9. Soft(R, Q, B, W)
        <4>1. Types(R, B, W)
          BY <3>7 DEF Core
        <4> QED
          BY <1>1, <3>2, <3>8, <4>1, SoftTold
      <3> HIDE DEF Q
      <3>10. Core(Q, Rest, tick) /\ AllClosed(Q)
        BY <3>7, <3>9, SoftCore
      <3> QED
        BY <1>1, <3>1, <3>10, ClosedKept
    <2> QED
      BY <2>1, <2>2
  <1>3. CASE v.k = "task" /\ T[v.t].done
    <2> DEFINE e == ErrOf(T[v.t].err)
    <2>1. task' = T /\ stack' = <<Frame("next", t, e)>> \o Rest
      BY <1>3 DEF HandleRv, Step
    <2>2. e \in Values(B)
      BY ValueIn
    <2> HIDE DEF e
    <2> QED
      BY <2>1, <2>2, GoOn
  <1>4. CASE v.k = "promise"
    <2> DEFINE R == SetWait(T, t, "promise", Nobody)
    <2>1. task' = R /\ stack' = <<>> \o Rest
      BY <1>4 DEF HandleRv, Step
    <2>2. Core(R, Rest, tick) /\ AllClosed(R)
      <3> HIDE DEF R
      <3>1. R = SetWait(T, t, "promise", Nobody) /\ T[t].run # "yes" /\ (Firm(T[t]) => ~Pending(Rest, tick, t))
        BY DEF Ready, R
      <3> QED
        BY <3>1, WaitCore
    <2> QED
      BY <1>1, <2>1, <2>2, ClosedKept
  <1>5. CASE v.k \notin {"task", "promise"}
    <2>1. task' = T /\ stack' = <<Frame("next", t, v)>> \o Rest
      BY <1>5 DEF HandleRv, Step
    <2> QED
      BY <2>1, GoOn
  <1> QED
    BY <1>2, <1>3, <1>4, <1>5

\* The cases of After, of what they compute.
AfterCases(t, v, c, T, R, L, Q, X) ==
    CASE v.k \notin Waits -> HandleRv(R, t, v)
      [] v.k \in Waits /\ c = None /\ ~ChildReady(T, t, v) -> Step(L, <<>>)
      [] v.k \in Waits /\ c = None /\ ChildReady(T, t, v) -> HandleRv(Q, t, Ok)
      [] v.k \in Waits /\ c = v -> Step(X, <<>>)
      [] OTHER -> HandleRv(R, t, c)

LEMMA AfterCase ==
  ASSUME NEW t, NEW v, NEW c, NEW T, NEW R, NEW L, NEW Q, NEW X, AfterCases(t, v, c, T, R, L, Q, X)
  PROVE  /\ v.k \in Waits /\ c = None /\ ~ChildReady(T, t, v) => Step(L, <<>>)
         /\ v.k \in Waits /\ c = None /\ ChildReady(T, t, v) => HandleRv(Q, t, Ok)
  <1>1. v.k \in Waits => v # None
    BY DEF None, Waits, Ret, Ok
  <1> QED
    BY <1>1 DEF AfterCases

LEMMA AfterStep ==
  ASSUME IInv, After
  PROVE  Kept(task', stack', tick')
  <1> DEFINE t == Top.t
             v == Top.v
             c == task[t].atcont
             B == BornIn(task)
             Ws == WaitersIn(task)
             T == [task EXCEPT ![t].run = "no"]
             R == [T EXCEPT ![t].atcont = None]
             S == SetWait(T, t, v.k, v.t)
             W == SetWaitTimer(S, t, v.tmo)
             Listen == IF v.k # "child" THEN W
                       ELSE [W EXCEPT ![v.t].fin = Append(@, Token(t, W[t].wait))]
             Q == SetWaitTimer([R EXCEPT ![t].seq = W[t].seq, ![t].wait = 0], t, v.tmo)
             Y == SetWait(T, t, IF v.k = "wait" THEN v.k ELSE "deaf", v.t)
  <1>0. AfterCases(t, v, c, T, R, Listen, Q, Y)
    BY DEF After, AfterCases
  <1>1. stack # <<>> /\ Top.f = "after" /\ tick' = tick
    BY DEF After, On
  <1>2. /\ t \in B /\ t \in Tasks /\ v \in Values(B) /\ FrameOK(Top, task) /\ c \in Values(B)
        /\ Rest \in Seq(Frames(B))
    BY <1>1, OnTop, Here DEF Types, DataOK
  <1>3. /\ v.tmo \in BOOLEAN /\ (v.tmo => task[t].kind \in Timed /\ Asking(task[t]))
        /\ v.tmo /\ task[t].kind = "gen" => ~task[t].timer
        /\ v.k = "child" => v.t \in B
    BY <1>1, <1>2 DEF FrameOK, ActOK, Acts, Values, Asking
  <1>4. /\ Core(T, Rest, tick) /\ AllClosed(T) /\ Inner(Rest) /\ BornIn(T) = B /\ WaitersIn(T) = Ws
        /\ Ready(T, Rest, tick, t) /\ FieldsKept(task, T, {"run"})
    <2> HIDE DEF T
    <2>1. T = [task EXCEPT ![Head(stack).t].run = "no"] /\ Core(task, stack, tick) /\ MostClosed(task, stack)
      BY DEF IInv, T, Top
    <2>2. Head(stack).f = "after"
      BY <1>1 DEF Top
    <2> QED
      BY <1>1, <2>1, <2>2, PopAfter DEF Ready, Top, Rest
  <1>5. /\ Types(T, B, Ws) /\ T[t].kind = task[t].kind /\ T[t].cur = task[t].cur
        /\ T[t].next = task[t].next /\ T[t].timer = task[t].timer
    <2> HIDE DEF T
    <2> QED
      BY <1>2, <1>4 DEF Core, FieldsKept, Fields
  <1>6. /\ Core(R, Rest, tick) /\ AllClosed(R) /\ BornIn(R) = B /\ WaitersIn(R) = Ws
        /\ Ready(R, Rest, tick, t) /\ Soft(T, R, B, Ws) /\ FieldsKept(T, R, {"atcont"})
    <2> HIDE DEF T
    <2>1. Soft(T, R, B, Ws) /\ FieldsKept(T, R, {"atcont"})
      BY <1>2, <1>5, ValueIn, SoftAtcont
    <2> HIDE DEF R
    <2> QED
      BY <1>2, <1>4, <2>1, SoftCore, ReadySoft DEF Soft
  <1>7. Kept(task, stack, tick)
    BY DEF IInv, Kept
  <1>8. /\ Core(S, Rest, tick) /\ AllClosed(S) /\ BornIn(S) = B /\ WaitersIn(S) = Ws
        /\ FieldsKept(T, S, {"wait", "seq", "wop", "won", "wdone"}) /\ S[t].wait \in Nat \ {0}
        /\ S[t].seq \in Nat
    <2> HIDE DEF S, T
    <2>1. S = SetWait(T, t, v.k, v.t) /\ T[t].run # "yes" /\ (Firm(T[t]) => ~Pending(Rest, tick, t))
      BY <1>4 DEF Ready, S
    <2>2. /\ Core(S, Rest, tick) /\ AllClosed(S) /\ BornIn(S) = B /\ WaitersIn(S) = Ws
          /\ FieldsKept(T, S, {"wait", "seq", "wop", "won", "wdone"}) /\ S[t].wait \in Nat \ {0}
      BY <1>2, <1>4, <2>1, WaitCore
    <2> QED
      BY <1>2, <2>2 DEF Core, Types, DataOK
  <1>9. /\ S[t].kind = task[t].kind /\ S[t].cur = task[t].cur /\ S[t].next = task[t].next
        /\ S[t].timer = task[t].timer
    <2> HIDE DEF S, T
    <2> QED
      BY <1>2, <1>5, <1>8 DEF FieldsKept, Fields
  <1>10. /\ Core(W, Rest, tick) /\ AllClosed(W) /\ BornIn(W) = B /\ WaitersIn(W) = Ws
         /\ W[t].wait \in Nat \ {0} /\ W[t].seq \in Nat
    <2>0. T[t].kind = "gen" => ~Has(Rest, Acts, t)
      BY <1>4 DEF Ready, Firm, LateTask, One
    <2> HIDE DEF S, v, t
    <2>1. /\ v.tmo => S[t].kind \in Timed /\ Asking(S[t])
          /\ v.tmo /\ S[t].kind = "gen" => ~S[t].timer /\ ~Has(Rest, Acts, t)
      BY <1>3, <1>5, <1>9, <2>0 DEF Asking
    <2> DEFINE b == v.tmo
    <2>2. /\ W = SetWaitTimer(S, t, b) /\ b \in BOOLEAN
          /\ b => S[t].kind \in Timed /\ Asking(S[t])
          /\ b /\ S[t].kind = "gen" => ~S[t].timer /\ ~Has(Rest, Acts, t)
      BY <1>3, <2>1
    <2> HIDE DEF W, b
    <2>3. /\ Core(W, Rest, tick) /\ AllClosed(W) /\ BornIn(W) = B /\ WaitersIn(W) = Ws
          /\ FieldsKept(S, W, {"timer", "stray"})
      BY ONLY <1>2, <1>4, <1>8, <2>2, TimerCore
    <2> QED
      BY <1>2, <1>8, <2>3 DEF FieldsKept, Fields
  <1> HIDE DEF W, S
  <1>11. CASE v.k \notin Waits
    <2>1. HandleRv(R, t, v)
      BY <1>11 DEF After
    <2> HIDE DEF R, t, v
    <2> QED
      BY <1>1, <1>2, <1>4, <1>6, <1>7, <2>1, HandleKept
  <1>12. CASE v.k \in Waits /\ c = None /\ ~ChildReady(T, t, v)
    <2>1. task' = Listen /\ stack' = <<>> \o Rest
      <3> HIDE DEF t, v, c, T, R, Listen, Q, Y
      <3>1. Step(Listen, <<>>)
        BY ONLY <1>0, <1>12, AfterCase
      <3> QED
        BY <3>1 DEF Step
    <2> HIDE DEF T
    <2>2. Core(Listen, Rest, tick) /\ AllClosed(Listen)
      <3>1. CASE v.k # "child"
        BY <1>10, <3>1
      <3>2. CASE v.k = "child"
        <4> DEFINE w == Token(t, W[t].wait)
                   L == [W EXCEPT ![v.t].fin = Append(@, w)]
        <4>1. Listen = L
          BY <3>2
        <4>2. w \in Tokens(B) /\ w.n # 0
          BY <1>2, <1>10 DEF Token, Tokens
        <4> HIDE DEF w
        <4>3. Soft(W, L, B, Ws)
          <5>1. Types(W, B, Ws) /\ v.t \in Tasks
            BY <1>3, <1>10, <3>2 DEF Core, BornIn
          <5> QED
            BY <4>2, <5>1, SoftTold
        <4> HIDE DEF L
        <4> QED
          BY <1>10, <4>1, <4>3, SoftCore
      <3> QED
        BY <3>1, <3>2
    <2> HIDE DEF Listen
    <2>3. <<>> \o Rest = Rest
      BY <1>2, Assoc
    <2> QED
      BY <1>1, <2>1, <2>2, <2>3, ClosedKept
  <1>13. CASE v.k \in Waits /\ c = None /\ ChildReady(T, t, v)
    <2> DEFINE n == W[t].seq
               P == [R EXCEPT ![t].seq = n, ![t].wait = 0]
    <2>1. HandleRv(Q, t, Ok)
      <3> HIDE DEF t, v, c, T, R, Listen, Q, Y
      <3> QED
        BY ONLY <1>0, <1>13, AfterCase
    <2>2. n \in Nat
      BY <1>10
    <2> DEFINE b == v.tmo
    <2>3. Q = SetWaitTimer(P, t, b)
      OBVIOUS
    <2> HIDE DEF n, T, R
    <2>4. /\ IsTable(P) /\ FieldsKept(R, P, {"seq", "wait"}) /\ OthersKept(R, P, t)
          /\ P[t].seq = n /\ P[t].wait = 0
      <3>1. Shape(R) /\ IsTable(R)
        BY <1>6, TableOf DEF Core
      <3>2. IsTable(P)
        BY <3>1 DEF IsTable, Shape
      <3>3. FieldsKept(R, P, {"seq", "wait"})
        BY <1>2, <3>1 DEF FieldsKept, Shape, Fields
      <3>4. OthersKept(R, P, t)
        BY <3>1 DEF OthersKept, Shape
      <3>5. P[t].seq = n /\ P[t].wait = 0
        BY <1>2, <3>1 DEF Shape, Fields
      <3> QED
        BY <3>2, <3>3, <3>4, <3>5
    <2> HIDE DEF P, Q
    <2>5. Types(R, B, Ws)
      BY <1>6 DEF Core
    <2>6. Types(P, B, Ws)
      <3>1. ASSUME NEW u \in Tasks PROVE P[u].seq \in Nat /\ P[u].wait \in Nat
        <4>1. CASE u = t
          BY <2>2, <2>4, <4>1
        <4>2. CASE u # t
          <5>1. P[u] = R[u] /\ DataOK(R[u], B, Ws)
            BY <2>4, <2>5, <4>2 DEF OthersKept, Types
          <5> QED
            BY <5>1 DEF DataOK
        <4> QED
          BY <4>1, <4>2
      <3>2. {"seq", "wait"} \in SUBSET LooseFields
        BY DEF LooseFields
      <3> QED
        BY <2>4, <2>5, <3>1, <3>2, TypesKept
    <2>7. \A u \in Tasks :
             /\ P[u].kind = R[u].kind /\ P[u].cur = R[u].cur /\ P[u].next = R[u].next
             /\ P[u].run = R[u].run /\ P[u].late = R[u].late /\ P[u].wdone = R[u].wdone
             /\ P[u].atret = R[u].atret /\ P[u].timer = R[u].timer /\ P[u].stray = R[u].stray
             /\ P[u].wait = R[u].wait \/ P[u].wait = 0
      BY <2>4 DEF FieldsKept, OthersKept, Fields
    <2>8. Soft(R, P, B, Ws)
      BY <2>6, <2>7 DEF Soft, Gentle, LateTask, Closed
    <2>9. /\ Core(P, Rest, tick) /\ AllClosed(P) /\ BornIn(P) = B /\ WaitersIn(P) = Ws
          /\ Ready(P, Rest, tick, t)
      BY <1>2, <1>6, <2>8, SoftCore, ReadySoft DEF Soft
    <2>10. /\ P[t].kind = task[t].kind /\ P[t].cur = task[t].cur /\ P[t].next = task[t].next
           /\ P[t].timer = task[t].timer
      BY <1>2, <1>5, <1>6, <2>7 DEF FieldsKept, Fields
    <2>16. P[t].kind = "gen" => ~Has(Rest, Acts, t)
      BY <2>9 DEF Ready, Firm, LateTask, One
    <2> HIDE DEF v, t
    <2>11. /\ b \in BOOLEAN /\ (b => P[t].kind \in Timed /\ Asking(P[t]))
           /\ b /\ P[t].kind = "gen" => ~P[t].timer /\ ~Has(Rest, Acts, t)
      BY <1>3, <2>10, <2>16 DEF Asking
    <2> HIDE DEF b
    <2>12. /\ Core(Q, Rest, tick) /\ AllClosed(Q) /\ BornIn(Q) = B /\ WaitersIn(Q) = Ws
           /\ FieldsKept(P, Q, {"timer", "stray"})
      BY ONLY <1>2, <1>4, <2>3, <2>9, <2>11, TimerCore
    <2>13. /\ Q[t].kind = P[t].kind /\ Q[t].late = P[t].late /\ Q[t].run = P[t].run
           /\ Q[t].wait = P[t].wait /\ Q[t].wdone = P[t].wdone
      BY <1>2, <2>12 DEF FieldsKept, Fields
    <2>14. Ready(Q, Rest, tick, t)
      BY <2>9, <2>13 DEF Ready, Firm, LateTask, Closed
    <2>15. Ok \in Values(B)
      BY ValueIn
    <2> QED
      BY <1>1, <1>2, <1>4, <1>7, <2>1, <2>12, <2>14, <2>15, HandleKept
  <1>14. None.k = "none"
    BY DEF None, Ret, Ok
  <1>15. CASE v.k \in Waits /\ c # None /\ c = v
    <2> DEFINE op == IF v.k = "wait" THEN v.k ELSE "deaf"
               X == SetWait(T, t, op, v.t)
    <2>1. task' = X /\ stack' = <<>> \o Rest
      BY <1>15 DEF After, Step
    <2> HIDE DEF T, op
    <2>2. Core(X, Rest, tick) /\ AllClosed(X)
      <3> HIDE DEF X
      <3>1. X = SetWait(T, t, op, v.t) /\ T[t].run # "yes" /\ (Firm(T[t]) => ~Pending(Rest, tick, t))
        BY <1>4 DEF Ready, X
      <3> QED
        BY <1>2, <1>4, <3>1, WaitCore
    <2>3. <<>> \o Rest = Rest
      BY <1>2, Assoc
    <2> QED
      BY <1>1, <2>1, <2>2, <2>3, ClosedKept
  <1>16. CASE v.k \in Waits /\ c # None /\ c # v
    <2>1. HandleRv(R, t, c)
      BY <1>16 DEF After
    <2> HIDE DEF R, t, c
    <2> QED
      BY <1>1, <1>2, <1>4, <1>6, <1>7, <2>1, HandleKept
  <1> QED
    BY <1>11, <1>12, <1>13, <1>15, <1>16

-----------------------------------------------------------------------------
\* The states.

\* A state runs, or one of its calls has returned.
LEMMA BodyHere ==
  ASSUME IInv, stack # <<>>, Top.f \in Acts
  PROVE  /\ Self \in BornIn(task) /\ Self \in Tasks /\ ActOK(Top, task[Self])
         /\ Top.f # "after" => Inner(stack)
         /\ ~(Top.f = "body" /\ task[Self].kind = "gen" /\ task[Self].cur = 3) => AllClosed(task)
  <1>1. /\ Self \in BornIn(task) /\ Self \in Tasks /\ FrameOK(Top, task) /\ Inner(Rest)
        /\ stack \in Seq(Frames(BornIn(task)))
    BY OnTop, Here DEF Self
  <1>2. ActOK(Top, task[Self])
    BY <1>1 DEF FrameOK, Self
  <1>3. Top.f # "after" => Inner(stack)
    BY <1>1, BodyInner DEF Top, Rest, Acts
  <1>4. ~(Top.f = "body" /\ task[Self].kind = "gen" /\ task[Self].cur = 3) => AllClosed(task)
    BY TopClosed DEF IInv, IsTop, Top, Self
  <1> QED
    BY <1>1, <1>2, <1>3, <1>4

LEMMA ReturnsKept ==
  ASSUME stack # <<>>, Top.f \in Acts, NEW R, Core(R, stack, tick), AllClosed(R),
         NEW v \in Values(BornIn(R)), v.tmo => R[Self].kind \in Timed /\ Asking(R[Self]),
         tick' = tick, Returns(R, v)
  PROVE  Kept(task', stack', tick')
  <1> DEFINE B == BornIn(R)
             g == Frame("after", Self, v)
  <1>1. task' = R /\ stack' = <<g>> \o Rest
    BY DEF Returns, Step
  <1>2. stack \in Seq(Frames(B)) /\ AllOK(stack, R)
    BY DEF Core
  <1>3. Top \in Frames(B) /\ FrameOK(Top, R)
    BY <1>2, HeadTail, AllTop DEF Top
  <1>4. Self \in B
    BY <1>3 DEF Frames, Self
  <1>5. g \in Frames(B) /\ g.f = "after" /\ g.t = Self /\ g.v = v
    BY <1>4, FrameIn
  <1> HIDE DEF g
  <1>6. FrameOK(g, R)
    BY <1>3, <1>5 DEF FrameOK, ActOK, Acts, Self
  <1>7. Core(R, <<g>> \o Rest, tick)
    BY <1>5, <1>6, ReplaceTop DEF Top, Rest, Self, Acts
  <1> QED
    BY <1>1, <1>7, ClosedKept

LEMMA SoftReturns ==
  ASSUME IInv, stack # <<>>, Top.f \in Acts, AllClosed(task), NEW R,
         Soft(task, R, BornIn(task), WaitersIn(task)),
         NEW v \in Values(BornIn(task)), v.tmo => task[Self].kind \in Timed /\ Asking(task[Self]),
         tick' = tick, Returns(R, v)
  PROVE  Kept(task', stack', tick')
  <1>1. Core(R, stack, tick) /\ AllClosed(R) /\ BornIn(R) = BornIn(task)
    BY SoftCore DEF IInv
  <1>2. Self \in Tasks
    BY BodyHere
  <1>3. v.tmo => R[Self].kind \in Timed /\ Asking(R[Self])
    BY <1>2 DEF Soft, Gentle, Asking
  <1> QED
    BY <1>1, <1>3, ReturnsKept

LEMMA CalledStep ==
  ASSUME IInv, Called
  PROVE  Kept(task', stack', tick')
  <1>1. stack # <<>> /\ Top.f = "call" /\ Top.f \in Acts /\ tick' = tick /\ Returns(task, Top.v)
    BY DEF Called, On, Acts
  <1>2. Top.v \in Values(BornIn(task)) /\ ActOK(Top, task[Self]) /\ AllClosed(task)
    BY <1>1, OnTop, BodyHere
  <1>3. ~Top.v.tmo
    BY <1>1, <1>2 DEF ActOK
  <1> QED
    BY <1>1, <1>2, <1>3, SelfStep, SoftReturns

\* goto: the state that has just run says which one is next.
Unheld(x) == x.timer = FALSE /\ x.wait = 0

LEMMA GoCore ==
  ASSUME NEW T, NEW s, NEW k, Core(T, s, k), s # <<>>, NEW t \in BornIn(T), Head(s).t = t,
         Head(s).f \in Acts \ {"body"}, ~Head(s).v.tmo, T[t].kind \notin One,
         NEW R, Types(R, BornIn(T), WaitersIn(T)), \A u \in Tasks \ {t} : Gentle(T[u], R[u]),
         FieldsKept(T, R, {"next", "timer", "wait", "err", "atcont"}),
         Unheld(R[t])
  PROVE  Core(R, s, k) /\ BornIn(R) = BornIn(T)
  <1> DEFINE B == BornIn(T)
  <1>1. t \in Tasks /\ s \in Seq(Frames(B)) /\ AllOK(s, T)
    BY DEF Core, BornIn
  <1>0. R[t].timer = FALSE /\ R[t].wait = 0
    BY DEF Unheld
  <1>2. \A u \in Tasks :
           /\ R[u].kind = T[u].kind /\ R[u].cur = T[u].cur
           /\ R[u].run = T[u].run /\ R[u].late = T[u].late
           /\ R[u].wdone = T[u].wdone /\ R[u].atret = T[u].atret /\ R[u].stray = T[u].stray
    BY DEF FieldsKept, Fields
  <1>3. AllOK(s, R)
    <2> SUFFICES ASSUME NEW i \in DOMAIN s PROVE FrameOK(s[i], R)
      BY DEF AllOK
    <2>1. s[i] \in Frames(B) /\ FrameOK(s[i], T)
      BY <1>1 DEF AllOK
    <2>2. s[i].t \in Tasks
      BY <2>1 DEF Frames, BornIn
    <2>3. CASE s[i].t # t
      BY <2>1, <2>2, <2>3 DEF FrameOK, ActOK, Gentle, LateTask, Asking
    <2>4. CASE s[i].t = t
      <3>1. ASSUME s[i].f \in Acts, T[t].kind = "gen" PROVE s[i] = Head(s)
        <4>1. Once(s, Acts, t)
          BY <1>1, <3>1 DEF Core, Lives, LateTask
        <4>2. 1 \in DOMAIN s /\ Head(s) = s[1]
          BY <1>1
        <4> QED
          BY <2>4, <3>1, <4>1, <4>2 DEF Once
      <3>2. s[i].f \in Acts /\ T[t].kind = "gen" => s[i].f # "body" /\ ~s[i].v.tmo
        BY <3>1
      <3>3. T[t].kind # "gen" => Asking(R[t])
        BY <1>1, <1>2 DEF Asking
      <3> QED
        BY <1>0, <1>1, <1>2, <2>1, <2>4, <3>2, <3>3 DEF FrameOK, ActOK, LateTask
    <2> QED
      BY <2>3, <2>4
  <1>4. TaskOK(R[t])
    <2>1. TaskOK(T[t])
      BY <1>1 DEF Core
    <2> QED
      BY <1>0, <1>1, <1>2, <2>1 DEF TaskOK, Closed
  <1>5. ~IsTop(s, "next", t)
    BY DEF IsTop, Acts
  <1>6. /\ R[t].kind = T[t].kind /\ R[t].run = T[t].run /\ (LateTask(T[t]) => LateTask(R[t]))
        /\ (Closed(T[t]) => Closed(R[t])) /\ (T[t].atret => R[t].atret)
    BY <1>0, <1>1, <1>2 DEF LateTask, Closed
  <1> QED
    BY <1>1, <1>3, <1>4, <1>5, <1>6, ChangeCore

LEMMA GoesKept ==
  ASSUME IInv, On("body"), task[Self].kind \notin One, NEW T,
         Soft(task, T, BornIn(task), WaitersIn(task)), NEW i \in Nat, tick' = tick, Goes(T, i)
  PROVE  Kept(task', stack', tick')
  <1> DEFINE B == BornIn(task)
             W == WaitersIn(task)
             t == Self
             C == ContinueTask(T, t, Ok)
             N == [C EXCEPT ![t].next = i]
             R == Keeps(N, Ok)
             g == Frame("after", t, Ok)
             s == <<g>> \o Rest
  <1>1. task' = R /\ stack' = s
    BY DEF Goes, Returns, Step
  <1>2. /\ stack # <<>> /\ Top.f = "body" /\ Top.f \in Acts /\ t \in B /\ t \in Tasks
        /\ Rest \in Seq(Frames(B)) /\ Ok \in Values(B) /\ ~Ok.tmo
    <2>1. stack # <<>> /\ Top.f = "body" /\ Top.f \in Acts
      BY DEF On, Acts
    <2> QED
      BY <2>1, BodyHere, OnTop, ValueIn
  <1>3. g \in Frames(B) /\ g.f = "after" /\ g.t = t /\ g.v = Ok
    BY <1>2, FrameIn
  <1> HIDE DEF g
  <1>4. FrameOK(g, task)
    BY <1>2, <1>3, BodyHere DEF FrameOK, ActOK, Acts
  <1>5. Core(task, s, tick) /\ s # <<>> /\ Head(s) = g
    <2>1. Core(task, s, tick)
      BY <1>2, <1>3, <1>4, ReplaceTop DEF IInv, Top, Rest, Self, Acts
    <2> QED
      BY <1>2, <1>3, <2>1, PushHas
  <1> HIDE DEF s, t
  <1>6. Core(T, s, tick) /\ BornIn(T) = B /\ WaitersIn(T) = W /\ Types(T, B, W)
    BY <1>5, SoftCore DEF Soft
  <1>7. Soft(T, C, B, W) /\ FieldsKept(T, C, {"wait", "err"})
    BY <1>2, <1>6, SoftCont
  <1> HIDE DEF C
  <1>8. IsTable(N) /\ FieldsKept(C, N, {"next"}) /\ N[t].next = i /\ OthersKept(C, N, t) /\ Types(N, B, W)
    <2>1. Types(C, B, W)
      BY <1>7 DEF Soft
    <2>2. IsTable(N) /\ FieldsKept(C, N, {"next"}) /\ N[t].next = i /\ OthersKept(C, N, t)
      <3> DEFINE f == "next"
                 z == i
      <3>1. N = SetOne(C, t, f, z) /\ f \in Fields /\ t \in Tasks /\ Shape(C) /\ IsTable(C)
        BY <1>2, <2>1, TableOf DEF Fields, SetOne
      <3> HIDE DEF f, z, N
      <3>2. IsTable(N) /\ FieldsKept(C, N, {f}) /\ N[t][f] = z /\ OthersKept(C, N, t)
        BY ONLY <3>1, OneField
      <3> QED
        BY <3>2 DEF f, z
    <2> HIDE DEF N
    <2>3. \A u \in Tasks : N[u].next \in Nat
      BY <2>1, <2>2 DEF Types, DataOK, OthersKept
    <2> QED
      BY <2>1, <2>2, <2>3, TypesKept DEF LooseFields
  <1> HIDE DEF N
  <1>9. /\ Soft(N, R, B, W) /\ R[t].wait = 0 /\ R[t].timer = FALSE
        /\ FieldsKept(N, R, {"wait", "timer", "atcont"})
    BY <1>2, <1>8, SoftKeeps DEF t
  <1> HIDE DEF R
  <1>10. FieldsKept(T, R, {"next", "timer", "wait", "err", "atcont"})
    BY <1>7, <1>8, <1>9 DEF FieldsKept
  <1>11. ASSUME NEW u \in Tasks \ {t} PROVE Gentle(T[u], R[u]) /\ Gentle(task[u], R[u])
    <2>1. Gentle(task[u], T[u]) /\ Gentle(T[u], C[u]) /\ N[u] = C[u] /\ Gentle(N[u], R[u])
      BY <1>7, <1>8, <1>9 DEF Soft, OthersKept
    <2> QED
      BY <2>1 DEF Gentle
  <1>12. T[t].kind \notin One
    BY <1>2 DEF Soft, Gentle, t
  <1>13. Core(R, s, tick) /\ BornIn(R) = B
    <2>1. Types(R, B, W)
      BY <1>9 DEF Soft
    <2>2. Head(s).t = t /\ Head(s).f \in Acts \ {"body"} /\ ~Head(s).v.tmo
      BY <1>2, <1>3, <1>5 DEF Acts
    <2>3. t \in BornIn(T)
      BY <1>2, <1>6
    <2>4. Types(R, BornIn(T), WaitersIn(T))
      BY ONLY <1>6, <2>1
    <2>5. \A u \in Tasks \ {t} : Gentle(T[u], R[u])
      BY <1>11
    <2>6. Unheld(R[t])
      BY <1>9 DEF Unheld
    <2>7. Core(R, s, tick) /\ BornIn(R) = BornIn(T)
      BY ONLY <1>5, <1>6, <1>10, <1>12, <2>2, <2>3, <2>4, <2>5, <2>6, GoCore
    <2> QED
      BY <1>6, <2>7
  <1>14. AllClosed(R)
    <2> SUFFICES ASSUME NEW u \in Tasks, Firm(R[u]), R[u].run = "yes" PROVE Closed(R[u])
      BY DEF AllClosed
    <2>1. CASE u = t
      BY <1>9, <2>1 DEF Closed
    <2>2. CASE u # t
      <3>1. Gentle(task[u], R[u])
        BY <1>11, <2>2
      <3>2. ~Woken(task, stack, u)
        BY <2>2 DEF Woken, IsTop, t, Self, Top
      <3>3. Closed(task[u])
        BY <3>1, <3>2 DEF IInv, MostClosed, Gentle, Firm
      <3> QED
        BY <3>1, <3>3 DEF Gentle
    <2> QED
      BY <2>1, <2>2
  <1> QED
    BY <1>1, <1>13, <1>14, ClosedKept

LEMMA FreshIs ==
  ASSUME Born # Tasks
  PROVE  Fresh \in Tasks \ Born
  <1> DEFINE S == Tasks \ Born
  <1>1. S # {} /\ S \subseteq Nat
    BY DEF Born, Tasks
  <1>2. Fresh = CHOOSE t \in S : \A u \in S : t <= u
    BY DEF Fresh
  <1> HIDE DEF S
  <1>3. Fresh \in S
    BY <1>1, <1>2, LeastNat
  <1> QED
    BY <1>3 DEF S

\* A task has been created by the state that runs.
LEMMA NewTop ==
  ASSUME IInv, stack # <<>>, Top.f = "body", AllClosed(task), Born # Tasks,
         NEW kind \in Kinds \ {"none"}, NEW C, C = Create(task, Fresh, kind, Self),
         NEW R, Soft(C, R, BornIn(C), WaitersIn(C))
  PROVE  /\ Core(R, stack, tick) /\ AllClosed(R) /\ Inner(stack)
         /\ BornIn(R) = BornIn(task) \cup {Fresh} /\ Fresh \in Tasks /\ Fresh # Self
         /\ Self \in BornIn(R) /\ ActOK(Top, R[Self])
         /\ R[Self].kind = task[Self].kind
         /\ ~Has(stack, Acts, Fresh) /\ ~Pending(stack, tick, Fresh) /\ Closed(R[Fresh])
         /\ R[Fresh].run = "never"
  <1> DEFINE B == BornIn(task)
             t == Self
  <1>1. t \in B /\ t \in Tasks /\ Inner(stack)
    BY BodyHere DEF Acts
  <1>2. Fresh \in Tasks \ B
    BY FreshIs, Here
  <1> DEFINE F == Fresh
  <1>3. t \in Ref(B) /\ Core(task, stack, tick)
    BY <1>1 DEF Ref, IInv
  <1> HIDE DEF t, F
  <1>4. F \in Tasks \ B /\ C = Create(task, F, kind, t)
    BY <1>2 DEF F, t
  <1>5. /\ Core(C, stack, tick) /\ BornIn(C) = B \cup {F} /\ AllClosed(C)
        /\ ~Has(stack, Acts, F) /\ ~Pending(stack, tick, F) /\ Closed(C[F]) /\ C[F].run = "never"
        /\ OthersKept(task, C, F)
    BY <1>3, <1>4, NewCore
  <1>6. Core(R, stack, tick) /\ AllClosed(R) /\ BornIn(R) = B \cup {F}
    BY <1>5, SoftCore
  <1>7. Gentle(C[F], R[F]) /\ Gentle(C[t], R[t]) /\ t # F
    BY <1>1, <1>4 DEF Soft
  <1>8. C[t] = task[t]
    BY <1>1, <1>5, <1>7 DEF OthersKept
  <1>9. FrameOK(Top, R)
    <2>1. stack \in Seq(Frames(B)) /\ AllOK(stack, R)
      BY <1>6, Here DEF Core
    <2> QED
      BY <2>1, AllTop DEF Top
  <1>10. ActOK(Top, R[t])
    BY <1>9 DEF FrameOK, Acts, t, Self
  <1> QED
    BY <1>1, <1>4, <1>5, <1>6, <1>7, <1>8, <1>10 DEF F, t, Gentle

LEMMA FreshKept ==
  ASSUME NEW R, NEW q, Core(R, q, tick), Inner(q), AllClosed(R), NEW F \in BornIn(R),
         ~Has(q, Acts, F), ~Pending(q, tick, F), Closed(R[F])
  PROVE  Kept(R, <<Frame("next", F, Ok)>> \o q, tick)
  <1> DEFINE h == Frame("next", F, Ok)
  <1>1. h \in Frames(BornIn(R)) /\ h.f = "next" /\ h.t = F
    BY FrameIn, ValueIn
  <1> HIDE DEF h
  <1>2. Core(R, <<h>> \o q, tick)
    BY <1>1, PushNext
  <1> QED
    BY <1>2, ClosedKept DEF h

\* The first state of the new task runs before g goes on.
LEMMA NewKept ==
  ASSUME IInv, stack # <<>>, Top.f = "body", AllClosed(task), Born # Tasks,
         NEW kind \in Kinds \ {"none"}, NEW C, C = Create(task, Fresh, kind, Self),
         NEW R, Soft(C, R, BornIn(C), WaitersIn(C)), tick' = tick,
         NEW g \in Frames(BornIn(R)), g.f \in Acts \ {"after"}, g.t = Self, FrameOK(g, R),
         New(R, <<g>>) \/ New(R, <<Frame("spawn", Fresh, Ok), g>>)
  PROVE  Kept(task', stack', tick')
  <1> DEFINE B == BornIn(R)
             F == Fresh
             q == <<g>> \o Rest
             n == Frame("next", F, Ok)
             p == Frame("spawn", F, Ok)
             r == <<p>> \o q
  <1>1. /\ Core(R, stack, tick) /\ AllClosed(R) /\ F \in B /\ F # Self
        /\ ~Has(stack, Acts, F) /\ ~Pending(stack, tick, F) /\ Closed(R[F])
    BY NewTop
  <1>2. stack \in Seq(Frames(B)) /\ Rest \in Seq(Frames(B))
    <2>1. stack \in Seq(Frames(B))
      BY <1>1 DEF Core
    <2> QED
      BY <2>1, HeadTail DEF Rest
  <1>3. Core(R, q, tick) /\ Inner(q)
    BY <1>1, ReplaceTop DEF Top, Rest, Self, Acts
  <1> HIDE DEF F
  <1>4. ~Has(q, Acts, F) /\ ~Pending(q, tick, F) /\ q \in Seq(Frames(B))
    <2>1. /\ Has(q, Acts, F) <=> Has(Rest, Acts, F)
          /\ Has(q, {"continue"}, F) <=> Has(Rest, {"continue"}, F)
          /\ q \in Seq(Frames(B))
      BY <1>1, <1>2, PushHas DEF Acts
    <2>2. (Has(Rest, Acts, F) => Has(stack, Acts, F)) /\ (Has(Rest, {"continue"}, F) => Has(stack, {"continue"}, F))
      BY <1>2, TopHas DEF Rest
    <2> HIDE DEF q
    <2> QED
      BY <1>1, <2>1, <2>2 DEF Pending
  <1>5. n \in Frames(B) /\ p \in Frames(B) /\ p.f = "spawn"
    BY <1>1, FrameIn, ValueIn
  <1>6. <<n>> \in Seq(Frames(B)) /\ <<p>> \in Seq(Frames(B)) /\ <<g>> \in Seq(Frames(B))
    <2> HIDE DEF n, p
    <2> QED
      BY <1>5
  <1>7. CASE New(R, <<g>>)
    <2>1. task' = R /\ stack' = (<<n>> \o <<g>>) \o Rest
      BY <1>7 DEF New, Step, F
    <2> HIDE DEF n
    <2>2. (<<n>> \o <<g>>) \o Rest = <<n>> \o (<<g>> \o Rest)
      BY <1>2, <1>6, Assoc
    <2> HIDE DEF q
    <2>3. Kept(R, <<n>> \o q, tick)
      BY <1>1, <1>3, <1>4, FreshKept DEF n
    <2> QED
      BY <2>1, <2>2, <2>3 DEF q
  <1>8. CASE New(R, <<Frame("spawn", Fresh, Ok), g>>)
    <2>1. task' = R /\ stack' = (<<n>> \o <<p, g>>) \o Rest
      BY <1>8 DEF New, Step, F
    <2> HIDE DEF n, p
    <2>2. (<<n>> \o <<p, g>>) \o Rest = <<n>> \o r
      <3>1. <<p, g>> = <<p>> \o <<g>> /\ <<p, g>> \in Seq(Frames(B))
        BY <1>5
      <3>2. (<<p>> \o <<g>>) \o Rest = <<p>> \o (<<g>> \o Rest)
        BY <1>2, <1>6, Assoc
      <3>3. (<<n>> \o <<p, g>>) \o Rest = <<n>> \o (<<p, g>> \o Rest)
        BY <1>2, <1>6, <3>1, Assoc
      <3> QED
        BY <3>1, <3>2, <3>3
    <2> HIDE DEF q
    <2>3. Core(R, r, tick) /\ Inner(r)
      BY <1>3, <1>5, PushOne DEF Plain, Acts
    <2>4. ~Has(r, Acts, F) /\ ~Pending(r, tick, F)
      <3>1. /\ Has(r, Acts, F) <=> Has(q, Acts, F)
            /\ Has(r, {"continue"}, F) <=> Has(q, {"continue"}, F)
        BY <1>4, <1>5, PushHas DEF Acts
      <3> HIDE DEF r
      <3> QED
        BY <1>4, <3>1 DEF Pending
    <2> HIDE DEF r
    <2>5. Kept(R, <<n>> \o r, tick)
      BY <1>1, <2>3, <2>4, FreshKept DEF n
    <2> QED
      BY <2>1, <2>2, <2>5
  <1> QED
    BY <1>7, <1>8

\* The frame that calls, and the state itself.
LEMMA CallIn ==
  ASSUME NEW R, NEW t \in BornIn(R), NEW u \in BornIn(R), ActOK(Top, R[t]), Top.f = "body"
  PROVE  LET g == Frame("call", t, TaskVal(u)) IN
         g \in Frames(BornIn(R)) /\ g.f \in Acts \ {"after"} /\ g.t = t /\ FrameOK(g, R)
  <1> DEFINE g == Frame("call", t, TaskVal(u))
  <1>1. TaskVal(u) \in Values(BornIn(R)) /\ ~TaskVal(u).tmo
    BY TaskValIn DEF BornIn
  <1>2. g \in Frames(BornIn(R)) /\ g.f = "call" /\ g.t = t /\ g.v = TaskVal(u)
    BY <1>1, FrameIn
  <1> HIDE DEF g
  <1>3. FrameOK(g, R)
    BY <1>1, <1>2 DEF FrameOK, ActOK, Acts
  <1> QED
    BY <1>2, <1>3 DEF g, Acts

LEMMA TopIn ==
  ASSUME NEW R, Core(R, stack, tick), stack # <<>>, Top.f = "body"
  PROVE  Top \in Frames(BornIn(R)) /\ Top.f \in Acts \ {"after"} /\ Top.t = Self /\ FrameOK(Top, R)
  <1>1. stack \in Seq(Frames(BornIn(R))) /\ AllOK(stack, R)
    BY DEF Core
  <1> QED
    BY <1>1, HeadTail, AllTop DEF Top, Self, Acts

\* return and throw of a task in its own state.
LEMMA LeavesKept ==
  ASSUME IInv, stack # <<>>, Top.f = "body", AllClosed(task), NEW v \in Values(BornIn(task)),
         v.tmo => task[Self].kind \in Timed /\ Asking(task[Self]),
         tick' = tick, Leaves(task, v)
  PROVE  Kept(task', stack', tick')
  <1> DEFINE B == BornIn(task)
             W == WaitersIn(task)
             C == ReturnTask(task, Self, v)
             R == Keeps(C, v)
  <1>1. Returns(R, v) /\ Top.f \in Acts
    BY DEF Leaves, Acts
  <1>2. Self \in Tasks
    BY <1>1, BodyHere
  <1>3. Soft(task, C, B, W)
    BY <1>2, Here, SoftReturn
  <1> HIDE DEF C
  <1>4. Soft(C, R, B, W)
    BY <1>2, <1>3, SoftKeeps DEF Soft
  <1> HIDE DEF R
  <1>5. Soft(task, R, B, W)
    BY <1>3, <1>4, SoftTrans
  <1> QED
    BY <1>1, <1>5, SoftReturns

LEMMA ThrowsKept ==
  ASSUME IInv, stack # <<>>, Top.f = "body", AllClosed(task), NEW v \in Values(BornIn(task)),
         NEW w \in Values(BornIn(task)), ~w.tmo,
         tick' = tick, Returns(Keeps(ContinueTask(task, Self, v), v), w)
  PROVE  Kept(task', stack', tick')
  <1> DEFINE B == BornIn(task)
             W == WaitersIn(task)
             C == ContinueTask(task, Self, v)
             R == Keeps(C, v)
  <1>1. Returns(R, w) /\ Top.f \in Acts
    BY DEF Acts
  <1>2. Self \in Tasks
    BY <1>1, BodyHere
  <1>3. Soft(task, C, B, W)
    BY <1>2, Here, SoftCont
  <1> HIDE DEF C
  <1>4. Soft(C, R, B, W)
    BY <1>2, <1>3, SoftKeeps DEF Soft
  <1> HIDE DEF R
  <1>5. Soft(task, R, B, W)
    BY <1>3, <1>4, SoftTrans
  <1> QED
    BY <1>1, <1>5, SoftReturns

\* A counter of a task changes.
LEMMA SoftI ==
  ASSUME NEW B, NEW W, NEW T, Types(T, B, W), NEW t \in Tasks, NEW n \in Nat
  PROVE  Soft(T, [T EXCEPT ![t].i = n], B, W)
  <1> DEFINE R == [T EXCEPT ![t].i = n]
  <1>1. IsTable(R) /\ FieldsKept(T, R, {"i"}) /\ R[t].i = n /\ OthersKept(T, R, t)
    <2> DEFINE f == "i"
               z == n
    <2>1. R = SetOne(T, t, f, z) /\ f \in Fields /\ t \in Tasks /\ Shape(T) /\ IsTable(T)
      BY TableOf DEF Fields, SetOne
    <2> HIDE DEF f, z, R
    <2>2. IsTable(R) /\ FieldsKept(T, R, {f}) /\ R[t][f] = z /\ OthersKept(T, R, t)
      BY ONLY <2>1, OneField
    <2> QED
      BY <2>2 DEF f, z
  <1> HIDE DEF R
  <1>2. Types(R, B, W)
    <2>1. \A u \in Tasks : R[u].i \in Nat
      BY <1>1 DEF Types, DataOK, OthersKept
    <2> QED
      BY <1>1, <2>1, TypesKept DEF LooseFields
  <1>3. FieldsKept(T, R, DataFields)
    BY <1>1 DEF FieldsKept, DataFields
  <1>4. Soft(T, R, B, W)
    BY <1>2, <1>3, SoftData
  <1> QED
    BY <1>4 DEF R

LEMMA GeneratorStep ==
  ASSUME IInv, Generator
  PROVE  Kept(task', stack', tick')
  <1>1. On("body") /\ stack # <<>> /\ Top.f = "body" /\ tick' = tick /\ Top.f \in Acts
    BY DEF Generator, At, On, Acts
  <1>2. CASE At("gen", 1) /\ Returns(task, Ok)
    <2>1. AllClosed(task)
      BY <1>1, <1>2, BodyHere DEF At, Self
    <2> QED
      BY <1>1, <1>2, <2>1, SelfStep, ValueIn, SoftReturns
  <1>3. CASE At("gen", 3) /\ Goes(task, 2)
    <2>1. task[Self].kind \notin One
      BY <1>3 DEF At, Self, One
    <2> QED
      BY <1>1, <1>3, <2>1, SelfStep, GoesKept
  <1> QED
    BY <1>2, <1>3 DEF Generator

LEMMA LeafStep ==
  ASSUME IInv, Leaf
  PROVE  Kept(task', stack', tick')
  <1> DEFINE B == BornIn(task)
  <1>1. stack # <<>> /\ Top.f = "body" /\ tick' = tick /\ Top.f \in Acts
    BY DEF Leaf, At, On, Acts
  <1>2. task[Self].kind \in One
    BY DEF Leaf, At, Self, One
  <1>3. AllClosed(task)
    BY <1>1, <1>2, BodyHere DEF One
  <1>4. CASE At("waiter", 1) /\ Returns(task, Ret("wait"))
    BY <1>1, <1>3, <1>4, SelfStep, ValueIn, SoftReturns
  <1>5. ASSUME At("leaf", 1), NEW tmo \in BOOLEAN, Returns(task, [Ret("wait") EXCEPT !.tmo = tmo])
        PROVE  Kept(task', stack', tick')
    <2> DEFINE v == [Ret("wait") EXCEPT !.tmo = tmo]
    <2>1. v = [k |-> "wait", t |-> Nobody, tmo |-> tmo]
      BY RetIs
    <2>2. v \in Values(B)
      BY <2>1, WaitIn
    <2>3. task[Self].kind \in Timed /\ Asking(task[Self])
      BY <1>5 DEF At, Self, Timed, Asking
    <2> HIDE DEF v
    <2>4. Returns(task, v)
      BY <1>5 DEF v
    <2> QED
      BY <1>1, <1>3, <2>2, <2>3, <2>4, SelfStep, SoftReturns
  <1>6. ASSUME At("leaf", 1), NEW v \in {Ok, Err},
               Returns(Keeps(ContinueTask(task, Self, v), v), Ret("wait"))
        PROVE  Kept(task', stack', tick')
    <2>1. v \in Values(B) /\ Ret("wait") \in Values(B) /\ ~Ret("wait").tmo
      BY ValueIn
    <2> QED
      BY <1>1, <1>3, <1>6, <2>1, ThrowsKept
  <1> QED
    BY <1>4, <1>5, <1>6 DEF Leaf

\* A task created by the state that runs: called, spawned or left alone.
LEMMA CreatedIs ==
  ASSUME IInv, stack # <<>>, Top.f = "body", AllClosed(task), Born # Tasks,
         NEW kind \in Kinds \ {"none"}, NEW C, C = Create(task, Fresh, kind, Self)
  PROVE  /\ Soft(C, C, BornIn(C), WaitersIn(C)) /\ Types(C, BornIn(C), WaitersIn(C))
         /\ Core(C, stack, tick) /\ BornIn(C) = BornIn(task) \cup {Fresh}
         /\ Fresh \in Tasks \ BornIn(task) /\ Fresh \in BornIn(C)
         /\ (kind = "waiter" => Fresh \in WaitersIn(C))
         /\ OthersKept(task, C, Fresh)
  <1> DEFINE B == BornIn(task)
             F == Fresh
             t == Self
  <1>1. F \in Tasks \ B /\ t \in Ref(B) /\ Core(task, stack, tick)
    BY FreshIs, Here, BodyHere DEF Ref, IInv, Acts
  <1> HIDE DEF F, t
  <1>2. C = Create(task, F, kind, t)
    BY DEF F, t
  <1>3. /\ Core(C, stack, tick) /\ BornIn(C) = B \cup {F} /\ (kind = "waiter" => F \in WaitersIn(C))
        /\ OthersKept(task, C, F)
    BY <1>1, <1>2, NewCore
  <1>4. Types(C, BornIn(C), WaitersIn(C))
    BY <1>3 DEF Core
  <1>5. Soft(C, C, BornIn(C), WaitersIn(C))
    BY <1>4, SoftSelf
  <1> QED
    BY <1>1, <1>3, <1>4, <1>5 DEF F

LEMMA CreateKept ==
  ASSUME IInv, stack # <<>>, Top.f = "body", AllClosed(task), Born # Tasks,
         NEW kind \in Kinds \ {"none"}, NEW C, C = Create(task, Fresh, kind, Self), tick' = tick,
         \/ New(C, <<Frame("call", Self, TaskVal(Fresh))>>)
         \/ New(C, <<Frame("spawn", Fresh, Ok), Top>>)
         \/ New(C, <<Top>>)
  PROVE  Kept(task', stack', tick')
  <1> DEFINE g == Frame("call", Self, TaskVal(Fresh))
  <1>1. /\ Soft(C, C, BornIn(C), WaitersIn(C)) /\ Core(C, stack, tick) /\ Fresh \in BornIn(C)
    BY CreatedIs
  <1>2. Self \in BornIn(C) /\ ActOK(Top, C[Self])
    BY <1>1, NewTop
  <1>3. g \in Frames(BornIn(C)) /\ g.f \in Acts \ {"after"} /\ g.t = Self /\ FrameOK(g, C)
    BY <1>1, <1>2, CallIn
  <1>4. Top \in Frames(BornIn(C)) /\ Top.f \in Acts \ {"after"} /\ Top.t = Self /\ FrameOK(Top, C)
    BY <1>1, TopIn
  <1>5. CASE New(C, <<Frame("call", Self, TaskVal(Fresh))>>)
    <2>1. New(C, <<g>>)
      BY <1>5
    <2> HIDE DEF g
    <2> QED
      BY <1>1, <1>3, <2>1, NewKept
  <1>6. CASE New(C, <<Frame("spawn", Fresh, Ok), Top>>) \/ New(C, <<Top>>)
    BY <1>1, <1>4, <1>6, NewKept
  <1> QED
    BY <1>5, <1>6

LEMMA ForStep ==
  ASSUME IInv, For
  PROVE  Kept(task', stack', tick')
  <1> DEFINE B == BornIn(task)
             W == WaitersIn(task)
  <1>1. On("body") /\ stack # <<>> /\ Top.f = "body" /\ tick' = tick /\ Top.f \in Acts
    BY DEF For, At, On, Acts
  <1>2. task[Self].kind = "for"
    BY DEF For, At, Self
  <1>3. AllClosed(task) /\ Self \in Tasks /\ Self \in B
    BY <1>1, <1>2, BodyHere
  <1>4. Ok \in Values(B) /\ Err \in Values(B) /\ ~Ok.tmo /\ ~Err.tmo
    BY ValueIn
  <1>5. ASSUME NEW go \in {0, 1}, Returns([task EXCEPT ![Self].i = go], Ok)
        PROVE  Kept(task', stack', tick')
    <2> DEFINE R == [task EXCEPT ![Self].i = go]
    <2>1. Soft(task, R, B, W)
      BY <1>3, Here, SoftI
    <2> HIDE DEF R
    <2>2. Returns(R, Ok)
      BY <1>5 DEF R
    <2> QED
      BY <1>1, <1>3, <1>4, <2>1, <2>2, SoftReturns
  <1>6. CASE Leaves(task, Ok)
    BY <1>1, <1>3, <1>4, <1>6, LeavesKept
  <1>7. CASE Throws(task)
    <2>1. Returns(Keeps(ContinueTask(task, Self, Err), Err), Err)
      BY <1>7 DEF Throws
    <2> QED
      BY <1>1, <1>3, <1>4, <2>1, ThrowsKept
  <1>8. CASE Returns(task, Ok)
    BY <1>1, <1>3, <1>4, <1>8, SelfStep, SoftReturns
  <1>9. CASE Goes(task, 1)
    <2>1. task[Self].kind \notin One
      BY <1>2 DEF One
    <2> QED
      BY <1>1, <1>9, <2>1, SelfStep, GoesKept
  <1>10. CASE CanCreate /\ New(Create(task, Fresh, "gen", Self), <<Frame("call", Self, TaskVal(Fresh))>>)
    <2> DEFINE C == Create(task, Fresh, "gen", Self)
    <2>1. "gen" \in Kinds \ {"none"} /\ Born # Tasks
      BY <1>10 DEF Kinds, CanCreate
    <2>2. New(C, <<Frame("call", Self, TaskVal(Fresh))>>)
      BY <1>10
    <2> HIDE DEF C
    <2>3. C = Create(task, Fresh, "gen", Self)
      BY DEF C
    <2> QED
      BY <1>1, <1>3, <2>1, <2>2, <2>3, CreateKept
  <1> QED
    BY <1>5, <1>6, <1>7, <1>8, <1>9, <1>10 DEF For

LEMMA AllOfStep ==
  ASSUME IInv, AllOf
  PROVE  Kept(task', stack', tick')
  <1> DEFINE B == BornIn(task)
             W == WaitersIn(task)
             a == task[Self].arr
             i == task[Self].i + 1
             T == [task EXCEPT ![Self].i = i]
  <1>1. On("body") /\ stack # <<>> /\ Top.f = "body" /\ tick' = tick /\ Top.f \in Acts
    BY DEF AllOf, At, On, Acts
  <1>2. task[Self].kind = "all"
    BY DEF AllOf, At, Self
  <1>3. AllClosed(task) /\ Self \in Tasks /\ Self \in B
    BY <1>1, <1>2, BodyHere
  <1>4. Ok \in Values(B) /\ Err \in Values(B) /\ ~Ok.tmo /\ ~Err.tmo
    BY ValueIn
  <1>5. a \in Seq(B) /\ i \in Nat /\ i # 0
    <2>1. DataOK(task[Self], B, W)
      BY <1>3, Here DEF Types
    <2>2. task[Self].arr \in Seq(B) /\ task[Self].i \in Nat
      BY <2>1 DEF DataOK
    <2> QED
      BY <2>2
  <1>6. CASE Returns(Adopt(task, a, Self), Ok)
    <2> DEFINE R == Adopt(task, a, Self)
               t == Self
    <2>1. TreeKept(task, R, B)
      <3> HIDE DEF a, t
      <3>1. TreeKept(task, Adopt(task, a, t), B)
        <4>1. t \in B
          BY <1>3 DEF t
        <4> QED
          BY <1>5, <4>1, Here, AdoptKept
      <3> QED
        BY <3>1 DEF t
    <2> HIDE DEF R
    <2>2. Soft(task, R, B, W)
      BY <2>1, Here, SoftTree
    <2>3. Returns(R, Ok)
      BY <1>6 DEF R
    <2> QED
      BY <1>1, <1>3, <1>4, <2>2, <2>3, SoftReturns
  <1>7. CASE Leaves(task, Ok)
    BY <1>1, <1>3, <1>4, <1>7, LeavesKept
  <1>8. CASE i <= Len(a) /\ Returns(SpawnParent(task, a[i], Nobody), TaskVal(a[i]))
    <2> DEFINE u == a[i]
               R == SpawnParent(task, u, Nobody)
    <2>1. u \in B
      <3> HIDE DEF a, i
      <3> QED
        BY <1>5, <1>8
    <2>2. Returns(R, TaskVal(u))
      BY <1>8
    <2> HIDE DEF u
    <2>3. TreeKept(task, R, B)
      BY <2>1, Here, SpawnParentKept DEF Ref
    <2> HIDE DEF R
    <2>4. Soft(task, R, B, W)
      BY <2>3, Here, SoftTree
    <2>5. TaskVal(u) \in Values(B) /\ ~TaskVal(u).tmo
      BY <2>1, Here, TaskValIn
    <2> QED
      BY <1>1, <1>3, <2>2, <2>4, <2>5, SoftReturns
  <1>9. CASE Throws(task)
    <2>1. Returns(Keeps(ContinueTask(task, Self, Err), Err), Err)
      BY <1>9 DEF Throws
    <2> QED
      BY <1>1, <1>3, <1>4, <2>1, ThrowsKept
  <1>10. CASE Goes(T, 2)
    <2>1. Soft(task, T, B, W)
      <3> DEFINE n == i
      <3> HIDE DEF n
      <3>1. Soft(task, [task EXCEPT ![Self].i = n], B, W)
        <4>1. n \in Nat
          BY <1>5 DEF n
        <4> QED
          BY <1>3, <4>1, Here, SoftI
      <3> QED
        BY <3>1 DEF n
    <2>2. task[Self].kind \notin One
      BY <1>2 DEF One
    <2> HIDE DEF T
    <2> QED
      BY <1>1, <1>10, <2>1, <2>2, GoesKept
  <1> QED
    BY <1>6, <1>7, <1>8, <1>9, <1>10 DEF AllOf

\* The kinds of a plan are those of tasks.
LEMMA PlanKinds ==
  ASSUME IInv, NEW k \in plan.kinds
  PROVE  k \in Kinds \ {"none"}
  BY PlansAssumption DEF IInv, UserKinds, Kinds

LEMMA AllLimitStep ==
  ASSUME IInv, AllLimit
  PROVE  Kept(task', stack', tick')
  <1> DEFINE B == BornIn(task)
             W == WaitersIn(task)
  <1>1. stack # <<>> /\ tick' = tick /\ Top.f \in {"body", "iter"} /\ Top.f \in Acts
    BY DEF AllLimit, At, On, Acts
  <1>2. Self \in Tasks /\ Self \in B /\ ActOK(Top, task[Self])
    BY <1>1, BodyHere
  <1>3. task[Self].kind = "limit"
    BY <1>1, <1>2 DEF AllLimit, At, On, Self, ActOK
  <1>4. AllClosed(task)
    BY <1>1, <1>3, BodyHere
  <1>5. CASE On("body") /\ Goes(task, 2)
    <2>1. task[Self].kind \notin One
      BY <1>3 DEF One
    <2> QED
      BY <1>1, <1>5, <2>1, SelfStep, GoesKept
  <1>6. ASSUME On("body"), CanCreate, NEW k \in plan.kinds,
               New(Create(task, Fresh, k, Self), <<Frame("spawn", Fresh, Ok), Frame("iter", Self, Ok)>>)
        PROVE  Kept(task', stack', tick')
    <2> DEFINE C == Create(task, Fresh, k, Self)
               g == Frame("iter", Self, Ok)
    <2>1. k \in Kinds \ {"none"} /\ Born # Tasks /\ Top.f = "body"
      BY <1>6, PlanKinds DEF CanCreate, On
    <2>2. New(C, <<Frame("spawn", Fresh, Ok), g>>)
      BY <1>6
    <2> HIDE DEF C
    <2>3. C = Create(task, Fresh, k, Self)
      BY DEF C
    <2>4. Soft(C, C, BornIn(C), WaitersIn(C))
      BY <1>1, <1>4, <2>1, <2>3, CreatedIs
    <2>5. Self \in BornIn(C) /\ ActOK(Top, C[Self]) /\ C[Self].kind = "limit"
      BY <1>1, <1>3, <1>4, <2>1, <2>3, <2>4, NewTop
    <2>6. g \in Frames(BornIn(C)) /\ g.f = "iter" /\ g.t = Self
      BY <2>5, FrameIn, ValueIn
    <2> HIDE DEF g
    <2>7. FrameOK(g, C) /\ g.f \in Acts \ {"after"}
      BY <2>5, <2>6 DEF FrameOK, ActOK, Acts
    <2> QED
      BY <1>1, <1>4, <2>1, <2>2, <2>3, <2>4, <2>6, <2>7, NewKept
  <1>7. CASE /\ On("iter")
             /\ Returns([task EXCEPT ![Self].next = task[Self].cur], IF AtLimit(Self) THEN Ret("any") ELSE Ok)
    <2> DEFINE n == task[Self].cur
               R == [task EXCEPT ![Self].next = n]
               v == IF AtLimit(Self) THEN Ret("any") ELSE Ok
               t == Self
    <2>1. Returns(R, v)
      BY <1>7
    <2>2. n \in Nat
      BY <1>2, Here DEF Types, DataOK
    <2>3. v \in Values(B) /\ ~v.tmo
      BY ValueIn
    <2>4. ~IsTop(stack, "next", t)
      BY <1>7 DEF IsTop, On, Top
    <2> HIDE DEF n, v, t
    <2>5. R = SetOne(task, t, "next", n) /\ t \in B /\ task[t].kind \notin One \cup {"gen"}
      BY <1>2, <1>3 DEF t, One, SetOne
    <2> HIDE DEF R
    <2>7. Core(task, stack, tick)
      BY DEF IInv
    <2>6. Core(R, stack, tick) /\ AllClosed(R) /\ BornIn(R) = B
      BY ONLY <1>4, <2>2, <2>4, <2>5, <2>7, NextCore
    <2> QED
      BY <1>1, <2>1, <2>3, <2>6, ReturnsKept
  <1>8. CASE Returns(task, Ret("all"))
    BY <1>1, <1>4, <1>8, SelfStep, ValueIn, SoftReturns
  <1> QED
    BY <1>5, <1>6, <1>7, <1>8 DEF AllLimit, At

-----------------------------------------------------------------------------
\* The user's states.

LEMMA UserHere ==
  ASSUME IInv, User
  PROVE  /\ stack # <<>> /\ Top.f = "body" /\ Top.f \in Acts /\ Self \in Tasks /\ Self \in BornIn(task)
         /\ AllClosed(task) /\ Inner(stack) /\ task[Self].kind \in Timed /\ Asking(task[Self])
         /\ stack \in Seq(Frames(BornIn(task))) /\ Rest \in Seq(Frames(BornIn(task)))
         /\ Top \in Frames(BornIn(task)) /\ stack = <<Top>> \o Rest
  <1>1. stack # <<>> /\ Top.f = "body" /\ Top.f \in Acts
    BY DEF User, On, At, Acts
  <1>2. Self \in BornIn(task) /\ Self \in Tasks /\ ActOK(Top, task[Self]) /\ Inner(stack)
    BY <1>1, BodyHere
  <1>3. task[Self].kind = "raw" \/ (task[Self].kind = "gen" /\ task[Self].cur = 2)
    BY DEF User, At, Self
  <1>4. AllClosed(task)
    BY <1>1, <1>3, BodyHere
  <1>5. task[Self].kind \in Timed /\ Asking(task[Self])
    BY <1>1, <1>2, <1>3 DEF ActOK, Timed, Asking
  <1> QED
    BY <1>1, <1>2, <1>4, <1>5, OnTop, Here

\* Frames are pushed on the state that runs.
LEMMA OnBody ==
  ASSUME IInv, User, tick' = tick, NEW gs \in Seq(Frames(BornIn(task))),
         \A i \in DOMAIN gs : Plain(gs[i]) /\ gs[i].f # "return",
         task' = task, stack' = (gs \o <<Top>>) \o Rest
  PROVE  Kept(task', stack', tick')
  <1> DEFINE B == BornIn(task)
  <1>1. /\ AllClosed(task) /\ Inner(stack) /\ Rest \in Seq(Frames(B)) /\ Top \in Frames(B)
        /\ stack = <<Top>> \o Rest
    BY UserHere
  <1>2. (gs \o <<Top>>) \o Rest = gs \o stack
    <2>1. <<Top>> \in Seq(Frames(B))
      BY <1>1
    <2> QED
      BY <1>1, <2>1, Assoc
  <1>3. Core(task, gs \o stack, tick)
    BY <1>1, PushPlain DEF IInv
  <1> QED
    BY <1>1, <1>2, <1>3, ClosedKept

\* What a state of the user returns is what a wait can be for.
LEMMA YieldsIn ==
  ASSUME IInv, User
  PROVE  /\ \A x \in {"wait", "promise", "any", "all"} : Ret(x) \in Values(BornIn(task))
         /\ \A x \in {"wait", "any"} : [Ret(x) EXCEPT !.tmo = TRUE] \in Values(BornIn(task))
         /\ \A c \in ToSet(task[Self].child) : [Ret("child") EXCEPT !.t = c] \in Values(BornIn(task))
  <1> DEFINE B == BornIn(task)
  <1>1. task[Self].child \in Seq(B) /\ B \subseteq Tasks
    BY UserHere, Here DEF TreeTypes
  <1>2. \A c \in ToSet(task[Self].child) : c \in B
    BY <1>1 DEF ToSet
  <1> HIDE DEF B
  <1>4. \A x \in {"wait", "any"} : [Ret(x) EXCEPT !.tmo = TRUE] \in Values(B)
    <2>1. ASSUME NEW x \in {"wait", "any"} PROVE [Ret(x) EXCEPT !.tmo = TRUE] \in Values(B)
      <3> DEFINE b == TRUE
      <3>1. b \in BOOLEAN
        OBVIOUS
      <3> HIDE DEF b
      <3>2. [Ret(x) EXCEPT !.tmo = b] = [k |-> x, t |-> Nobody, tmo |-> b]
        BY RetIs
      <3>3. [k |-> x, t |-> Nobody, tmo |-> b] \in Values(B)
        BY <3>1, WaitIn
      <3>4. [Ret(x) EXCEPT !.tmo = b] \in Values(B)
        BY ONLY <3>2, <3>3
      <3> QED
        BY <3>4 DEF b
    <2> QED
      BY <2>1
  <1>5. \A c \in ToSet(task[Self].child) : [Ret("child") EXCEPT !.t = c] \in Values(B)
    <2>1. ASSUME NEW c \in ToSet(task[Self].child) PROVE [Ret("child") EXCEPT !.t = c] \in Values(B)
      <3>1. [k |-> "child", t |-> c, tmo |-> FALSE] \in Values(B)
        BY <1>1, <1>2, ChildIn
      <3> DEFINE x == "child"
      <3> HIDE DEF x
      <3>2. [Ret(x) EXCEPT !.t = c] = [k |-> x, t |-> c, tmo |-> FALSE]
        BY RetIs
      <3>3. [Ret("child") EXCEPT !.t = c] = [k |-> "child", t |-> c, tmo |-> FALSE]
        BY <3>2 DEF x
      <3> QED
        BY ONLY <3>1, <3>3
    <2> QED
      BY <2>1
  <1> QED
    BY <1>4, <1>5, ValueIn DEF B

LEMMA WaitsIn ==
  ASSUME IInv, User, NEW op \in {"wait", "timeout", "child"}
  PROVE  WaitFor(op) \subseteq Values(BornIn(task))
  <1>1. CASE op = "wait"
    BY <1>1, YieldsIn DEF WaitFor
  <1>2. CASE op = "timeout"
    BY <1>2, YieldsIn DEF WaitFor
  <1>3. CASE op = "child"
    BY <1>3, YieldsIn DEF WaitFor
  <1> QED
    BY <1>1, <1>2, <1>3

LEMMA FinishStep ==
  ASSUME IInv, Finish \/ FinishWait
  PROVE  Kept(task', stack', tick')
  <1> DEFINE B == BornIn(task)
  <1>1. User /\ tick' = tick
    BY DEF Finish, FinishWait, May
  <1>2. stack # <<>> /\ Top.f = "body" /\ Top.f \in Acts /\ AllClosed(task)
    BY <1>1, UserHere
  <1>3. Ok \in Values(B) /\ Err \in Values(B) /\ ~Ok.tmo /\ ~Err.tmo
    BY ValueIn
  <1>4. ASSUME NEW v \in {Ok, Err}, Leaves(task, v)
        PROVE  Kept(task', stack', tick')
    BY <1>1, <1>2, <1>3, <1>4, LeavesKept
  <1>5. ASSUME NEW v \in {Ok, Err}, Returns(task, v)
        PROVE  Kept(task', stack', tick')
    BY <1>1, <1>2, <1>3, <1>5, SelfStep, SoftReturns
  <1>6. CASE FinishWait
    <2>0. PICK op \in {"wait", "timeout", "child"} : \E v \in WaitFor(op) : Leaves(task, v)
      BY <1>6 DEF FinishWait
    <2>1. PICK v \in WaitFor(op) : Leaves(task, v)
      BY <2>0
    <2>2. v \in Values(B)
      BY <1>1, <2>0, <2>1, WaitsIn
    <2> QED
      BY <1>1, <1>2, <2>1, <2>2, UserHere, LeavesKept
  <1>7. CASE Finish
    BY <1>4, <1>5, <1>7 DEF Finish
  <1> QED
    BY <1>6, <1>7

LEMMA CreatesStep ==
  ASSUME IInv, CallNew \/ SpawnNew \/ LooseNew
  PROVE  Kept(task', stack', tick')
  <1>1. User /\ tick' = tick /\ Born # Tasks
    BY DEF CallNew, SpawnNew, LooseNew, May, CanCreate
  <1>2. stack # <<>> /\ Top.f = "body" /\ AllClosed(task)
    BY <1>1, UserHere
  <1>3. PICK k \in plan.kinds :
           \/ New(Create(task, Fresh, k, Self), <<Frame("call", Self, TaskVal(Fresh))>>)
           \/ New(Create(task, Fresh, k, Self), <<Frame("spawn", Fresh, Ok), Top>>)
           \/ New(Create(task, Fresh, k, Self), <<Top>>)
    BY DEF CallNew, SpawnNew, LooseNew
  <1> DEFINE C == Create(task, Fresh, k, Self)
  <1>4. \/ New(C, <<Frame("call", Self, TaskVal(Fresh))>>)
        \/ New(C, <<Frame("spawn", Fresh, Ok), Top>>)
        \/ New(C, <<Top>>)
    BY <1>3
  <1> HIDE DEF C
  <1>5. C = Create(task, Fresh, k, Self) /\ k \in Kinds \ {"none"}
    BY PlanKinds DEF C
  <1> QED
    BY <1>1, <1>2, <1>4, <1>5, CreateKept

LEMMA AsyncStep ==
  ASSUME IInv, AsyncNew
  PROVE  Kept(task', stack', tick')
  <1> DEFINE h == [Frame("start", Fresh, Ok) EXCEPT !.n = 1]
  <1>1. User /\ tick' = Append(tick, h) /\ Born # Tasks
    BY DEF AsyncNew, CanCreate
  <1>2. /\ stack # <<>> /\ Top.f = "body" /\ AllClosed(task) /\ stack = <<Top>> \o Rest
    BY <1>1, UserHere
  <1>3. PICK k \in plan.kinds :
           Step(SetWait(Create(task, Fresh, k, Self), Fresh, "int", Fresh), <<Top>>)
    BY DEF AsyncNew
  <1> DEFINE F == Fresh
             C == Create(task, F, k, Self)
             R == SetWait(C, F, "int", F)
  <1>4. task' = R /\ stack' = stack
    BY <1>2, <1>3 DEF Step
  <1> HIDE DEF R
  <1>5. k \in Kinds \ {"none"}
    BY PlanKinds
  <1> HIDE DEF C, h
  <1>6. C = Create(task, Fresh, k, Self)
    BY DEF C
  <1>7. Soft(C, C, BornIn(C), WaitersIn(C)) /\ F \in BornIn(C)
    BY <1>1, <1>2, <1>5, <1>6, CreatedIs
  <1>8. /\ Core(C, stack, tick) /\ AllClosed(C) /\ Inner(stack)
        /\ ~Pending(stack, tick, F) /\ C[F].run = "never"
    BY <1>1, <1>2, <1>5, <1>6, <1>7, NewTop
  <1> HIDE DEF F
  <1>9. Core(R, stack, tick) /\ AllClosed(R) /\ BornIn(R) = BornIn(C)
    <2>1. R = SetWait(C, F, "int", F) /\ C[F].run # "yes"
      BY <1>8 DEF R
    <2> QED
      BY <1>7, <1>8, <2>1, WaitCore
  <1>10. h \in Ticks(BornIn(R)) /\ h.f = "start"
    <2>1. h = [f |-> "start", t |-> F, v |-> Ok, n |-> 1]
      BY DEF h, Frame, F
    <2>2. Ok \in Values(BornIn(R)) /\ F \in BornIn(R)
      BY <1>7, <1>9, ValueIn
    <2>3. h \in [f : Calls, t : BornIn(R), v : Values(BornIn(R)), n : Nat] /\ h.f = "start" /\ h.n = 1
      BY <2>1, <2>2 DEF Calls
    <2> QED
      BY <2>3 DEF Ticks, Frames
  <1>11. Core(R, stack, Append(tick, h))
    BY <1>9, <1>10, AddTick
  <1> QED
    BY <1>1, <1>4, <1>9, <1>11, ClosedKept

\* The tasks of a list are put in order.
LEMMA SoftArr ==
  ASSUME NEW B, NEW W, NEW T, Types(T, B, W), NEW t \in Tasks, NEW a \in Seq(B)
  PROVE  Soft(T, [T EXCEPT ![t].arr = a], B, W)
  <1> DEFINE R == [T EXCEPT ![t].arr = a]
  <1>1. IsTable(R) /\ FieldsKept(T, R, {"arr"}) /\ R[t].arr = a /\ OthersKept(T, R, t)
    <2> DEFINE f == "arr"
               z == a
    <2>1. R = SetOne(T, t, f, z) /\ f \in Fields /\ t \in Tasks /\ Shape(T) /\ IsTable(T)
      BY TableOf DEF Fields, SetOne
    <2> HIDE DEF f, z, R
    <2>2. IsTable(R) /\ FieldsKept(T, R, {f}) /\ R[t][f] = z /\ OthersKept(T, R, t)
      BY ONLY <2>1, OneField
    <2> QED
      BY <2>2 DEF f, z
  <1> HIDE DEF R
  <1>2. \A u \in Tasks :
           /\ R[u].kind = T[u].kind /\ R[u].cur = T[u].cur /\ R[u].next = T[u].next
           /\ R[u].run = T[u].run /\ R[u].late = T[u].late /\ R[u].wait = T[u].wait
           /\ R[u].wdone = T[u].wdone /\ R[u].atret = T[u].atret /\ R[u].timer = T[u].timer /\ R[u].stray = T[u].stray
           /\ R[u].seq = T[u].seq /\ R[u].i = T[u].i /\ R[u].by = T[u].by
           /\ R[u].atcont = T[u].atcont /\ R[u].fin = T[u].fin /\ R[u].then = T[u].then
    BY <1>1 DEF FieldsKept, Fields
  <1>3. \A u \in Tasks : R[u].arr \in Seq(B)
    BY <1>1 DEF Types, DataOK, OthersKept
  <1>4. \A u \in Tasks : DataOK(R[u], B, W)
    BY <1>2, <1>3, ZenonT(40) DEF Types, DataOK
  <1>5. TreeTypes(R, B)
    BY <1>1 DEF FieldsKept, Types, TreeTypes, Fields
  <1>6. \A u \in Tasks : Gentle(T[u], R[u])
    BY <1>2 DEF Gentle, LateTask, Closed
  <1>7. Soft(T, R, B, W)
    BY <1>1, <1>4, <1>5, <1>6 DEF Soft, Types
  <1> QED
    BY <1>7 DEF R

LEMMA AllNewStep ==
  ASSUME IInv, AllNew
  PROVE  Kept(task', stack', tick')
  <1> DEFINE L == Loose(task)
             n == Cardinality(L)
             B == BornIn(task)
  <1>1. User /\ tick' = tick /\ Born # Tasks
    BY DEF AllNew, May, CanCreate
  <1>2. /\ stack # <<>> /\ Top.f = "body" /\ AllClosed(task)
    BY <1>1, UserHere
  <1>3. PICK a \in [1 .. n -> L] :
           New([Create(task, Fresh, "all", Self) EXCEPT ![Fresh].arr = a],
               <<Frame("call", Self, TaskVal(Fresh))>>)
    BY DEF AllNew
  <1>4. n \in Nat /\ L \subseteq B
    <2>1. L \subseteq Tasks /\ L \subseteq B
      BY DEF Loose, BornIn
    <2>2. IsFiniteSet(Tasks)
      BY FS_Interval, TasksAssumption DEF Tasks
    <2>3. IsFiniteSet(L)
      BY <2>1, <2>2, FS_Subset
    <2> QED
      BY <2>1, <2>3, FS_CardinalityType
  <1>5. a \in Seq(B)
    <2> HIDE DEF n, L
    <2> QED
      BY <1>4
  <1> HIDE DEF L, n
  <1> DEFINE C == Create(task, Fresh, "all", Self)
             R == [C EXCEPT ![Fresh].arr = a]
             g == Frame("call", Self, TaskVal(Fresh))
  <1>6. New(R, <<g>>)
    BY <1>3
  <1> HIDE DEF C
  <1>7. C = Create(task, Fresh, "all", Self) /\ "all" \in Kinds \ {"none"}
    BY DEF C, Kinds
  <1>8. /\ Types(C, BornIn(C), WaitersIn(C)) /\ BornIn(C) = B \cup {Fresh} /\ Fresh \in Tasks
        /\ Fresh \in BornIn(C)
    BY <1>1, <1>2, <1>7, CreatedIs
  <1>9. a \in Seq(BornIn(C))
    BY <1>5, <1>8, SeqMore
  <1>10. Soft(C, R, BornIn(C), WaitersIn(C))
    <2> DEFINE F == Fresh
    <2>1. F \in Tasks /\ R = [C EXCEPT ![F].arr = a]
      BY <1>8
    <2> HIDE DEF F, R
    <2> QED
      BY <1>8, <1>9, <2>1, SoftArr
  <1> HIDE DEF R
  <1>11. Self \in BornIn(R) /\ Fresh \in BornIn(R) /\ ActOK(Top, R[Self])
    BY <1>1, <1>2, <1>7, <1>10, NewTop
  <1>12. g \in Frames(BornIn(R)) /\ g.f \in Acts \ {"after"} /\ g.t = Self /\ FrameOK(g, R)
    BY <1>2, <1>11, CallIn
  <1> HIDE DEF g
  <1> QED
    BY <1>1, <1>2, <1>6, <1>7, <1>10, <1>12, NewKept

LEMMA JoinStep ==
  ASSUME IInv, Join
  PROVE  Kept(task', stack', tick')
  <1>1. User /\ tick' = tick
    BY DEF Join, May
  <1>2. PICK u \in Loose(task) : Returns(task, TaskVal(u))
    BY DEF Join
  <1>3. u \in BornIn(task) /\ BornIn(task) \in SUBSET Tasks
    BY DEF Loose, BornIn
  <1>4. TaskVal(u) \in Values(BornIn(task)) /\ ~TaskVal(u).tmo
    BY <1>3, TaskValIn
  <1>5. Soft(task, task, BornIn(task), WaitersIn(task))
    BY SelfStep
  <1> DEFINE v == TaskVal(u)
  <1>6. v \in Values(BornIn(task)) /\ ~v.tmo /\ Returns(task, v)
    BY <1>2, <1>4
  <1> HIDE DEF v
  <1> QED
    BY <1>1, <1>5, <1>6, UserHere, SoftReturns

LEMMA YieldStep ==
  ASSUME IInv, Yield
  PROVE  Kept(task', stack', tick')
  <1>1. User /\ tick' = tick
    BY DEF Yield, May
  <1>2. \E v \in Values(BornIn(task)) : Returns(task, v)
    <2>1. CASE Returns(task, Ret("promise"))
      BY <1>1, <2>1, YieldsIn
    <2>2. CASE \E op \in {"wait", "timeout", "child"} : \E v \in WaitFor(op) : Returns(task, v)
      BY <1>1, <2>2, WaitsIn
    <2> QED
      BY <2>1, <2>2 DEF Yield
  <1>3. PICK v \in Values(BornIn(task)) : Returns(task, v)
    BY <1>2
  <1>4. Soft(task, task, BornIn(task), WaitersIn(task))
    BY SelfStep
  <1> QED
    BY <1>1, <1>3, <1>4, UserHere, SoftReturns

LEMMA CancelOtherStep ==
  ASSUME IInv, CancelOther
  PROVE  Kept(task', stack', tick')
  <1> DEFINE B == BornIn(task)
             c == task[Self].child
             es == [i \in DOMAIN c |-> Frame("end", c[i], Ok)]
  <1>1. User /\ tick' = tick
    BY DEF CancelOther, May
  <1>2. CASE \E u \in Live \ {Self} : Step(task, <<Frame("end", u, Ok), Top>>)
    <2>1. PICK u \in Live \ {Self} : Step(task, <<Frame("end", u, Ok), Top>>)
      BY <1>2
    <2> DEFINE e == Frame("end", u, Ok)
    <2>2. u \in B
      BY DEF Live, Born, BornIn
    <2>3. e \in Frames(B) /\ e.f = "end"
      BY <2>2, FrameIn, ValueIn
    <2>4. task' = task /\ stack' = <<e, Top>> \o Rest
      BY <2>1 DEF Step
    <2> HIDE DEF e
    <2>5. <<e>> \in Seq(Frames(B)) /\ <<e, Top>> = <<e>> \o <<Top>>
      BY <2>3
    <2>6. \A i \in DOMAIN <<e>> : Plain(<<e>>[i]) /\ <<e>>[i].f # "return"
      BY <2>3 DEF Plain, Acts
    <2> QED
      BY <1>1, <2>4, <2>5, <2>6, OnBody
  <1>3. CASE Step(task, es \o <<Top>>)
    <2>1. task' = task /\ stack' = (es \o <<Top>>) \o Rest
      BY <1>3 DEF Step
    <2>2. c \in Seq(B)
      BY <1>1, UserHere, Here DEF TreeTypes
    <2>3. es \in Seq(Frames(B)) /\ \A i \in DOMAIN es : Plain(es[i]) /\ es[i].f # "return"
      <3> HIDE DEF c
      <3> QED
        BY <2>2, FramesFor
    <2> HIDE DEF es
    <2> QED
      BY <1>1, <2>1, <2>3, OnBody
  <1> QED
    BY <1>2, <1>3 DEF CancelOther

LEMMA ThenNewStep ==
  ASSUME IInv, ThenNew
  PROVE  Kept(task', stack', tick')
  <1> DEFINE C == Create(task, Fresh, "waiter", Self)
  <1>1. User /\ tick' = tick /\ Born # Tasks
    BY DEF ThenNew, May, CanCreate
  <1>2. stack # <<>> /\ Top.f = "body" /\ AllClosed(task)
    BY <1>1, UserHere
  <1>3. PICK u \in Live \ {Self} : New([C EXCEPT ![u].then = Append(@, Token(Fresh, 0))], <<Top>>)
    BY DEF ThenNew
  <1> DEFINE w == Token(Fresh, 0)
             R == [C EXCEPT ![u].then = Append(@, w)]
  <1>4. New(R, <<Top>>)
    BY <1>3
  <1> HIDE DEF C
  <1>5. C = Create(task, Fresh, "waiter", Self) /\ "waiter" \in Kinds \ {"none"}
    BY DEF C, Kinds
  <1>6. /\ Types(C, BornIn(C), WaitersIn(C)) /\ Fresh \in BornIn(C) /\ Fresh \in WaitersIn(C)
    BY <1>1, <1>2, <1>5, CreatedIs
  <1>7. w \in Tokens(BornIn(C)) /\ w.t \in WaitersIn(C)
    BY <1>6 DEF Token, Tokens
  <1>8. u \in Tasks
    BY DEF Live, Born
  <1>9. Soft(C, R, BornIn(C), WaitersIn(C))
    <2> DEFINE f == "then"
    <2>1. R = [C EXCEPT ![u][f] = Append(@, w)] /\ f \in {"fin", "then"} /\ f = "then"
      OBVIOUS
    <2> HIDE DEF R, f, w
    <2> QED
      BY <1>6, <1>7, <1>8, <2>1, SoftTold
  <1> HIDE DEF R
  <1>10. Core(R, stack, tick)
    BY <1>1, <1>2, <1>5, <1>9, NewTop
  <1>11. Top \in Frames(BornIn(R)) /\ Top.f \in Acts \ {"after"} /\ Top.t = Self /\ FrameOK(Top, R)
    BY <1>2, <1>10, TopIn
  <1> QED
    BY <1>1, <1>2, <1>4, <1>5, <1>9, <1>11, NewKept

\* A task is continued from a stack on which it may be: s is the stack.
LEMMA ContinuedKept ==
  ASSUME IInv, Inner(stack), AllClosed(task), NEW u \in BornIn(task), NEW v \in {Ok, Err},
         Firm(task[u]) => task[u].run # "yes" /\ ~Pending(stack, tick, u),
         task' = ContinueTask(task, u, v), tick' = tick,
         stack' = ContinueFrames(task, u, v, "continue") \o stack
  PROVE  Kept(task', stack', tick')
  <1> DEFINE B == BornIn(task)
             R == ContinueTask(task, u, v)
  <1>1. u \in B /\ u \in Tasks /\ v \in Values(B)
    BY ValueIn DEF BornIn
  <1>2. Types(task, B, WaitersIn(task)) /\ Core(task, stack, tick) /\ task[u].down \in Ref(B)
    BY <1>1, Here DEF IInv, TreeTypes
  <1>3. /\ Soft(task, R, B, WaitersIn(task)) /\ R[u].wait = 0
        /\ FieldsKept(task, R, {"wait", "err"})
    BY <1>1, <1>2, SoftCont
  <1> HIDE DEF R
  <1>4. Core(R, stack, tick) /\ BornIn(R) = B /\ AllClosed(R)
    BY <1>2, <1>3, SoftCore
  <1>5. R[u].run = task[u].run /\ R[u].kind = task[u].kind /\ R[u].late = task[u].late
    BY <1>1, <1>3 DEF FieldsKept, Fields
  <1>6. Firm(R[u]) => ~Pending(stack, tick, u) /\ Closed(R[u]) /\ R[u].run # "yes"
    BY <1>3, <1>5 DEF Firm, LateTask, Closed
  <1>7. Core(R, ContinueFrames(task, u, v, "continue") \o stack, tick)
    <2> DEFINE f == "continue"
    <2>1. f \in {"continue", "return"} /\ f = "continue"
      OBVIOUS
    <2> HIDE DEF f
    <2>2. Core(R, ContinueFrames(task, u, v, f) \o stack, tick)
      BY <1>1, <1>2, <1>4, <1>6, <2>1, PushCont
    <2> QED
      BY <2>2 DEF f
  <1>8. task' = R
    BY DEF R
  <1> QED
    BY <1>4, <1>7, <1>8, ClosedKept

LEMMA AnswerStep ==
  ASSUME IInv, Answer
  PROVE  Kept(task', stack', tick')
  <1>1. User /\ tick' = tick
    BY DEF Answer, May
  <1>2. PICK u \in Live \ {Self}, v \in {Ok, Err} :
          /\ (task[u].kind = "leaf" /\ task[u].cur = 1) \/ WaitOf(task, u) = "wait"
          /\ Step(ContinueTask(task, u, v), ContinueFrames(task, u, v, "continue") \o <<Top>>)
    BY DEF Answer
  <1> DEFINE C == ContinueFrames(task, u, v, "continue")
             B == BornIn(task)
  <1>3. u \in Tasks /\ u \in B /\ v \in Values(B) /\ u # Self
    BY ValueIn DEF Live, Born, BornIn
  <1>4. Firm(task[u]) => task[u].run # "yes" /\ ~Pending(stack, tick, u)
    <2>1. SUFFICES ASSUME Firm(task[u]) PROVE task[u].run # "yes" /\ ~Pending(stack, tick, u)
      OBVIOUS
    <2>2. task[u].kind # "leaf"
      BY <2>1 DEF Firm, One
    <2>3. ~Closed(task[u])
      BY <1>2, <2>2 DEF WaitOf, Closed
    <2>4. ~Woken(task, stack, u)
      BY <1>1, <1>3, UserHere DEF Woken, IsTop, Self, Top
    <2> QED
      BY <1>3, <2>1, <2>3, <2>4, OpenWait
  <1>5. C \in Seq(Frames(B))
    <2>1. task[u].down \in Ref(B)
      BY <1>3, Here DEF TreeTypes
    <2>2. CASE task[u].down = Nobody
      BY <2>2, <1>3, FrameIn DEF ContinueFrames
    <2>3. CASE task[u].down # Nobody
      <3>1. Frame("cancel", task[u].down, Ok) \in Frames(B) /\ Frame("continue", u, v) \in Frames(B)
        BY <2>1, <2>3, <1>3, FrameIn, ValueIn DEF Ref
      <3> QED
        BY <2>3, <3>1 DEF ContinueFrames
    <2> QED
      BY <2>2, <2>3
  <1>6. task' = ContinueTask(task, u, v) /\ stack' = (C \o <<Top>>) \o Rest
    BY <1>2 DEF Step
  <1> HIDE DEF C
  <1>7. stack' = C \o stack
    <2> DEFINE Fr == Frames(B)
    <2>1. C \in Seq(Fr) /\ <<Top>> \in Seq(Fr) /\ Rest \in Seq(Fr) /\ stack = <<Top>> \o Rest
      <3>1. stack \in Seq(Fr) /\ stack # <<>> /\ Rest \in Seq(Fr)
        BY <1>1, UserHere
      <3> HIDE DEF Fr
      <3> QED
        BY <1>5, <3>1 DEF Top, Rest, Fr
    <2> HIDE DEF Fr
    <2>2. (C \o <<Top>>) \o Rest = C \o (<<Top>> \o Rest)
      BY <2>1, Assoc
    <2> QED
      BY ONLY <1>6, <2>1, <2>2
  <1> QED
    BY <1>1, <1>3, <1>4, <1>6, <1>7, UserHere, ContinuedKept DEF C

-----------------------------------------------------------------------------
\* The event loop.

LEMMA QuietIs ==
  ASSUME IInv, Quiet
  PROVE  /\ stack = <<>> /\ Inner(stack) /\ AllClosed(task) /\ Core(task, <<>>, tick)
         /\ \A F, t : ~Has(stack, F, t)
         /\ \A S : \A s \in Seq(S) : s \o stack = s
  <1>1. stack = <<>>
    BY DEF Quiet
  <1>2. Inner(stack) /\ \A t : ~IsTop(stack, "body", t)
    BY <1>1 DEF Inner, IsTop
  <1>3. AllClosed(task)
    BY <1>2, TopClosed DEF IInv
  <1>4. \A F, t : ~Has(stack, F, t)
    BY <1>1, HasNone
  <1>5. \A S : \A s \in Seq(S) : s \o stack = s
    BY <1>1
  <1>6. Core(task, <<>>, tick)
    BY <1>1 DEF IInv
  <1> QED
    BY <1>1, <1>2, <1>3, <1>4, <1>5, <1>6

LEMMA TickStep ==
  ASSUME IInv, Tick
  PROVE  Kept(task', stack', tick')
  <1> DEFINE h == Head(tick)
             B == BornIn(task)
  <1>1. /\ Quiet /\ tick # <<>> /\ tick' = Tail(tick) /\ task' = task /\ stack' = <<h>>
    BY DEF Tick, Begin
  <1>2. AllClosed(task) /\ Core(task, <<>>, tick) /\ Inner(<<>>)
    BY <1>1, QuietIs DEF Inner
  <1>3. /\ Core(task, <<>>, Tail(tick)) /\ h \in Ticks(B)
        /\ Firm(task[h.t]) /\ h.f = "next" => ~Pending(<<>>, Tail(tick), h.t) /\ Closed(task[h.t])
    BY <1>1, <1>2, TakeTick
  <1> HIDE DEF h
  <1>4. h \in Frames(B) /\ h.f \in {"next", "start"} /\ <<h>> = <<h>> \o <<>>
    BY <1>3 DEF Ticks
  <1>5. CASE h.f = "next"
    <2>1. ~Has(<<>>, Acts, h.t)
      BY HasNone
    <2>2. Core(task, <<h>> \o <<>>, Tail(tick))
      BY <1>2, <1>3, <1>4, <1>5, <2>1, PushNext
    <2> QED
      BY <1>1, <1>2, <1>4, <2>2, ClosedKept
  <1>6. CASE h.f = "start"
    <2>1. Plain(h) /\ h.f # "return"
      BY <1>6 DEF Plain, Acts
    <2>2. Core(task, <<h>> \o <<>>, Tail(tick))
      BY <1>2, <1>3, <1>4, <2>1, PushOne
    <2> QED
      BY <1>1, <1>2, <1>4, <2>2, ClosedKept
  <1> QED
    BY <1>4, <1>5, <1>6

LEMMA SettleStep ==
  ASSUME IInv, NEW t \in Tasks, Settle(t)
  PROVE  Kept(task', stack', tick')
  <1> DEFINE B == BornIn(task)
  <1>1. Quiet /\ WaitOf(task, t) = "promise" /\ tick' = tick
    BY DEF Settle, Idle
  <1>2. PICK v \in {Ok, Err} : Begin(task, <<GotFrame(Token(t, task[t].wait), v)>>)
    BY DEF Settle
  <1> DEFINE w == Token(t, task[t].wait)
             g == GotFrame(w, v)
  <1>3. task[t].wait # 0 /\ task[t].wait \in Nat
    BY <1>1, Here DEF WaitOf, Types, DataOK
  <1>4. task[t].kind # "none" /\ t \in B
    BY <1>1, Here DEF WaitOf, Closed, IInv, Core, TaskOK, BornIn
  <1>5. w.t \in B /\ w.n \in Nat \ {0} /\ v \in Values(B)
    BY <1>3, <1>4, ValueIn DEF Token
  <1> HIDE DEF w
  <1>6. g \in Frames(B) /\ Plain(g) /\ g.f = "got"
    BY <1>5, GotIn
  <1>7. task' = task /\ stack' = <<g>>
    BY <1>2 DEF Begin, w
  <1> HIDE DEF g
  <1>8. Core(task, <<g>> \o <<>>, tick)
    <2>1. Core(task, <<>>, tick) /\ Inner(<<>>)
      BY <1>1, QuietIs DEF Inner
    <2> QED
      BY <1>6, <2>1, PushOne
  <1>9. <<g>> \o <<>> = <<g>>
    OBVIOUS
  <1> QED
    BY <1>1, <1>7, <1>8, <1>9, QuietIs, ClosedKept

LEMMA ContinueIn ==
  ASSUME IInv, NEW t \in BornIn(task), NEW v \in {Ok, Err}, NEW f \in {"continue", "return"}
  PROVE  ContinueFrames(task, t, v, f) \o <<>> = ContinueFrames(task, t, v, f)
  <1> DEFINE B == BornIn(task)
             S == Frames(B)
             C == ContinueFrames(task, t, v, f)
  <1>1. task[t].down \in Ref(B) /\ v \in Values(B) /\ Ok \in Values(B)
    BY Here, ValueIn DEF TreeTypes
  <1>2. C \in Seq(S)
    <2>1. Frame(f, t, v) \in S
      BY <1>1, FrameIn
    <2>2. CASE task[t].down = Nobody
      BY <2>1, <2>2 DEF ContinueFrames
    <2>3. CASE task[t].down # Nobody
      <3>1. Frame("cancel", task[t].down, Ok) \in S
        BY <1>1, <2>3, FrameIn DEF Ref
      <3> QED
        BY <2>1, <2>3, <3>1 DEF ContinueFrames
    <2> QED
      BY <2>2, <2>3
  <1> HIDE DEF C, S
  <1>3. C \o <<>> = C
    BY <1>2
  <1> QED
    BY <1>3 DEF C

LEMMA TimerStep ==
  ASSUME IInv, NEW t \in Tasks, Timer(t)
  PROVE  Kept(task', stack', tick')
  <1> DEFINE B == BornIn(task)
             W == WaitersIn(task)
             x == task[t]
             h == Frame("next", t, Err)
  <1>0. PICK left \in (IF x.timer THEN {x.stray} ELSE {})
                      \cup (IF x.stray = 0 THEN {}
                           ELSE {IF x.timer THEN x.stray ELSE x.stray - 1}) :
           Begin([task EXCEPT ![t].timer = FALSE, ![t].stray = left, ![t].late = TRUE], <<h>>)
    BY DEF Timer
  <1> DEFINE R == [task EXCEPT ![t].timer = FALSE, ![t].stray = left, ![t].late = TRUE]
  <1>15. /\ x.timer \/ x.stray # 0
         /\ left # 0 => x.stray # 0
    BY <1>0
  <1>1. Quiet /\ tick = <<>> /\ tick' = tick /\ task' = R /\ stack' = <<h>>
    BY <1>0 DEF Timer, Idle, Begin
  <1>2. AllClosed(task) /\ Core(task, <<>>, tick) /\ Inner(<<>>) /\ Types(task, B, W)
    BY <1>1, QuietIs, Here DEF Inner
  <1>3. task[t].kind \in Timed /\ Third(task[t])
    BY <1>15 DEF IInv, Core, TaskOK, Timed, Handless, Third
  <1>4. t \in B
    BY <1>3 DEF BornIn, Timed
  <1>5. h \in Frames(B) /\ h.f = "next" /\ h.t = t
    BY <1>4, FrameIn, ValueIn
  <1> HIDE DEF h
  <1>6. /\ IsTable(R) /\ FieldsKept(task, R, {"timer", "stray", "late"}) /\ OthersKept(task, R, t)
        /\ R[t].timer = FALSE /\ R[t].stray = left /\ R[t].late = TRUE
    <2>1. Shape(task) /\ IsTable(task)
      BY Here
    <2>2. IsTable(R)
      BY <2>1 DEF IsTable, Shape
    <2>3. FieldsKept(task, R, {"timer", "stray", "late"})
      BY <2>1 DEF FieldsKept, Shape, Fields
    <2>4. R[t].timer = FALSE /\ R[t].stray = left /\ R[t].late = TRUE
      BY <2>1 DEF Shape, Fields
    <2>5. OthersKept(task, R, t)
      BY <2>1 DEF OthersKept, Shape
    <2> QED
      BY <2>2, <2>3, <2>4, <2>5
  <1>7. task' = R
    BY <1>1
  <1> HIDE DEF R
  <1>8. \A u \in Tasks :
           /\ R[u].kind = task[u].kind /\ R[u].cur = task[u].cur /\ R[u].next = task[u].next
           /\ R[u].run = task[u].run /\ R[u].wait = task[u].wait
           /\ R[u].wdone = task[u].wdone /\ R[u].atret = task[u].atret
           /\ u # t => R[u].timer = task[u].timer /\ R[u].stray = task[u].stray /\ R[u].late = task[u].late
    BY <1>6 DEF FieldsKept, Fields, OthersKept
  <1>9. Soft(task, R, B, W)
    <2>1. {"timer", "stray", "late"} \in SUBSET LooseFields
      BY DEF LooseFields
    <2>2. Types(R, B, W)
      BY <1>2, <1>6, <2>1, TypesKept
    <2>3. ASSUME NEW u \in Tasks PROVE Gentle(task[u], R[u])
      <3>1. CASE u = t
        BY <1>6, <1>8, <1>15, <3>1 DEF Gentle, LateTask, Closed
      <3>2. CASE u # t
        BY <1>8, <3>2 DEF Gentle, LateTask, Closed
      <3> QED
        BY <3>1, <3>2
    <2> QED
      BY <2>2, <2>3 DEF Soft
  <1>10. Core(R, <<>>, tick) /\ AllClosed(R) /\ BornIn(R) = B
    BY <1>2, <1>9, SoftCore
  <1>11. Firm(R[t]) => R[t].kind = "gen" /\ Third(R[t])
    BY <1>3, <1>6, <1>8 DEF Firm, LateTask, One, Timed, Third
  <1>12. ~Has(<<>>, Acts, t) /\ ~Pending(<<>>, tick, t)
    BY <1>1, HasNone DEF Pending
  <1>13. Core(R, <<h>> \o <<>>, tick)
    BY <1>2, <1>5, <1>10, <1>11, <1>12, PushNext
  <1>14. <<h>> \o <<>> = <<h>>
    OBVIOUS
  <1> QED
    BY <1>1, <1>7, <1>10, <1>13, <1>14, ClosedKept

LEMMA ContinuedStep ==
  ASSUME IInv, NEW t \in Tasks, Continued(t)
  PROVE  Kept(task', stack', tick')
  <1> DEFINE B == BornIn(task)
  <1>1. Quiet /\ tick = <<>> /\ tick' = tick /\ WaitOf(task, t) = "wait"
    BY DEF Continued, Idle
  <1>2. PICK v \in {Ok, Err} :
          task' = ContinueTask(task, t, v) /\ stack' = ContinueFrames(task, t, v, "continue")
    BY DEF Continued, Begin
  <1>3. ~Closed(task[t])
    BY <1>1 DEF WaitOf, Closed
  <1>4. t \in B
    BY <1>3 DEF BornIn, IInv, Core, TaskOK
  <1>5. AllClosed(task) /\ Inner(stack) /\ stack = <<>>
    BY <1>1, QuietIs
  <1>6. Firm(task[t]) => task[t].run # "yes" /\ ~Pending(stack, tick, t)
    BY <1>3, <1>5, OpenWait DEF Woken, IsTop
  <1>7. stack' = ContinueFrames(task, t, v, "continue") \o stack
    BY <1>2, <1>4, <1>5, ContinueIn
  <1> QED
    BY <1>1, <1>2, <1>4, <1>5, <1>6, <1>7, ContinuedKept

LEMMA AlarmStep ==
  ASSUME IInv, NEW t \in Tasks, Alarm(t)
  PROVE  Kept(task', stack', tick')
  <1>1. /\ Quiet /\ tick = <<>> /\ tick' = tick /\ t \in BornIn(task)
        /\ task' = ContinueTask(task, t, Err) /\ stack' = ContinueFrames(task, t, Err, "continue")
    BY DEF Alarm, Idle, Begin, Live, Born, BornIn
  <1>2. AllClosed(task) /\ Inner(stack) /\ stack = <<>>
    BY <1>1, QuietIs
  <1>3. Firm(task[t]) => task[t].run # "yes" /\ ~Pending(stack, tick, t)
    <2>1. ~Has(stack, Acts, t) /\ ~Pending(stack, tick, t)
      BY <1>1, <1>2, HasNone DEF Pending
    <2> QED
      BY <2>1 DEF IInv, Core, Lives, Firm
  <1>4. stack' = ContinueFrames(task, t, Err, "continue") \o stack
    BY <1>1, <1>2, ContinueIn
  <1> QED
    BY <1>1, <1>2, <1>3, <1>4, ContinuedKept

LEMMA ReturnedStep ==
  ASSUME IInv, NEW t \in Tasks, Returned(t)
  PROVE  Kept(task', stack', tick')
  <1> DEFINE B == BornIn(task)
             W == WaitersIn(task)
             R == ReturnTask(task, t, Ok)
             f == "return"
  <1>1. /\ Quiet /\ tick' = tick /\ t \in Live /\ task' = R
        /\ stack' = ContinueFrames(task, t, Ok, f)
    BY DEF Returned, Begin
  <1>2. t \in B /\ t \in Tasks /\ ~task[t].done
    BY <1>1 DEF Live, Born, BornIn
  <1>3. AllClosed(task) /\ Core(task, <<>>, tick) /\ Inner(<<>>) /\ stack = <<>>
    BY <1>1, QuietIs DEF Inner
  <1>4. Soft(task, R, B, W) /\ R[t].atret
    BY <1>2, Here, SoftReturn
  <1>5. task' = R
    BY <1>1
  <1> HIDE DEF R
  <1>6. Core(R, <<>>, tick) /\ AllClosed(R) /\ BornIn(R) = B
    BY <1>3, <1>4, SoftCore
  <1>7. task[t].down \in Ref(B) /\ Ok \in Values(B)
    BY <1>2, Here, ValueIn DEF TreeTypes
  <1>8. f \in {"continue", "return"} /\ f # "continue"
    OBVIOUS
  <1> HIDE DEF f
  <1>9. Core(R, ContinueFrames(task, t, Ok, f) \o <<>>, tick)
    BY <1>2, <1>3, <1>4, <1>6, <1>7, <1>8, PushCont
  <1>10. ContinueFrames(task, t, Ok, f) \o <<>> = ContinueFrames(task, t, Ok, f)
    BY <1>2, <1>7, <1>8, ContinueIn
  <1> QED
    BY <1>1, <1>5, <1>6, <1>9, <1>10, ClosedKept

-----------------------------------------------------------------------------
\* The specification.

\* The program of the user is chosen once.
LEMMA PlanKept ==
  ASSUME Next
  PROVE  plan' = plan
  <1>1. ASSUME NEW T, NEW gs, Step(T, gs) PROVE plan' = plan
    BY <1>1 DEF Step
  <1>2. ASSUME NEW T, NEW gs, Begin(T, gs) PROVE plan' = plan
    BY <1>2 DEF Begin
  <1>3. ASSUME NEW T, NEW t, NEW v, HandleRv(T, t, v) PROVE plan' = plan
    <2>1. (v.k = "task" /\ ~T[v.t].done) \/ (v.k = "task" /\ T[v.t].done) \/ v.k = "promise"
            \/ v.k \notin {"task", "promise"}
      OBVIOUS
    <2> QED
      BY <1>3, <2>1 DEF HandleRv, Step
  <1>4. CASE Machine
    <2>1. Next_run => plan' = plan
      BY DEF Next_run, Step
    <2>2. Got_retval => plan' = plan
      BY DEF Got_retval, Step
    <2>3. After => plan' = plan
      <3> SUFFICES ASSUME After PROVE plan' = plan
        OBVIOUS
      <3> DEFINE t == Top.t
                 v == Top.v
                 c == task[t].atcont
                 T == [task EXCEPT ![t].run = "no"]
                 R == [T EXCEPT ![t].atcont = None]
                 W == SetWaitTimer(SetWait(T, t, v.k, v.t), t, v.tmo)
                 Listen == IF v.k # "child" THEN W
                           ELSE [W EXCEPT ![v.t].fin = Append(@, Token(t, W[t].wait))]
                 Q == SetWaitTimer([R EXCEPT ![t].seq = W[t].seq, ![t].wait = 0], t, v.tmo)
                 Y == SetWait(T, t, IF v.k = "wait" THEN v.k ELSE "deaf", v.t)
      <3>1. AfterCases(t, v, c, T, R, Listen, Q, Y)
        BY DEF After, AfterCases
      <3> HIDE DEF t, v, c, T, R, W, Listen, Q, Y
      <3> QED
        BY <1>1, <1>3, <3>1 DEF AfterCases
    <2>4. Resume \/ Depth \/ Cancel => plan' = plan
      BY DEF Resume, Depth, Cancel, Step
    <2>5. Complete \/ EmitChild => plan' = plan
      BY <1>1 DEF Complete, EmitChild
    <2>6. Leave => plan' = plan
      BY <1>1 DEF Leave
    <2>7. Then => plan' = plan
      BY <1>1 DEF Then
    <2>8. Called \/ Spawned \/ Started => plan' = plan
      BY <1>1 DEF Called, Spawned, Started, Returns
    <2> QED
      BY <1>4, <2>1, <2>2, <2>3, <2>4, <2>5, <2>6, <2>7, <2>8 DEF Machine
  <1>5. CASE Library
    <2>1. ASSUME NEW T, NEW v, Returns(T, v) PROVE plan' = plan
      BY <1>1, <2>1 DEF Returns
    <2>2. Generator \/ Leaf \/ For => plan' = plan
      BY <1>1, <2>1 DEF Generator, Leaf, For, Goes, Leaves, Throws, New
    <2>3. AllOf \/ AllLimit => plan' = plan
      BY <1>1, <2>1 DEF AllOf, AllLimit, Goes, Leaves, Throws, New
    <2> QED
      BY <1>5, <2>2, <2>3 DEF Library
  <1>6. CASE UserCode
    <2>1. ASSUME NEW T, NEW v, Returns(T, v) PROVE plan' = plan
      BY <1>1, <2>1 DEF Returns
    <2>2. Finish \/ FinishWait \/ Join \/ Yield => plan' = plan
      BY <2>1 DEF Finish, FinishWait, Join, Yield, Leaves
    <2>3. CallNew \/ SpawnNew \/ LooseNew \/ AsyncNew \/ AllNew => plan' = plan
      BY <1>1 DEF CallNew, SpawnNew, LooseNew, AsyncNew, AllNew, New
    <2>4. CancelOther \/ Answer \/ ThenNew => plan' = plan
      BY <1>1 DEF CancelOther, Answer, ThenNew, New
    <2> QED
      BY <1>6, <2>2, <2>3, <2>4 DEF UserCode
  <1>7. CASE Outside
    BY <1>2, <1>7 DEF Outside, Tick, Timer, Settle, Continued, Returned, Alarm
  <1> QED
    BY <1>4, <1>5, <1>6, <1>7 DEF Next

LEMMA StepKept ==
  ASSUME IInv, Next
  PROVE  Kept(task', stack', tick')
  <1>1. CASE Machine
    BY <1>1, NextStep, GotStep, AfterStep, ResumeStep, DepthStep, CancelStep, CompleteStep,
       EmitChildStep, LeaveStep, ThenStep, CalledStep, SpawnedStep, StartedStep DEF Machine
  <1>2. CASE Library
    BY <1>2, GeneratorStep, LeafStep, ForStep, AllOfStep, AllLimitStep DEF Library
  <1>3. CASE UserCode
    BY <1>3, FinishStep, CreatesStep, AsyncStep, AllNewStep, JoinStep, YieldStep,
       CancelOtherStep, AnswerStep, ThenNewStep DEF UserCode
  <1>4. CASE Outside
    BY <1>4, TickStep, TimerStep, SettleStep, ContinuedStep, ReturnedStep, AlarmStep DEF Outside
  <1> QED
    BY <1>1, <1>2, <1>3, <1>4 DEF Next

LEMMA Inductive == IInv /\ [Next]_vars => IInv'
  <1> SUFFICES ASSUME IInv, [Next]_vars PROVE IInv'
    OBVIOUS
  <1>1. CASE Next
    <2>1. Kept(task', stack', tick') /\ plan' = plan
      BY <1>1, StepKept, PlanKept
    <2> QED
      BY <2>1 DEF IInv, Kept
  <1>2. CASE UNCHANGED vars
    BY <1>2 DEF vars, IInv
  <1> QED
    BY <1>1, <1>2

\* Before the first task there is none.
LEMMA NoneYet ==
  ASSUME NEW T, T = [t \in Tasks |-> Unborn]
  PROVE  Core(T, <<>>, <<>>) /\ AllClosed(T) /\ BornIn(T) = {}
  <1> DEFINE x == Unborn
             B == BornIn(T)
  <1>1. /\ x.kind = "none" /\ x.cur = 0 /\ x.next = 0 /\ x.wait = 0 /\ x.seq = 0 /\ x.i = 0
        /\ x.by = Nobody /\ x.arr = <<>> /\ x.atcont = None /\ x.fin = <<>> /\ x.then = <<>>
    BY DEF Unborn
  <1>2. /\ x.up = Nobody /\ x.down = Nobody /\ x.parent = Nobody /\ x.child = <<>>
        /\ x.root = FALSE /\ x.free = FALSE /\ x.timer = FALSE /\ x.run = "never"
        /\ x.stray = 0
    BY DEF Unborn
  <1>3. DOMAIN x = Fields /\ x = [f \in Fields |-> x[f]]
    BY DEF Unborn, Fields
  <1> HIDE DEF x
  <1>4. DOMAIN T = Tasks /\ \A u \in Tasks : T[u] = x
    BY DEF x
  <1>5. IsTable(T)
    BY <1>3, <1>4 DEF IsTable, Shape
  <1>6. B = {}
    BY <1>1, <1>4 DEF BornIn
  <1>7. TreeTypes(T, B)
    <2>1. /\ x.up \in Ref(B) /\ x.down \in Ref(B) /\ x.parent \in Ref(B) /\ x.child \in Seq(B)
          /\ x.root \in BOOLEAN /\ x.free \in BOOLEAN
      <3> HIDE DEF B
      <3>1. Nobody \in Ref(B)
        BY DEF Ref
      <3>2. <<>> \in Seq(B)
        OBVIOUS
      <3>3. FALSE \in BOOLEAN
        OBVIOUS
      <3> QED
        BY ONLY <1>2, <3>1, <3>2, <3>3
    <2> QED
      BY ONLY <1>4, <2>1 DEF TreeTypes
  <1>8. DataOK(x, B, WaitersIn(T))
    BY <1>1, ValueIn DEF DataOK, Kinds, Ref
  <1>9. Types(T, B, WaitersIn(T))
    BY <1>4, <1>5, <1>7, <1>8 DEF Types
  <1>10. TaskOK(x) /\ Closed(x)
    BY <1>1, <1>2 DEF TaskOK, Closed, One
  <1>11. ASSUME NEW u \in Tasks PROVE Lives(T[u], <<>>, <<>>, u)
    BY <1>2, <1>4, HasNone DEF Lives, Pending, IsTop
  <1>12. AllOK(<<>>, T) /\ <<>> \in Seq(Frames(B)) /\ <<>> \in Seq(Ticks(B))
    BY DEF AllOK
  <1>13. Core(T, <<>>, <<>>)
    BY <1>4, <1>9, <1>10, <1>11, <1>12 DEF Core
  <1>14. AllClosed(T)
    BY <1>4, <1>10 DEF AllClosed
  <1> QED
    BY <1>6, <1>13, <1>14

LEMMA Starts == Init => IInv
  <1> SUFFICES ASSUME Init PROVE IInv
    OBVIOUS
  <1> DEFINE T == [t \in Tasks |-> Unborn]
             C == Create(T, 1, plan.root, Nobody)
             h == Frame("next", 1, Ok)
             B == BornIn(C)
             k == plan.root
  <1>1. 1 \in Tasks /\ k \in Kinds \ {"none"}
    BY TasksAssumption, PlansAssumption DEF Tasks, Init, UserKinds, Kinds
  <1>2. stack = <<h>> /\ tick = <<>> /\ plan \in Plans /\ task = [C EXCEPT ![1].by = Nobody]
    BY DEF Init
  <1>3. [C EXCEPT ![1].by = Nobody] = C
    <2> DEFINE y == [Unborn EXCEPT !.kind = k, !.root = TRUE, !.by = Nobody]
    <2>1. C = [T EXCEPT ![1] = y]
      BY DEF Create
    <2>2. y.by = Nobody /\ [y EXCEPT !.by = Nobody] = y
      BY DEF Unborn
    <2>3. DOMAIN T = Tasks
      OBVIOUS
    <2> HIDE DEF y, T, C
    <2>4. C[1] = y /\ [C EXCEPT ![1] = y] = C
      BY ONLY <1>1, <2>1, <2>3
    <2>5. [C EXCEPT ![1].by = Nobody] = [C EXCEPT ![1] = [C[1] EXCEPT !.by = Nobody]]
      OBVIOUS
    <2> QED
      BY ONLY <2>2, <2>4, <2>5
  <1>4. task = C
    BY <1>2, <1>3
  <1> HIDE DEF h
  <1>5. Core(T, <<>>, <<>>) /\ AllClosed(T) /\ BornIn(T) = {}
    BY NoneYet
  <1>6. 1 \in Tasks \ BornIn(T) /\ Nobody \in Ref(BornIn(T)) /\ C = Create(T, 1, k, Nobody)
    BY <1>1, <1>5 DEF Ref
  <1> HIDE DEF T, C, k
  <1>7. /\ Core(C, <<>>, <<>>) /\ AllClosed(C) /\ B = BornIn(T) \cup {1} /\ ~Has(<<>>, Acts, 1)
        /\ ~Pending(<<>>, <<>>, 1) /\ Closed(C[1])
    <2> DEFINE e == <<>>
    <2>1. Core(T, e, e)
      BY <1>5
    <2> HIDE DEF e
    <2>2. /\ Core(C, e, e) /\ (AllClosed(T) => AllClosed(C)) /\ B = BornIn(T) \cup {1} /\ ~Has(e, Acts, 1)
          /\ ~Pending(e, e, 1) /\ Closed(C[1])
      BY ONLY <1>1, <1>6, <2>1, NewCore
    <2> QED
      BY <1>5, <2>2 DEF e
  <1>8. h \in Frames(B) /\ h.f = "next" /\ h.t = 1
    BY <1>7, FrameIn, ValueIn, SMTT(30) DEF h
  <1>9. Inner(<<>>) /\ <<h>> \o <<>> = <<h>>
    BY DEF Inner
  <1>10. Core(C, <<h>> \o <<>>, <<>>)
    BY <1>7, <1>8, <1>9, PushNext
  <1>11. Kept(C, <<h>>, <<>>)
    BY <1>7, <1>9, <1>10, ClosedKept
  <1> QED
    BY <1>2, <1>4, <1>11 DEF IInv, Kept

LEMMA OnceOnly == IInv => RunsOnce
  <1> SUFFICES ASSUME IInv, NEW i \in DOMAIN stack, NEW j \in DOMAIN stack,
                      stack[i].t = stack[j].t,
                      {stack[i].f, stack[j].f} \subseteq {"body", "call", "iter", "after"}
               PROVE  i = j \/ Late(stack[i].t)
    BY DEF RunsOnce
  <1> DEFINE t == stack[i].t
  <1>1. t \in Tasks
    <2>1. stack[i] \in Frames(BornIn(task))
      BY Here
    <2> QED
      BY <2>1 DEF Frames, BornIn
  <1>2. LateTask(task[t]) \/ Once(stack, Acts, t)
    BY <1>1 DEF IInv, Core, Lives
  <1>3. CASE LateTask(task[t])
    BY <1>3 DEF LateTask, Late
  <1>4. CASE Once(stack, Acts, t)
    BY <1>4 DEF Once, Acts
  <1> QED
    BY <1>2, <1>3, <1>4

\* The invariant of the stack, the ticks and the tasks: what a task is about
\* to be told is told once, to a task none of whose states is running, and a
\* wait is over when the state after it runs.
THEOREM StackRight == Spec => []IInv
  BY Starts, Inductive, PTL DEF Spec

\* The states of a task run one after another (_next_run, _run): whatever a
\* state does to its own task or to others, no state of that task starts
\* while it runs, but in a list of states whose timer fired late.
THEOREM StatesRunOnce == Spec => []RunsOnce
  <1>1. Spec => []IInv
    BY StackRight
  <1> QED
    BY <1>1, OnceOnly, PTL
=============================================================================
