------------------------- MODULE MCScrollConflicts -------------------------
(* ScrollConflicts for TLC: the diffs that peers with a fork send.          *)
EXTENDS ScrollConflicts

\* The ways to cut declarations 0 .. t-1 into ranges.
Covers == [t \in 0 .. MaxSeq |->
  {C \in SUBSET {r \in Ranges : r[2] < t} :
     \A s \in 0 .. t - 1 : Cardinality({r \in C : RIncludes(r, At(s))}) = 1}]

\* A signed top t of history h over a cover of what is before it.
Diff(forks, h, C, signed, framed) ==
  LET keys == {<<"m", r>> : r \in {q \in C : q[2] \notin signed \/ Size(q) > 1}}
                \cup ({"sig", "d"} \X {At(s) : s \in signed})
                \cup {<<"D", At(s)>> : s \in framed}
  IN  [k \in keys |-> IF k[1] = "m" THEN Hash(forks, h, k[2])
                      ELSE <<Owner(forks, h, k[2][1])>>]
\* Signed tops of histories hs; the whole of a history, with some frames; and
\* tops of which one value comes from another history.
Tops(forks, hs, ts) ==
  UNION {{Diff(forks, h, C, {t}, {}) : C \in Covers[t]} : h \in hs, t \in ts}
Whole(forks, hs, ts, framed) ==
  {Diff(forks, h, {}, 0 .. t, framed) : h \in hs, t \in ts}
Damaged(forks, h, g, t) ==
  UNION {{[Diff(forks, h, C, {t}, {}) EXCEPT ![k] = Diff(forks, g, C, {t}, {})[k]] :
            k \in DOMAIN Diff(forks, h, C, {t}, {})} : C \in Covers[t]}
\* Declarations 0 .. t-1 of h one by one, and besides one hash of a range of g.
Redundant(forks, h, g, t) ==
  {(<<"m", r>> :> Hash(forks, g, r)) @@ Diff(forks, h, {At(s) : s \in 0 .. t - 1}, {t}, {}) :
     r \in {q \in Ranges : q[2] < t /\ Size(q) > 1}}
World(forks, n, diffs) ==
  [forks |-> forks, puts |-> n, diffs |-> diffs \cup {Diff(forks, 0, {}, {0}, {0})}]

\* Three histories, with whole ones sent; four, one forking off a fork; two,
\* with damaged and redundant diffs; two that have only declaration 0 in common.
TwoForks == <<<<0, 1>>, <<0, 3>>>>
Nested == <<<<0, 1>>, <<1, 3>>, <<0, 1>>>>
OneFork == <<<<0, 2>>>>
FromStart == <<<<0, 0>>>>
MCWorlds ==
  {World(TwoForks, 4, Tops(TwoForks, 0 .. 2, {2, 4})
                        \cup Whole(TwoForks, 0 .. 2, {3, 5}, {0, 2, 3})),
   World(Nested, 5, Tops(Nested, 0 .. 3, {2, 4})),
   World(OneFork, 4, Tops(OneFork, 0 .. 1, {3, 4})
                       \cup Damaged(OneFork, 0, 1, 4) \cup Damaged(OneFork, 1, 0, 4)
                       \cup Redundant(OneFork, 0, 1, 4)),
   World(FromStart, 3, Tops(FromStart, 0 .. 1, {1, 3})
                         \cup Whole(FromStart, 0 .. 1, {2, 4}, {0, 1}))}
=============================================================================
