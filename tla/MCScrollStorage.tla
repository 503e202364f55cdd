-------------------------- MODULE MCScrollStorage --------------------------
(* Instances of ScrollStorage for TLC.                                     *)
EXTENDS ScrollStorage

One(c, t, u, s, b, q, x) ==
  [cfids |-> c, seqs |-> t, updates |-> u, signed |-> s, big |-> b,
   queue |-> q, loads |-> 1, crashes |-> x]

\* Frames in the data store, with an exit or with a queue of two updates; three
\* conflicts to merge.
Storing == {One(1, 2, 2, {2}, {2}, 1, 1), One(1, 2, 2, {2}, {2}, 2, 0),
            One(2, 2, 2, {}, {}, 1, 0)}
\* Two updates; one update of a longer scroll, where a merge may move a top.
Plain == {One(1, 2, 2, {2}, {}, 1, 0), One(1, 3, 1, {}, {}, 1, 0)}
\* An exit.
Restarted == {One(1, 1, 2, {}, {}, 1, 1)}
=============================================================================
