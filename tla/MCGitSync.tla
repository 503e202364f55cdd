----------------------------- MODULE MCGitSync -----------------------------
(* GitSync for TLC: commits, and what may be pushed in each world.          *)
EXTENDS GitSync

MCPaths == <<"/", "/d/", "/d/x", "/x", "/y">>
MCParent == ("/" :> "") @@ ("/d/" :> "/") @@ ("/d/x" :> "/d/") @@ ("/x" :> "/") @@ ("/y" :> "/")
MCBranches == <<"b1", "master">>

C(parents, tree) == [parents |-> parents, tree |-> tree]
MCCommits ==
  ("c1" :> C(<<>>, "/x" :> "o1"))
    @@ ("c2" :> C(<<"c1">>, "/x" :> "o1" @@ "/y" :> "o2"))
    @@ ("c3" :> C(<<"c1">>, "/x" :> "o3"))
    @@ ("c4" :> C(<<"c2">>, "/x" :> "o2" @@ "/y" :> "o2"))
    @@ ("c5" :> C(<<"c2">>, "/y" :> "o2"))
    @@ ("m" :> C(<<"c3", "c2">>, "/x" :> "o3" @@ "/y" :> "o2"))
    @@ ("d1" :> C(<<"c3">>, "/d/x" :> "o1" @@ "/x" :> "o3"))
    @@ ("d2" :> C(<<"d1">>, "/d/x" :> "o2" @@ "/y" :> "o1"))
    @@ ("d3" :> C(<<"d2">>, "/x" :> "o2" @@ "/y" :> "o1"))
    @@ ("e1" :> C(<<"c2">>, "/d/x" :> "o1" @@ "/x" :> "o1" @@ "/y" :> "o2"))
    @@ ("e2" :> C(<<"e1">>, "/d/x" :> "o1" @@ "/x" :> "o2" @@ "/y" :> "o1"))

Repo(br, tags, head) == [br |-> br, tags |-> tags, head |-> head]
On(master) == IF master = "" THEN <<>> ELSE "master" :> master
Two(master, b1) == On(master) @@ (IF b1 = "" THEN <<>> ELSE "b1" :> b1)
Opt(flip, seal) == [flip |-> flip, seal |-> seal]
Plain == {Opt(FALSE, FALSE)}

World(repos, opts, grows, goes, head, ends) ==
  [repos |-> repos, opts |-> opts, grows |-> grows, goes |-> goes, head |-> head,
   syncs |-> 3, restarts |-> ends]

\* One branch with directories and files that come and go.
Line == World({Repo(On(c), <<>>, "master") : c \in {"c1", "c3", "d1", "d2", "d3"}},
              {Opt(FALSE, TRUE)}, TRUE, "", "master", 1)
\* Tags that are moved, annotated and removed, some to where they were.
Tag(type, oid) == "t" :> [type |-> type, oid |-> oid]
Tagged == World({Repo(On("c2"), t, "master") :
                   t \in {<<>>, Tag("commit", "c1"), Tag("commit", "c2"), Tag("tag", "a2")}},
                {Opt(f, FALSE) : f \in BOOLEAN}, TRUE, "", "master", 1)
\* Two branches that are made, grow and merge, and a head that moves.
Merging == World({Repo(Two(c, d), <<>>, h) :
                    c \in {"", "c3", "m"}, d \in {"", "c2"}, h \in {"master", "b1"}},
                 Plain, TRUE, "", "master", 1)
\* One of them goes and comes.
Going == World({Repo(Two(c, d), <<>>, "master") : c \in {"c1", "c3", "m"}, d \in {"", "c1", "c2"}},
               Plain, TRUE, "b1", "master", 1)
\* The same with flip_protect.
Flipping == World({Repo(Two("c3", d), <<>>, h) :
                     d \in {"", "c1", "c2", "c3"}, h \in {"", "master", "b1"}},
                  {Opt(TRUE, FALSE)}, FALSE, "", "b1", 0)
\* Branches that are rewritten.
Rewriting == World({Repo(Two(c, d), <<>>, "master") :
                      c \in {"c1", "c3", "c4"}, d \in {"c4", "c5"}},
                   Plain, FALSE, "", "master", 1)
\* Directories on branches.
Dirs == World({Repo(Two(c, d), <<>>, "master") : c \in {"c1", "c3", "d1"}, d \in {"c2", "e1", "e2"}},
              Plain, TRUE, "", "master", 0)
MCWorlds == {Line, Tagged, Merging, Going, Flipping, Rewriting, Dirs}
=============================================================================
