----------------------------- MODULE MCScrollFS -----------------------------
(* ScrollFS for TLC: what the callers of each world do.                     *)
EXTENDS ScrollFS

MCFiles == {"/d/x", "/d/y", "/d/e/z"}
MCDirs == {"/", "/d/", "/d/e/"}
MCParent == ("/d/x" :> "/d/") @@ ("/d/y" :> "/d/") @@ ("/d/e/z" :> "/d/e/")
              @@ ("/" :> "") @@ ("/d/" :> "/") @@ ("/d/e/" :> "/d/")
MCClose == {<<"v1", "v2">>, <<"v2", "v1">>}

Op(do, path, br, val) == [do |-> do, path |-> path, br |-> br, val |-> val, dir |-> "dn"]
Search(dir) == [Op("find", "/d/x", "", "") EXCEPT !.dir = dir]

\* One file changes and others come between; every way to search it.
Rows1 == [ops |-> {Op("mod_file", "/d/x", "main", ""), Op("add_file", "/d/x", "", ""),
                   Op("add_file", "/d/y", "", ""), Search("dn"), Search("up")},
          csum |-> FALSE, max |-> 5]
\* A file on branches.
Branches1 == [ops |-> {Op(do, "/d/x", br, "") :
                         do \in {"add_file", "rm_file", "get"}, br \in {"", "main", "b"}}
                      \ {Op("get", "/d/x", "", "")},
              csum |-> FALSE, max |-> 4]
\* A directory with files, which is listed and removed.
Tree1 == [ops |-> {Op("add_dir", "/d/", "", ""), Op("rm_dir", "/d/", "", ""),
                   Op("rm_file", "/d/x", "", ""), Op("ls", "/d/", "main", ""),
                   Op("add_file", "/d/x", "", ""), Op("add_file", "/d/y", "", "")},
          csum |-> FALSE, max |-> 4]
\* Contents that are the same, close to one another or not.
Contents1 == [ops |-> {Op("add_file", "/d/x", "", "v1"), Op("add_file", "/d/y", "", "v3"),
                       Op("mod_file", "/d/x", "", "v2"), Op("mod_file", "/d/x", "", "v3"),
                       Op("get", "/d/x", "main", ""), Op("get", "/d/y", "main", "")},
              csum |-> FALSE, max |-> 4]
Sums1 == [ops |-> {Op("add_file", "/d/x", "", "v1"), Op("add_file", "/d/y", "b", "v1"),
                   Op("add_file", "/d/y", "b", "v2"), Op("mod_file", "/d/x", "main", "v2"),
                   Op("mod_file", "/d/x", "b", "v1"),
                   Op("get", "/d/x", "main", ""), Op("get", "/d/y", "b", "")},
          csum |-> TRUE, max |-> 4]
\* A directory on branches.
TreeBranches1 == [ops |-> {Op("add_dir", "/d/", "", ""), Op("add_file", "/d/x", "", ""),
                           Op("add_file", "/d/y", "b", ""), Op("rm_dir", "/d/", "b", ""),
                           Op("rm_dir", "/d/", "main", ""), Op("rm_dir", "/d/", "", ""),
                           Op("ls", "/d/", "b", "")},
                  csum |-> FALSE, max |-> 4]
\* A directory in a directory.
Nested1 == [ops |-> {Op("add_dir", "/d/", "", ""), Op("add_dir", "/d/e/", "", ""),
                     Op("add_file", "/d/e/z", "", ""), Op("rm_dir", "/d/", "", ""),
                     Op("ls", "/d/", "main", "")},
            csum |-> FALSE, max |-> 4]
MCWorlds == {Rows1, Branches1, Tree1, Contents1, Sums1, TreeBranches1, Nested1}
=============================================================================
