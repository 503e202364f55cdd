------------------------------ MODULE MCEtask ------------------------------
(* Etask for TLC: programs that call, spawn, wait and cancel. *)
EXTENDS Etask

Plan(root, kinds, ops, n) ==
    [root |-> root, kinds |-> kinds, ops |-> ops, limit |-> 2, fuel |-> n]
Programs ==
    {Plan("gen", {"gen", "leaf"}, {"call", "spawn", "child", "return"}, 4),
     Plan("gen", {"gen", "leaf"}, {"loose", "join", "all", "return"}, 4),
     Plan("gen", {"gen", "raw"}, {"call", "spawn", "child", "wait"}, 3),
     Plan("gen", {"gen", "leaf"}, {"spawn", "timeout", "wait", "return"}, 3),
     Plan("gen", {"gen", "leaf"}, {"call", "wait", "alarm", "return"}, 3),
     Plan("gen", {"gen", "leaf"}, {"call", "then", "join", "return"}, 3),
     Plan("for", {"gen", "leaf"}, {"spawn", "async", "call"}, 4),
     Plan("limit", {"gen", "leaf"}, {"spawn", "call", "return"}, 4),
     [Plan("limit", {"leaf"}, {"return"}, 3) EXCEPT !.limit = 3],
     Plan("raw", {"raw", "leaf"}, {"call", "spawn", "child", "return"}, 3),
     Plan("raw", {"leaf"}, {"spawn", "timeout", "return"}, 3)}
=============================================================================
