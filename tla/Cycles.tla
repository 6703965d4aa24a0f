-------------------------------- MODULE Cycles --------------------------------
(***************************************************************************)
(* The search for cycles among the dependencies of jobs.                   *)
(***************************************************************************)
EXTENDS Sequences

(* dag.rs: adj is a function from jobs to sequences of upstream jobs. The walk  *)
(* answers [cycle, visited]; `path` holds the nodes being visited.              *)

RECURSIVE Dfs(_, _, _, _), DfsAll(_, _, _, _)
VisitedFirst(adj, node, path, visited) ==    \* fault: a node counts as visited when it is met
    IF node \in visited THEN [cycle |-> node \in path, visited |-> visited]
    ELSE IF node \notin DOMAIN adj THEN [cycle |-> FALSE, visited |-> visited \cup {node}]
    ELSE DfsAll(adj, adj[node], {node}, visited \cup {node})

Dfs(adj, node, path, visited) ==
    IF node \in path THEN [cycle |-> TRUE, visited |-> visited]
    ELSE IF node \in visited \/ node \notin DOMAIN adj
    THEN [cycle |-> FALSE, visited |-> visited \cup {node}]
    ELSE LET r == DfsAll(adj, adj[node], path \cup {node}, visited)
         IN  [r EXCEPT !.visited = @ \cup {node}]

DfsAll(adj, nodes, path, visited) ==
    IF nodes = <<>> THEN [cycle |-> FALSE, visited |-> visited]
    ELSE LET r == Dfs(adj, Head(nodes), path, visited)
         IN  IF r.cycle THEN r ELSE DfsAll(adj, Tail(nodes), path, r.visited)

(* One walk from all the nodes, in the order `keys`. *)
HasCycle(adj, keys) == DfsAll(adj, keys, {}, {}).cycle
===============================================================================
