----------------------------- MODULE MCGraphRun -----------------------------
(* Plans of the small instances of GraphRun.                               *)
EXTENDS GraphRun, TLC

Arc(n, success, other) == n :> [r \in Routes |-> IF r = "success" THEN success ELSE other]

(* A plan of nodes 1..size; what is not given is a leaf without arcs.      *)
Plan(size, arcs, needs, kinds, sensitive) ==
    LET none == [r \in Routes |-> {}]
    IN  [nodes |-> 1..size, entry |-> 1,
         on |-> arcs @@ [n \in Nodes |-> none],
         needs |-> needs @@ [n \in Nodes |-> {}],
         kind |-> kinds @@ [n \in Nodes |-> "leaf"],
         sensitive |-> sensitive]

(* Node 1 forks to 2 and 3 or selects another; 2 may feed 3; 4 joins.      *)
Joins(others, inputs) ==
    {Plan(4, Arc(1, {2, 3}, a) @@ Arc(2, b, c) @@ Arc(3, {4}, {}), 4 :> inputs, <<>>, FALSE) :
        a \in others, b \in {{4}, {3, 4}}, c \in {{}, {4}}}

(* A delay, then two nodes side by side.                                   *)
Pair(k, l) == Plan(3, Arc(1, {2, 3}, {}), <<>>, 1 :> "delay" @@ 2 :> k @@ 3 :> l, FALSE)

(* A container alone, with secrets and without.                            *)
Single == {Plan(1, <<>>, <<>>, 1 :> k, s) : k \in Containers, s \in BOOLEAN}

(* The bindings of 4: none, to a node that may be closed, to itself.       *)
SmallPlans ==
    Joins({{2}, {4}}, {})
        \cup {CHOOSE p \in Joins({{4}}, {2}) : TRUE, CHOOSE p \in Joins({{4}}, {4}) : TRUE}
        \cup {Pair(k, "leaf") : k \in ForEach \cup {"loop"}}
        \cup {Pair("variable", "variable")}
        \cup Single
=============================================================================
