---- MODULE ProcessGraph ----
(***************************************************************************)
(* The endpoint process graph and the finding engine over it               *)
(* (src/core/process_graph.cpp), as functions of an event and the previous  *)
(* value.  A process instance is named by its pid and a start time          *)
(* ("start", Linux), a creation time ("native", Windows) or the kernel's    *)
(* UniqueProcessKey ("unique", Windows, for a process that is gone before   *)
(* it can be opened).                                                       *)
(*                                                                          *)
(* An executable is "tmp" (a transient path: PROC-001) or "shell" (PROC-002 *)
(* when its parent is not an expected one).  PROC-003 asks of the parent's  *)
(* node what PROC-002 does; a custom rule is one of the five under another  *)
(* id and with windows of its own; neither adds a case.                     *)
(***************************************************************************)
EXTENDS Integers, Sequences, FiniteSets, SequencesExt, FiniteSetsExt, TLC

CONSTANTS
  MaxNodes,               \* ProcessGraph(max_nodes)
  FanoutCount, ShortCount, Window, MaxLifetime,
  Excluded                \* executables the rule's exclusions name

Images == {"tmp", "shell"}
NoKey == [pid |-> 0, kind |-> "none", id |-> 0]
Key(pid, kind, id) == [pid |-> pid, kind |-> kind, id |-> id]
NoParent == [pid |-> 0, key |-> NoKey, start |-> 0]

EmptyGraph ==
  [nodes  |-> <<>>,   \* key -> [parent, image, started, exited]
   active |-> {},     \* active_by_pid_
   order  |-> <<>>,   \* insertion_order_
   health |-> 0]      \* what ProcessGraphHealth counts, but evictions
EmptyEngine == [starts |-> <<>>, children |-> <<>>, exits |-> <<>>]

UniqueActive(g, pid) ==
  LET keys == {k \in g.active : k.pid = pid} IN
  IF Cardinality(keys) = 1 THEN CHOOSE k \in keys : TRUE ELSE NoKey

EvictIfNeeded(g) ==
  IF Cardinality(DOMAIN g.nodes) < MaxNodes THEN g
  ELSE [g EXCEPT !.nodes = [k \in DOMAIN @ \ {Head(g.order)} |-> @[k]],
                 !.active = @ \ {Head(g.order)},
                 !.order = Tail(@)]

\* The parent a new node is linked to, NoKey for none.  A parent that started
\* after its child is some later owner of the pid, and is refused.
ParentUnchecked(g, e) ==
  IF e.parent.pid = 0 THEN NoKey
  ELSE IF e.parent.key # NoKey THEN e.parent.key ELSE UniqueActive(g, e.parent.pid)
ParentOf(g, e) ==
  LET p == ParentUnchecked(g, e)
      parentStart == IF e.parent.start # 0 THEN e.parent.start
                     ELSE IF p \in DOMAIN g.nodes THEN g.nodes[p].started ELSE 0
      childStart == IF e.start # 0 THEN e.start ELSE e.ts
  IN IF parentStart > childStart THEN NoKey ELSE p

Insert(graph, e) ==
  LET g == EvictIfNeeded(graph)
      node == [parent |-> ParentOf(g, e), image |-> e.image, started |-> e.ts, exited |-> 0]
  IN [nodes  |-> (e.key :> node) @@ g.nodes,
      active |-> g.active \cup {e.key},
      order  |-> Append(g.order, e.key),
      health |-> g.health + (IF /\ node.parent = NoKey
                                /\ \/ ParentUnchecked(g, e) # NoKey
                                   \/ \E k \in g.active : k.pid = e.parent.pid
                             THEN 1 ELSE 0)]

\* The instance an event is about; an exit that carries no identity is that of
\* the one active instance of its pid.
Subject(g, e) == IF e.key = NoKey /\ e.type = "exit" THEN UniqueActive(g, e.pid) ELSE e.key

MarkExited(g, k, ts) ==
  [g EXCEPT !.nodes[k].exited = ts, !.active = @ \ {k}]

\* ProcessGraph::observe; `ok` is its result.
Observe(g, e) ==
  LET k == Subject(g, e) IN
  IF k = NoKey THEN [ok |-> FALSE, g |-> [g EXCEPT !.health = @ + 1]]
  ELSE IF e.type = "exit"
       THEN IF k \in DOMAIN g.nodes THEN [ok |-> TRUE, g |-> MarkExited(g, k, e.ts)]
                                    ELSE [ok |-> FALSE, g |-> g]
  ELSE IF k \in DOMAIN g.nodes THEN [ok |-> TRUE, g |-> [g EXCEPT !.nodes[k].image = e.image]]
  ELSE [ok |-> TRUE, g |-> Insert(g, e)]

----
(***************************************************************************)
(* ProcessFindingEngine                                                     *)
(***************************************************************************)
MakeFinding(rule, g, k, at) ==
  LET p == g.nodes[k].parent IN
  [rule |-> rule, process |-> k, parent |-> p,
   evidence |-> [image |-> g.nodes[k].image, at |-> at,
                 parentImage |-> IF p \in DOMAIN g.nodes THEN g.nodes[p].image ELSE "-"]]

\* evaluate_node: the rules on one node and its parent's.
EvaluateNode(g, k) ==
  LET n == g.nodes[k] IN
  {MakeFinding("PROC-001", g, k, n.started) : x \in {y \in {1} : n.image = "tmp"}} \cup
  {MakeFinding("PROC-002", g, k, n.started) :
     x \in {y \in {1} : /\ n.image = "shell" /\ n.parent \in DOMAIN g.nodes
                        /\ g.nodes[n.parent].image # "shell"}}
EvaluateSnapshot(g) == UNION {EvaluateNode(g, k) : k \in DOMAIN g.nodes}

\* trim_before and push_back: the times in the window that ends now.
InWindow(times, k, now) ==
  LET old == IF k \in DOMAIN times THEN times[k] ELSE <<>> IN
  Append(SelectSeq(old, LAMBDA t : t >= now - Window), now)
\* A burst is reported when its count is reached, of a parent still in the graph.
Burst(rule, count, times, g, p, now) ==
  {MakeFinding(rule, g, p, now) : x \in {y \in {1} : Len(times[p]) = count /\ p \in DOMAIN g.nodes}}

\* ProcessFindingEngine::observe for a START and for an EXIT of node k.
ObserveStart(en, g, k, now) ==
  LET p == g.nodes[k].parent
      children == IF p = NoKey THEN en.children
                  ELSE (p :> InWindow(en.children, p, now)) @@ en.children
  IN [en |-> [en EXCEPT !.starts = (k :> now) @@ @, !.children = children],
      found |-> EvaluateNode(g, k) \cup
                (IF p = NoKey THEN {} ELSE Burst("PROC-004", FanoutCount, children, g, p, now))]
ObserveExit(en, g, k, now) ==
  LET p == g.nodes[k].parent
      starts == [s \in DOMAIN en.starts \ {k} |-> en.starts[s]]
      short == k \in DOMAIN en.starts /\ p # NoKey /\ now - en.starts[k] <= MaxLifetime
      exits == IF short THEN (p :> InWindow(en.exits, p, now)) @@ en.exits ELSE en.exits
  IN [en |-> [en EXCEPT !.starts = starts, !.exits = exits],
      found |-> IF short THEN Burst("PROC-005", ShortCount, exits, g, p, now) ELSE {}]
EngineObserve(en, g, k, e) ==
  IF e.type = "start" THEN ObserveStart(en, g, k, e.ts) ELSE ObserveExit(en, g, k, e.ts)

\* excluded_process_finding
Kept(found) == {f \in found : f.evidence.image \notin Excluded}
====
