---------------------------- MODULE UnitManager ----------------------------
(***************************************************************************)
(* apps/common UnitManager, its TaskRegistry, and the nodes behind it.     *)
(*                                                                         *)
(* The manager serves one client request at a time: it allocates a work_id *)
(* on setup, picks a node round robin, forwards the request over a REQ     *)
(* socket and waits for the answer up to a deadline.  On a timeout the     *)
(* socket is made anew: the request may be lost with the old one or reach  *)
(* the node later, in any order with younger requests, and its answer goes *)
(* nowhere.  A node (RuntimeNode over TaskRuntime, or SessionNode) is the  *)
(* table of its tasks; it may crash and come back with an empty table.     *)
(***************************************************************************)
EXTENDS Naturals, FiniteSets

CONSTANTS
  NodeCount,     \* node_endpoints_.size()
  MaxTasks,      \* max_tasks of the registry, 0 for the default
  NodeCapacity,  \* max_tasks of each node
  MaxCalls,      \* bound: requests the manager serves
  MaxCrashes     \* bound: crashes of nodes

ASSUME UnitManagerAssumption ==
  /\ NodeCount \in Nat \ {0} /\ MaxTasks \in Nat /\ NodeCapacity \in Nat
  /\ MaxCalls \in Nat /\ MaxCrashes \in Nat

VARIABLES
  alive,     \* registry_: the work_ids allocated and not released
  nextSeq,   \* registry_: the rank of the next work_id
  route,     \* route_: work_id to node, for the work_ids in its domain
  nextNode,  \* next_node_ modulo the number of nodes
  call,      \* the forwarded request the manager waits for
  answer,    \* the node's answer to it, once given
  calls,     \* requests served so far
  inbox,     \* per node, the requests that can still reach it
  table,     \* per node, the work_ids of its tasks
  crashes,   \* crashes so far
  held       \* history: work_ids whose setup was acknowledged, until an exit
             \* is asked for or the node loses its tasks

manager == <<alive, nextSeq, route, nextNode>>
vars == <<manager, call, answer, calls, inbox, table, crashes, held>>

-----------------------------------------------------------------------------
(* Types *)

Nodes == 0 .. NodeCount - 1
WorkIds == Nat
Kinds == {"setup", "inference", "cancel", "taskinfo", "exit"}
CallType == [tag : Nat, kind : Kinds, w : WorkIds, node : Nodes]
NoCall == [tag |-> 0, kind |-> "setup", w |-> 0, node |-> 0]

TypeOK ==
  /\ alive \subseteq WorkIds /\ IsFiniteSet(alive)
  /\ nextSeq \in Nat
  /\ DOMAIN route \subseteq WorkIds /\ route \in [DOMAIN route -> Nodes]
  /\ nextNode \in Nodes
  /\ call \in CallType
  /\ answer \in {"none", "ack", "error"}
  /\ calls \in Nat /\ crashes \in Nat
  /\ inbox \in [Nodes -> SUBSET CallType]
  /\ table \in [Nodes -> SUBSET WorkIds]
  /\ held \subseteq WorkIds

-----------------------------------------------------------------------------
(* Helpers *)

DefaultMaxTasks == 64
Capacity == IF MaxTasks = 0 THEN DefaultMaxTasks ELSE MaxTasks

Idle == call = NoCall
Serve == Idle /\ calls < MaxCalls /\ calls' = calls + 1

Forward(kind, w, n) ==
  LET r == [tag |-> calls + 1, kind |-> kind, w |-> w, node |-> n]
  IN  /\ call' = r
      /\ inbox' = [inbox EXCEPT ![n] = @ \cup {r}]
      /\ answer' = "none"

\* Mutant: the registry is not told.
ReleaseRouteOnly(w) ==
  /\ route' = [v \in DOMAIN route \ {w} |-> route[v]]
  /\ UNCHANGED alive

\* route_.erase and registry_.release of one work_id.
Release(w) ==
  /\ route' = [v \in DOMAIN route \ {w} |-> route[v]]
  /\ alive' = alive \ {w}

\* Mutant: any error releases the task.
ConcludeReleasesOnError(outcome) ==
  /\ call' = NoCall /\ answer' = "none"
  /\ IF outcome = "error" \/ call.kind = "exit"
     THEN Release(call.w)
     ELSE UNCHANGED <<route, alive>>
  /\ held' = IF call.kind = "setup" /\ outcome = "ack" /\ call.w \in table[call.node]
             THEN held \cup {call.w} ELSE held
  /\ UNCHANGED <<nextSeq, nextNode, calls, table, crashes>>

\* What handle_request does with the outcome of a forwarded request.
Conclude(outcome) ==
  /\ call' = NoCall /\ answer' = "none"
  /\ IF \/ call.kind = "setup" /\ outcome = "error"
        \/ call.kind = "exit" /\ outcome = "ack"
     THEN Release(call.w)
     ELSE UNCHANGED <<route, alive>>
  /\ held' = IF call.kind = "setup" /\ outcome = "ack" /\ call.w \in table[call.node]
             THEN held \cup {call.w} ELSE held
  /\ UNCHANGED <<nextSeq, nextNode, calls, table, crashes>>

Init ==
  /\ alive = {} /\ nextSeq = 0
  /\ route = [w \in {} |-> 0] /\ nextNode = 0
  /\ call = NoCall /\ answer = "none" /\ calls = 0
  /\ inbox = [n \in Nodes |-> {}] /\ table = [n \in Nodes |-> {}]
  /\ crashes = 0 /\ held = {}

-----------------------------------------------------------------------------
(* The manager *)

\* The registry is full: kCapacity, and nothing is forwarded.
Exhausted ==
  /\ Serve /\ Cardinality(alive) >= Capacity
  /\ UNCHANGED <<manager, call, answer, inbox, table, crashes, held>>

\* A setup of work_id w, with the rank and the node the next one will take.
SetupAs(w, seq, node) ==
  /\ Serve /\ Cardinality(alive) < Capacity
  /\ alive' = alive \cup {w}
  /\ nextSeq' = seq
  /\ route' = [v \in DOMAIN route \cup {w} |-> IF v = w THEN nextNode ELSE route[v]]
  /\ nextNode' = node
  /\ Forward("setup", w, nextNode)
  /\ UNCHANGED <<table, crashes, held>>

\* Mutant: the rank is not advanced.
SetupRepeats == SetupAs(nextSeq, nextSeq, (nextNode + 1) % NodeCount)

Setup == SetupAs(nextSeq, nextSeq + 1, (nextNode + 1) % NodeCount)

\* A work_id clients have heard of, or never heard of: no route, kNotExist.
NotExist ==
  /\ Serve /\ \E w \in 0 .. nextSeq : w \notin DOMAIN route
  /\ UNCHANGED <<manager, call, answer, inbox, table, crashes, held>>

\* inference, cancel, taskinfo and exit on a routed work_id.
Relay ==
  /\ Serve
  /\ \E w \in DOMAIN route, kind \in Kinds \ {"setup"} :
       /\ Forward(kind, w, route[w])
       /\ held' = IF kind = "exit" THEN held \ {w} ELSE held
  /\ UNCHANGED <<manager, table, crashes>>

Answered ==
  /\ ~Idle /\ answer # "none"
  /\ Conclude(answer) /\ UNCHANGED inbox

\* RpcClient::call gives up, or what arrives is not an envelope: an error
\* either way.  The request is lost, or is still on its way.
TimedOut ==
  /\ ~Idle
  /\ Conclude("error")
  /\ inbox' \in {inbox, [inbox EXCEPT ![call.node] = @ \ {call}]}

-----------------------------------------------------------------------------
(* The nodes *)

\* The answer of a request goes to the socket that sent it, if it still exists.
AnswerTo(r, result) ==
  answer' = IF r = call THEN result ELSE answer

Takes(n, r) == r \in inbox[n] /\ inbox' = [inbox EXCEPT ![n] = @ \ {r}]

\* TaskRuntime::setup_with: refused for a known work_id or a full table; a
\* SessionNode also refuses when a backend cannot be created.
NodeSetup(n) ==
  /\ \E r \in inbox[n] :
       /\ Takes(n, r) /\ r.kind = "setup"
       /\ \/ /\ r.w \notin table[n] /\ Cardinality(table[n]) < NodeCapacity
             /\ table' = [table EXCEPT ![n] = @ \cup {r.w}]
             /\ AnswerTo(r, "ack")
          \/ UNCHANGED table /\ AnswerTo(r, "error")
  /\ UNCHANGED <<manager, call, calls, crashes, held>>

\* inference, cancel and taskinfo leave the table alone; an inference on a
\* task may fail, the others not.
NodeServes(n) ==
  /\ \E r \in inbox[n] :
       /\ Takes(n, r) /\ r.kind \in {"inference", "cancel", "taskinfo"}
       /\ \E result \in {"ack", "error"} :
            /\ r.w \notin table[n] => result = "error"
            /\ r.w \in table[n] /\ r.kind # "inference" => result = "ack"
            /\ AnswerTo(r, result)
  /\ UNCHANGED <<manager, call, calls, table, crashes, held>>

NodeExit(n) ==
  /\ \E r \in inbox[n] :
       /\ Takes(n, r) /\ r.kind = "exit"
       /\ table' = [table EXCEPT ![n] = @ \ {r.w}]
       /\ AnswerTo(r, IF r.w \in table[n] THEN "ack" ELSE "error")
  /\ UNCHANGED <<manager, call, calls, crashes, held>>

\* A node process dies and is started again.
NodeCrash(n) ==
  /\ crashes < MaxCrashes /\ crashes' = crashes + 1
  /\ table' = [table EXCEPT ![n] = {}]
  /\ inbox' = [inbox EXCEPT ![n] = {}]
  /\ held' = held \ table[n]
  /\ UNCHANGED <<manager, call, answer, calls>>

-----------------------------------------------------------------------------
(* The specification *)

Next ==
  \/ Exhausted \/ Setup \/ NotExist \/ Relay \/ Answered \/ TimedOut
  \/ \E n \in Nodes : NodeSetup(n) \/ NodeServes(n) \/ NodeExit(n) \/ NodeCrash(n)

Spec == Init /\ [][Next]_vars

-----------------------------------------------------------------------------
(* Safety *)

\* The routing table and the registry name the same tasks at every moment, and
\* never more of them than the capacity: no slot leaks from one to the other.
RoutesMatchRegistry ==
  DOMAIN route = alive /\ Cardinality(alive) <= Capacity

\* The next work_id is one that neither a client, nor a node's table, nor a
\* request still on its way knows: an old request never meets a new task.
NextIdIsFresh ==
  \A n \in Nodes : \A w \in alive \cup held \cup table[n] \cup {r.w : r \in inbox[n]} :
    w < nextSeq

\* A task whose setup was acknowledged stays routed to the node that has it
\* until its exit is asked for, whatever timed out or came late meanwhile.
HeldTasksReachable ==
  \A w \in held : w \in DOMAIN route /\ w \in table[route[w]]

\* No task is set up on two nodes.
OneNodePerTask ==
  \A n, m \in Nodes : n # m => table[n] \cap table[m] = {}

\* So a work_id names one task: see the two parts.
WorkIdsNameOneTask == NextIdIsFresh /\ OneNodePerTask

=============================================================================
