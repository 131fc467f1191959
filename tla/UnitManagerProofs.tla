------------------------- MODULE UnitManagerProofs -------------------------
(***************************************************************************)
(* The safety of the manager and its nodes, for any number of nodes, tasks *)
(* and requests, whatever is lost, late or crashes.                        *)
(***************************************************************************)
EXTENDS UnitManager, FiniteSetTheorems, TLAPS

\* Where node n is involved with work_id w: it has the task, a request for it
\* is on its way to n, or the manager routes it or has a call out to n.
Concerns(n, w) ==
  \/ w \in table[n]
  \/ \E r \in inbox[n] : r.w = w
  \/ w \in DOMAIN route /\ route[w] = n
  \/ ~Idle /\ call.w = w /\ call.node = n

\* A work_id concerns one node, and is one the registry has already given out.
SiteInv ==
  /\ \A n, m \in Nodes : \A w \in WorkIds : Concerns(n, w) /\ Concerns(m, w) => n = m
  /\ \A n \in Nodes : \A w \in WorkIds : Concerns(n, w) => w < nextSeq

\* While a setup is out, its work_id is routed, nobody holds it and no exit
\* can be on its way.
SetupInv ==
  ~Idle /\ call.kind = "setup" =>
    /\ call.w \in DOMAIN route /\ route[call.w] = call.node /\ call.w \notin held
    /\ \A n \in Nodes : \A r \in inbox[n] : r.w = call.w => r.kind = "setup"

\* No exit of a held task is out.
HeldInv ==
  \A w \in held :
    /\ ~Idle /\ call.w = w => call.kind # "exit"
    /\ \A n \in Nodes : \A r \in inbox[n] : r.w = w => r.kind # "exit"

Inv ==
  /\ TypeOK /\ RoutesMatchRegistry /\ SiteInv
  /\ SetupInv /\ HeldTasksReachable /\ HeldInv

USE UnitManagerAssumption

-----------------------------------------------------------------------------
(* Lemmas on the parts *)

\* The fields of a forwarded request.
LEMMA CallFields ==
  ASSUME NEW r \in CallType
  PROVE  r.tag \in Nat /\ r.kind \in Kinds /\ r.w \in WorkIds /\ r.node \in Nodes
  BY DEF CallType

\* A step that involves no node with a new work_id keeps SiteInv.
LEMMA SitesShrink ==
  ASSUME SiteInv, nextSeq' = nextSeq,
         \A n \in Nodes : \A w \in WorkIds : Concerns(n, w)' => Concerns(n, w)
  PROVE  SiteInv'
  BY DEF SiteInv

\* Ids a client holds or the registry has out have been given out before.
LEMMA GivenOut ==
  ASSUME TypeOK, RoutesMatchRegistry, SiteInv, HeldTasksReachable
  PROVE  /\ \A w \in DOMAIN route : w \in Nat /\ w < nextSeq
         /\ \A w \in held : w \in DOMAIN route
  <1>1. ASSUME NEW w \in DOMAIN route PROVE w \in Nat /\ w < nextSeq
    <2>1. w \in WorkIds /\ route[w] \in Nodes BY <1>1 DEF TypeOK
    <2>2. Concerns(route[w], w) BY <1>1 DEF Concerns
    <2>. QED BY <2>1, <2>2 DEF SiteInv, WorkIds
  <1>. QED BY <1>1 DEF HeldTasksReachable

\* Inv implies what it was made for.
LEMMA InvImpliesFresh == ASSUME Inv PROVE NextIdIsFresh
  <1>. SUFFICES ASSUME NEW n \in Nodes,
                       NEW w \in alive \cup held \cup table[n] \cup {r.w : r \in inbox[n]}
                PROVE  w < nextSeq
    BY DEF NextIdIsFresh
  <1>1. CASE w \in alive \cup held
    BY <1>1, GivenOut DEF Inv, RoutesMatchRegistry
  <1>2. CASE w \in table[n]
    <2>1. w \in WorkIds /\ Concerns(n, w) BY <1>2 DEF Inv, TypeOK, Concerns
    <2>. QED BY <2>1 DEF Inv, SiteInv
  <1>3. CASE \E r \in inbox[n] : w = r.w
    <2>1. PICK r \in inbox[n] : w = r.w BY <1>3
    <2>2. r \in CallType BY <2>1 DEF Inv, TypeOK
    <2>3. w \in WorkIds BY <2>1, <2>2, CallFields
    <2>4. Concerns(n, w) BY <2>1 DEF Concerns
    <2>. QED BY <2>3, <2>4 DEF Inv, SiteInv
  <1>. QED BY <1>1, <1>2, <1>3

LEMMA InvImpliesOneNode == ASSUME Inv PROVE OneNodePerTask
  <1>. SUFFICES ASSUME NEW n \in Nodes, NEW m \in Nodes, n # m,
                       NEW w \in table[n], w \in table[m]
                PROVE  FALSE
    BY DEF OneNodePerTask
  <1>1. w \in WorkIds BY DEF Inv, TypeOK
  <1>2. Concerns(n, w) /\ Concerns(m, w) BY DEF Concerns
  <1>. QED BY <1>1, <1>2 DEF Inv, SiteInv

-----------------------------------------------------------------------------
(* Init and the actions *)

LEMMA NoCallTyped == NoCall \in CallType
  BY DEF NoCall, CallType, Nodes, Kinds, WorkIds

LEMMA InitInv == Init => Inv
  <1>. SUFFICES ASSUME Init PROVE Inv OBVIOUS
  <1>1. TypeOK
    BY NoCallTyped, FS_EmptySet DEF Init, TypeOK, Nodes, WorkIds
  <1>2. RoutesMatchRegistry
    <2>1. Capacity \in Nat BY DEF Capacity, DefaultMaxTasks
    <2>2. Cardinality({}) = 0 BY FS_EmptySet
    <2>. QED BY <2>1, <2>2 DEF Init, RoutesMatchRegistry
  <1>3. SiteInv BY DEF Init, SiteInv, Concerns, Idle
  <1>. QED BY <1>1, <1>2, <1>3 DEF Init, Inv, SetupInv, HeldTasksReachable, HeldInv, Idle

\* Steps that refuse a request without forwarding it.
LEMMA RefuseStep ==
  ASSUME Inv, calls' = calls + 1,
         UNCHANGED <<manager, call, answer, inbox, table, crashes, held>>
  PROVE  Inv'
  <1>1. TypeOK' BY DEF Inv, TypeOK, manager
  <1>2. SiteInv' BY DEF Inv, SiteInv, Concerns, Idle, manager
  <1>. QED BY <1>1, <1>2 DEF Inv, RoutesMatchRegistry, SetupInv, HeldTasksReachable,
                             HeldInv, Idle, manager

LEMMA SetupStep == ASSUME Inv, Setup PROVE Inv'
  <1>. DEFINE req == [tag |-> calls + 1, kind |-> "setup", w |-> nextSeq, node |-> nextNode]
  <1>. USE DEF Inv
  <1>1. /\ nextSeq \in Nat /\ nextNode \in Nodes /\ calls \in Nat /\ IsFiniteSet(alive)
        /\ DOMAIN route = alive
    BY DEF TypeOK, RoutesMatchRegistry
  <1>2. req \in CallType BY <1>1 DEF CallType, Kinds, WorkIds
  <1>3. /\ call' = req /\ inbox' = [inbox EXCEPT ![nextNode] = @ \cup {req}]
        /\ answer' = "none" /\ nextSeq' = nextSeq + 1
        /\ alive' = alive \cup {nextSeq}
        /\ UNCHANGED <<table, crashes, held>> /\ calls' = calls + 1
    BY DEF Setup, SetupAs, Forward, Serve
  <1>4. /\ DOMAIN route' = DOMAIN route \cup {nextSeq}
        /\ route'[nextSeq] = nextNode
        /\ \A w \in DOMAIN route : w # nextSeq => route'[w] = route[w]
        /\ route' = [w \in DOMAIN route' |-> route'[w]]
    BY DEF Setup, SetupAs
  <1>5. nextSeq \notin DOMAIN route /\ nextSeq \notin held
    BY GivenOut, <1>1
  <1>6. \A n \in Nodes : \A r \in inbox'[n] : r \in inbox[n] \/ (n = nextNode /\ r = req)
    BY <1>3 DEF TypeOK
  <1>7. \A n \in Nodes : \A w \in WorkIds :
          Concerns(n, w)' => Concerns(n, w) \/ (n = nextNode /\ w = nextSeq)
    <2>. SUFFICES ASSUME NEW n \in Nodes, NEW w \in WorkIds, Concerns(n, w)'
                  PROVE  Concerns(n, w) \/ (n = nextNode /\ w = nextSeq)
      OBVIOUS
    <2>1. CASE (w \in table[n])' BY <2>1, <1>3 DEF Concerns
    <2>2. CASE (\E r \in inbox[n] : r.w = w)' BY <2>2, <1>6 DEF Concerns
    <2>3. CASE (w \in DOMAIN route /\ route[w] = n)' BY <2>3, <1>4 DEF Concerns
    <2>4. CASE (~Idle /\ call.w = w /\ call.node = n)' BY <2>4, <1>3
    <2>. QED BY <2>1, <2>2, <2>3, <2>4 DEF Concerns
  <1>8. \A n \in Nodes : ~Concerns(n, nextSeq)
    BY <1>1 DEF SiteInv, WorkIds
  <1>9. TypeOK'
    <2>1. nextNode' \in Nodes
      <3>1. nextNode' = (nextNode + 1) % NodeCount BY DEF Setup, SetupAs
      <3>2. nextNode + 1 \in Nat BY <1>1 DEF Nodes
      <3>. HIDE DEF Nodes
      <3>3. (nextNode + 1) % NodeCount \in 0 .. NodeCount - 1 BY <3>2
      <3>. QED BY <3>1, <3>3 DEF Nodes
    <2>2. IsFiniteSet(alive') /\ alive' \subseteq WorkIds
      BY <1>1, <1>3, FS_AddElement DEF TypeOK, WorkIds
    <2>3. DOMAIN route' \subseteq WorkIds /\ route' \in [DOMAIN route' -> Nodes]
      <3>1. DOMAIN route' \subseteq WorkIds BY <1>1, <1>4 DEF TypeOK, WorkIds
      <3>2. \A w \in DOMAIN route' : route'[w] \in Nodes BY <1>1, <1>4 DEF TypeOK
      <3>. QED BY <3>1, <3>2, <1>4
    <2>4. inbox' \in [Nodes -> SUBSET CallType] BY <1>1, <1>2, <1>3 DEF TypeOK
    <2>. QED BY <1>1, <1>2, <1>3, <2>1, <2>2, <2>3, <2>4 DEF TypeOK
  <1>10. RoutesMatchRegistry'
    <2>1. nextSeq \notin alive BY <1>1, <1>5
    <2>2. Cardinality(alive') = Cardinality(alive) + 1
      BY <1>1, <1>3, <2>1, FS_AddElement
    <2>3. Cardinality(alive) \in Nat /\ Capacity \in Nat
      BY <1>1, FS_CardinalityType DEF Capacity, DefaultMaxTasks
    <2>4. Cardinality(alive) < Capacity BY DEF Setup, SetupAs
    <2>5. Cardinality(alive') <= Capacity BY <2>2, <2>3, <2>4
    <2>. QED BY <1>1, <1>3, <1>4, <2>5 DEF RoutesMatchRegistry, Capacity, DefaultMaxTasks
  <1>11. SiteInv'
    <2>1. ASSUME NEW n \in Nodes, NEW m \in Nodes, NEW w \in WorkIds,
                 Concerns(n, w)', Concerns(m, w)'
          PROVE  n = m
      BY <2>1, <1>7, <1>8 DEF SiteInv
    <2>2. ASSUME NEW n \in Nodes, NEW w \in WorkIds, Concerns(n, w)'
          PROVE  w < nextSeq'
      BY <2>2, <1>1, <1>3, <1>7 DEF SiteInv, WorkIds
    <2>. QED BY <2>1, <2>2 DEF SiteInv
  <1>12. SetupInv'
    <2>1. \A n \in Nodes : \A r \in inbox'[n] : r.w = nextSeq => r.kind = "setup"
      <3>. SUFFICES ASSUME NEW n \in Nodes, NEW r \in inbox'[n], r.w = nextSeq
                    PROVE  r.kind = "setup"
        OBVIOUS
      <3>1. ~(r \in inbox[n]) BY <1>8 DEF Concerns
      <3>. QED BY <3>1, <1>6
    <2>. QED BY <2>1, <1>3, <1>4, <1>5 DEF SetupInv
  <1>13. HeldTasksReachable'
    BY <1>3, <1>4, <1>5 DEF HeldTasksReachable
  <1>14. HeldInv'
    BY <1>3, <1>6 DEF HeldInv
  <1>. QED BY <1>9, <1>10, <1>11, <1>12, <1>13, <1>14

LEMMA RelayStep == ASSUME Inv, Relay PROVE Inv'
  <1>. USE DEF Inv
  <1>1. PICK w \in DOMAIN route, kind \in Kinds \ {"setup"} :
          /\ Forward(kind, w, route[w])
          /\ held' = IF kind = "exit" THEN held \ {w} ELSE held
    BY DEF Relay
  <1>. DEFINE req == [tag |-> calls + 1, kind |-> kind, w |-> w, node |-> route[w]]
  <1>2. /\ call' = req /\ inbox' = [inbox EXCEPT ![route[w]] = @ \cup {req}]
        /\ answer' = "none" /\ calls' = calls + 1
        /\ UNCHANGED <<alive, nextSeq, route, nextNode, table, crashes>>
    BY <1>1 DEF Forward, Relay, Serve, manager
  <1>3. w \in WorkIds /\ route[w] \in Nodes /\ calls \in Nat BY DEF TypeOK
  <1>4. req \in CallType BY <1>3 DEF CallType
  <1>5. \A n \in Nodes : \A r \in inbox'[n] : r \in inbox[n] \/ (n = route[w] /\ r = req)
    BY <1>2, <1>3 DEF TypeOK
  <1>6. held' \subseteq held /\ (kind = "exit" => w \notin held') BY <1>1
  <1>7. TypeOK'
    <2>1. inbox' \in [Nodes -> SUBSET CallType] BY <1>2, <1>3, <1>4 DEF TypeOK
    <2>. QED BY <1>2, <1>3, <1>4, <1>6, <2>1 DEF TypeOK
  <1>8. SiteInv'
    <2>1. ASSUME NEW n \in Nodes, NEW v \in WorkIds, Concerns(n, v)'
          PROVE  Concerns(n, v)
      <3>1. CASE (v \in table[n])' BY <3>1, <1>2 DEF Concerns
      <3>2. CASE (\E r \in inbox[n] : r.w = v)' BY <3>2, <1>5 DEF Concerns
      <3>3. CASE (v \in DOMAIN route /\ route[v] = n)' BY <3>3, <1>2 DEF Concerns
      <3>4. CASE (~Idle /\ call.w = v /\ call.node = n)' BY <3>4, <1>2 DEF Concerns
      <3>. QED BY <2>1, <3>1, <3>2, <3>3, <3>4 DEF Concerns
    <2>. QED BY <2>1, <1>2, SitesShrink
  <1>9. SetupInv' BY <1>2 DEF SetupInv
  <1>10. HeldInv' BY <1>2, <1>5, <1>6 DEF HeldInv, Idle
  <1>11. HeldTasksReachable' BY <1>2, <1>6 DEF HeldTasksReachable
  <1>12. RoutesMatchRegistry' BY <1>2 DEF RoutesMatchRegistry, Capacity
  <1>. QED BY <1>7, <1>8, <1>9, <1>10, <1>11, <1>12

\* The end of a call, whatever its outcome, with the requests left on their way.
LEMMA ConcludeStep ==
  ASSUME Inv, ~Idle, NEW outcome \in {"ack", "error"}, Conclude(outcome),
         inbox' \in {inbox, [inbox EXCEPT ![call.node] = @ \ {call}]}
  PROVE  Inv'
  <1>. USE DEF Inv
  <1>1. /\ call' = NoCall /\ answer' = "none"
        /\ UNCHANGED <<nextSeq, nextNode, calls, table, crashes>>
        /\ held' \subseteq held \cup {call.w}
    BY DEF Conclude
  <1>2. call \in CallType /\ call.w \in WorkIds /\ call.node \in Nodes
    BY CallFields DEF TypeOK
  <1>3. inbox' \in [Nodes -> SUBSET CallType] /\ \A n \in Nodes : inbox'[n] \subseteq inbox[n]
    <2>1. inbox \in [Nodes -> SUBSET CallType] BY DEF TypeOK
    <2>2. CASE inbox' = inbox BY <2>1, <2>2
    <2>3. CASE inbox' = [inbox EXCEPT ![call.node] = @ \ {call}] BY <2>1, <2>3, <1>2
    <2>. QED BY <2>2, <2>3
  <1>4. Idle' BY <1>1 DEF Idle
  <1>. DEFINE released == \/ call.kind = "setup" /\ outcome = "error"
                          \/ call.kind = "exit" /\ outcome = "ack"
  <1>5. /\ released => call.w \notin held'
        /\ \A w \in held' \ held :
             /\ w = call.w /\ call.kind = "setup" /\ w \in table[call.node] /\ ~released
    <2>1. released => call.w \notin held
      BY DEF SetupInv, HeldInv
    <2>2. released => held' = held BY DEF Conclude
    <2>. QED BY <2>1, <2>2 DEF Conclude
  <1>6. /\ alive' \subseteq alive /\ route' = [w \in DOMAIN route' |-> route[w]]
        /\ DOMAIN route' \subseteq DOMAIN route
        /\ DOMAIN route' = alive'
        /\ \A w \in DOMAIN route : w \in DOMAIN route' \/ (released /\ w = call.w)
    <2>1. CASE released
      <3>1. Release(call.w) BY <2>1 DEF Conclude
      <3>. QED BY <2>1, <3>1 DEF Release, RoutesMatchRegistry
    <2>2. CASE ~released
      <3>1. UNCHANGED <<route, alive>> BY <2>2 DEF Conclude
      <3>. QED BY <3>1 DEF RoutesMatchRegistry, TypeOK
    <2>. QED BY <2>1, <2>2
  <1>7. TypeOK'
    <2>1. IsFiniteSet(alive') BY <1>6, FS_Subset DEF TypeOK
    <2>2. alive' \subseteq WorkIds BY <1>6 DEF TypeOK
    <2>3. DOMAIN route' \subseteq WorkIds BY <1>6 DEF TypeOK
    <2>4. route' \in [DOMAIN route' -> Nodes] BY <1>6 DEF TypeOK
    <2>5. held' \subseteq WorkIds BY <1>1, <1>2 DEF TypeOK
    <2>. QED BY <1>1, <1>3, <2>1, <2>2, <2>3, <2>4, <2>5, NoCallTyped DEF TypeOK
  <1>8. RoutesMatchRegistry'
    <2>1. Cardinality(alive') <= Cardinality(alive) /\ Cardinality(alive') \in Nat
      BY <1>6, FS_Subset, FS_CardinalityType DEF TypeOK
    <2>2. Cardinality(alive) \in Nat /\ Capacity \in Nat
      BY FS_CardinalityType DEF TypeOK, Capacity, DefaultMaxTasks
    <2>3. Cardinality(alive) <= Capacity BY DEF RoutesMatchRegistry
    <2>4. Cardinality(alive') <= Capacity BY <2>1, <2>2, <2>3
    <2>. QED BY <1>6, <2>4 DEF RoutesMatchRegistry, Capacity, DefaultMaxTasks
  <1>9. SiteInv'
    <2>1. ASSUME NEW n \in Nodes, NEW w \in WorkIds, Concerns(n, w)'
          PROVE  Concerns(n, w)
      <3>1. CASE (w \in table[n])' BY <3>1, <1>1 DEF Concerns
      <3>2. CASE (\E r \in inbox[n] : r.w = w)' BY <3>2, <1>3 DEF Concerns
      <3>3. CASE (w \in DOMAIN route /\ route[w] = n)' BY <3>3, <1>6 DEF Concerns
      <3>. QED BY <2>1, <3>1, <3>2, <3>3, <1>4 DEF Concerns
    <2>. QED BY <2>1, <1>1, SitesShrink
  <1>10. HeldTasksReachable'
    <2>. SUFFICES ASSUME NEW w \in held'
                  PROVE  w \in DOMAIN route' /\ w \in table[route'[w]]
      BY <1>1 DEF HeldTasksReachable
    <2>1. w \in DOMAIN route /\ w \in table[route[w]]
      <3>1. CASE w \in held BY <3>1 DEF HeldTasksReachable
      <3>2. CASE w \notin held BY <3>2, <1>5 DEF SetupInv
      <3>. QED BY <3>1, <3>2
    <2>2. w \in DOMAIN route' BY <2>1, <1>5, <1>6
    <2>. QED BY <2>1, <2>2, <1>6
  <1>11. HeldInv'
    <2>. SUFFICES ASSUME NEW w \in held', NEW n \in Nodes, NEW r \in inbox'[n], r.w = w
                  PROVE  r.kind # "exit"
      BY <1>4 DEF HeldInv
    <2>1. r \in inbox[n] BY <1>3
    <2>2. CASE w \in held BY <2>1, <2>2 DEF HeldInv
    <2>3. CASE w \notin held BY <2>1, <2>3, <1>5 DEF SetupInv
    <2>. QED BY <2>2, <2>3
  <1>12. SetupInv' BY <1>4 DEF SetupInv
  <1>. QED BY <1>7, <1>8, <1>9, <1>10, <1>11, <1>12

\* A node that takes a request: the manager and what clients hold stay.
LEMMA NodeStep ==
  ASSUME Inv, NEW n \in Nodes, NEW r \in inbox[n],
         inbox' = [inbox EXCEPT ![n] = @ \ {r}],
         answer' \in {"none", "ack", "error"},
         UNCHANGED <<manager, call, calls, crashes, held>>,
         \/ table' = table
         \/ table' = [table EXCEPT ![n] = @ \cup {r.w}]
         \/ r.kind = "exit" /\ table' = [table EXCEPT ![n] = @ \ {r.w}]
  PROVE  Inv'
  <1>. USE DEF Inv
  <1>1. r \in CallType /\ r.w \in WorkIds BY CallFields DEF TypeOK
  <1>2. inbox' \in [Nodes -> SUBSET CallType] /\ \A m \in Nodes : inbox'[m] \subseteq inbox[m]
    BY DEF TypeOK
  <1>3. table' \in [Nodes -> SUBSET WorkIds]
    BY <1>1 DEF TypeOK
  <1>4. \A m \in Nodes : \A w \in table'[m] : w \in table[m] \/ (m = n /\ w = r.w)
    BY DEF TypeOK
  <1>5. \A m \in Nodes : \A w \in table[m] : w \in table'[m] \/ (r.kind = "exit" /\ w = r.w)
    BY DEF TypeOK
  <1>6. TypeOK' BY <1>2, <1>3 DEF TypeOK, manager
  <1>7. SiteInv'
    <2>1. ASSUME NEW m \in Nodes, NEW w \in WorkIds, Concerns(m, w)'
          PROVE  Concerns(m, w)
      <3>1. CASE (w \in table[m])' BY <3>1, <1>4 DEF Concerns
      <3>2. CASE (\E q \in inbox[m] : q.w = w)' BY <3>2, <1>2 DEF Concerns
      <3>3. CASE (w \in DOMAIN route /\ route[w] = m)' BY <3>3 DEF Concerns, manager
      <3>4. CASE (~Idle /\ call.w = w /\ call.node = m)' BY <3>4 DEF Concerns, Idle
      <3>. QED BY <2>1, <3>1, <3>2, <3>3, <3>4 DEF Concerns
    <2>. QED BY <2>1, SitesShrink DEF manager
  <1>8. HeldTasksReachable'
    <2>. SUFFICES ASSUME NEW w \in held
                  PROVE  w \in DOMAIN route /\ w \in table'[route[w]]
      BY DEF HeldTasksReachable, manager
    <2>1. w \in DOMAIN route /\ w \in table[route[w]] BY DEF HeldTasksReachable
    <2>2. route[w] \in Nodes BY <2>1 DEF TypeOK
    <2>3. ~(r.kind = "exit" /\ w = r.w) BY DEF HeldInv
    <2>. QED BY <2>1, <2>2, <2>3, <1>5
  <1>9. SetupInv' BY <1>2 DEF SetupInv, Idle, manager
  <1>10. HeldInv' BY <1>2 DEF HeldInv, Idle
  <1>11. RoutesMatchRegistry' BY DEF RoutesMatchRegistry, Capacity, manager
  <1>. QED BY <1>6, <1>7, <1>8, <1>9, <1>10, <1>11

LEMMA CrashStep == ASSUME Inv, NEW n \in Nodes, NodeCrash(n) PROVE Inv'
  <1>. USE DEF Inv
  <1>1. /\ table' = [table EXCEPT ![n] = {}] /\ inbox' = [inbox EXCEPT ![n] = {}]
        /\ held' = held \ table[n] /\ crashes' = crashes + 1
        /\ UNCHANGED <<manager, call, answer, calls>>
    BY DEF NodeCrash
  <1>2. /\ inbox' \in [Nodes -> SUBSET CallType] /\ table' \in [Nodes -> SUBSET WorkIds]
        /\ \A m \in Nodes : inbox'[m] \subseteq inbox[m] /\ table'[m] \subseteq table[m]
        /\ \A m \in Nodes : m # n => table'[m] = table[m]
    BY <1>1 DEF TypeOK
  <1>3. TypeOK' BY <1>1, <1>2 DEF TypeOK, manager
  <1>4. SiteInv'
    <2>1. ASSUME NEW m \in Nodes, NEW w \in WorkIds, Concerns(m, w)'
          PROVE  Concerns(m, w)
      BY <2>1, <1>1, <1>2 DEF Concerns, Idle, manager
    <2>. QED BY <2>1, <1>1, SitesShrink DEF manager
  <1>5. HeldTasksReachable'
    <2>. SUFFICES ASSUME NEW w \in held, w \notin table[n]
                  PROVE  w \in DOMAIN route /\ w \in table'[route[w]]
      BY <1>1 DEF HeldTasksReachable, manager
    <2>1. w \in DOMAIN route /\ w \in table[route[w]] BY DEF HeldTasksReachable
    <2>2. route[w] \in Nodes /\ route[w] # n BY <2>1 DEF TypeOK
    <2>. QED BY <2>1, <2>2, <1>2
  <1>6. SetupInv' BY <1>1, <1>2 DEF SetupInv, Idle, manager
  <1>7. HeldInv' BY <1>1, <1>2 DEF HeldInv, Idle
  <1>8. RoutesMatchRegistry' BY <1>1 DEF RoutesMatchRegistry, Capacity, manager
  <1>. QED BY <1>3, <1>4, <1>5, <1>6, <1>7, <1>8

-----------------------------------------------------------------------------
(* The theorems *)

LEMMA InvInductive == Inv /\ [Next]_vars => Inv'
  <1>. SUFFICES ASSUME Inv, [Next]_vars PROVE Inv' OBVIOUS
  <1>1. CASE Exhausted BY <1>1, RefuseStep DEF Exhausted, Serve
  <1>2. CASE Setup BY <1>2, SetupStep
  <1>3. CASE NotExist BY <1>3, RefuseStep DEF NotExist, Serve
  <1>4. CASE Relay BY <1>4, RelayStep
  <1>5. CASE Answered
    <2>1. answer \in {"ack", "error"} BY <1>5 DEF Answered, Inv, TypeOK
    <2>. QED BY <2>1, <1>5, ConcludeStep DEF Answered
  <1>6. CASE TimedOut BY <1>6, ConcludeStep DEF TimedOut
  <1>7. ASSUME NEW n \in Nodes, NodeSetup(n) PROVE Inv'
    <2>1. PICK r \in inbox[n] :
            /\ inbox' = [inbox EXCEPT ![n] = @ \ {r}]
            /\ \/ table' = [table EXCEPT ![n] = @ \cup {r.w}] /\ AnswerTo(r, "ack")
               \/ table' = table /\ AnswerTo(r, "error")
      BY <1>7 DEF NodeSetup, Takes
    <2>2. answer' \in {"none", "ack", "error"} BY <2>1 DEF AnswerTo, Inv, TypeOK
    <2>3. UNCHANGED <<manager, call, calls, crashes, held>> BY <1>7 DEF NodeSetup
    <2>. QED BY <2>1, <2>2, <2>3, NodeStep
  <1>8. ASSUME NEW n \in Nodes, NodeServes(n) PROVE Inv'
    <2>1. PICK r \in inbox[n], result \in {"ack", "error"} :
            inbox' = [inbox EXCEPT ![n] = @ \ {r}] /\ AnswerTo(r, result)
      BY <1>8 DEF NodeServes, Takes
    <2>2. answer' \in {"none", "ack", "error"} BY <2>1 DEF AnswerTo, Inv, TypeOK
    <2>3. UNCHANGED <<manager, call, calls, crashes, held>> /\ table' = table
      BY <1>8 DEF NodeServes
    <2>. QED BY <2>1, <2>2, <2>3, NodeStep
  <1>9. ASSUME NEW n \in Nodes, NodeExit(n) PROVE Inv'
    <2>1. PICK r \in inbox[n] :
            /\ inbox' = [inbox EXCEPT ![n] = @ \ {r}] /\ r.kind = "exit"
            /\ table' = [table EXCEPT ![n] = @ \ {r.w}]
            /\ AnswerTo(r, IF r.w \in table[n] THEN "ack" ELSE "error")
      BY <1>9 DEF NodeExit, Takes
    <2>2. answer' \in {"none", "ack", "error"} BY <2>1 DEF AnswerTo, Inv, TypeOK
    <2>3. UNCHANGED <<manager, call, calls, crashes, held>> BY <1>9 DEF NodeExit
    <2>. QED BY <2>1, <2>2, <2>3, NodeStep
  <1>10. ASSUME NEW n \in Nodes, NodeCrash(n) PROVE Inv' BY <1>10, CrashStep
  <1>11. CASE UNCHANGED vars
    <2>1. TypeOK' BY <1>11 DEF vars, manager, Inv, TypeOK
    <2>2. SiteInv' BY <1>11 DEF vars, manager, Inv, SiteInv, Concerns, Idle
    <2>3. SetupInv' /\ HeldInv' BY <1>11 DEF vars, manager, Inv, SetupInv, HeldInv, Idle
    <2>. QED BY <1>11, <2>1, <2>2, <2>3
            DEF vars, manager, Inv, RoutesMatchRegistry, HeldTasksReachable, Capacity
  <1>. QED BY <1>1, <1>2, <1>3, <1>4, <1>5, <1>6, <1>7, <1>8, <1>9, <1>10, <1>11 DEF Next

\* Inv holds in every reachable state, on which the other theorems rest.
THEOREM Invariance == Spec => []Inv
  BY InitInv, InvInductive, PTL DEF Spec

\* Every variable keeps its type.
THEOREM TypeCorrect == Spec => []TypeOK
  <1>1. Inv => TypeOK BY DEF Inv
  <1>. QED BY <1>1, Invariance, PTL

\* The routing table and the registry never disagree nor outgrow the capacity.
THEOREM RoutesAndRegistryAgree == Spec => []RoutesMatchRegistry
  <1>1. Inv => RoutesMatchRegistry BY DEF Inv
  <1>. QED BY <1>1, Invariance, PTL

\* The registry never gives out a work_id anything still remembers, and no
\* task is ever set up on two nodes.
THEOREM WorkIdsStayUnique == Spec => []WorkIdsNameOneTask
  <1>1. Inv => WorkIdsNameOneTask
    BY InvImpliesFresh, InvImpliesOneNode DEF WorkIdsNameOneTask
  <1>. QED BY <1>1, Invariance, PTL

\* An acknowledged task stays routed to the node that has it.
THEOREM HeldTasksStay == Spec => []HeldTasksReachable
  <1>1. Inv => HeldTasksReachable BY DEF Inv
  <1>. QED BY <1>1, Invariance, PTL

=============================================================================
