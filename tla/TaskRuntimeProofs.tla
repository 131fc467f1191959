------------------------- MODULE TaskRuntimeProofs -------------------------
(***************************************************************************)
(* The safety of the task runtime, for any number of threads, tasks and    *)
(* calls, with either way of setting tasks up and a factory that throws.   *)
(***************************************************************************)
EXTENDS TaskRuntime, FiniteSetTheorems, TLAPS

\* Calls under way know their channel, and one that has only found it has not
\* been asked anything.
CallsInv ==
  \A t \in Callers :
    /\ pc[t].at # "idle" => pc[t].ch \in DOMAIN chans
    /\ pc[t].at \in {"idle", "found"} => ~pc[t].asked
    /\ pc[t].at # "finish" => pc[t].result = "none"

\* The table names the live channels, each by the name it has.
NamesInv ==
  /\ \A id \in DOMAIN table : chans[table[id]].id = id /\ chans[table[id]].state # "terminated"
  /\ \A k \in DOMAIN chans : chans[k].state # "terminated" =>
       chans[k].id \in DOMAIN table /\ table[chans[k].id] = k

\* The inference on a channel is the one it has in flight; after a backend that
\* threw there is none, and the channel is not ready.
StreamInv ==
  \A k \in DOMAIN chans :
    /\ \A t \in Callers : Running(t, k) =>
         chans[k].inFlight = t /\ chans[k].state # "ready" /\ ~chans[k].thrown
    /\ chans[k].thrown => chans[k].state # "ready"
    /\ chans[k].state = "busy" /\ ~chans[k].thrown =>
         chans[k].inFlight \in Callers /\ Running(chans[k].inFlight, k)

\* The flag of a channel is up if and only if its inference was asked to stop.
SignalInv ==
  \A t \in Callers :
    /\ pc[t].at = "infer" => (pc[t].asked <=> chans[pc[t].ch].flag)
    /\ pc[t].result = "cancelled" => pc[t].asked

\* The registry and the table, whichever of the two setups fill them.
BookInv ==
  /\ IsFiniteSet(alive) /\ Cardinality(alive) <= Capacity
  /\ IsFiniteSet(DOMAIN table)
  /\ "setup_with" \notin apis => DOMAIN table \subseteq alive
  /\ "setup" \notin apis => Cardinality(DOMAIN table) <= Capacity
  /\ apis = {"setup"} /\ ~threw => alive = DOMAIN table
  /\ apis # {}

Inv == TypeOK /\ CallsInv /\ NamesInv /\ StreamInv /\ SignalInv /\ BookInv

USE TaskRuntimeAssumption

-----------------------------------------------------------------------------
(* Lemmas *)

LEMMA IdleCall == Idle \in CallType /\ Idle.at = "idle" /\ ~Idle.asked /\ Idle.result = "none"
  BY DEF Idle, CallType

LEMMA CapacityIsNat == Capacity \in Nat
  BY DEF Capacity, DefaultMaxTasks

LEMMA NewChannelType ==
  ASSUME NEW id \in Nat
  PROVE  /\ NewChannel(id) \in ChannelType /\ NewChannel(id).id = id
         /\ NewChannel(id).state = "ready" /\ ~NewChannel(id).thrown
  BY DEF NewChannel, ChannelType

LEMMA CallBegins ==
  ASSUME TypeOK, NEW t \in Callers, Calls(t)
  PROVE  pc[t] = Idle /\ ops' \in Nat
  <1>1. ops \in Nat BY DEF TypeOK
  <1> QED BY <1>1 DEF Calls

\* What a step that changes neither the channels nor any call keeps.
LEMMA Untouched ==
  ASSUME CallsInv, NamesInv, StreamInv, SignalInv, UNCHANGED <<table, chans, pc>>
  PROVE  CallsInv' /\ NamesInv' /\ StreamInv' /\ SignalInv'
  BY DEF CallsInv, NamesInv, StreamInv, SignalInv, Running

\* Entering a task keeps everything but the books.
LEMMA EnterKeeps ==
  ASSUME Inv, NEW id \in Nat, Enter(id), UNCHANGED pc
  PROVE  /\ chans' \in Seq(ChannelType)
         /\ DOMAIN table' \subseteq Nat /\ table' \in [DOMAIN table' -> DOMAIN chans']
         /\ CallsInv' /\ NamesInv' /\ StreamInv' /\ SignalInv'
         /\ DOMAIN table' = DOMAIN table \cup {id}
  <1>0. TypeOK BY DEF Inv
  <1>1. CASE id \in DOMAIN table
    <2>1. UNCHANGED <<table, chans, pc>> BY <1>1 DEF Enter
    <2>2. CallsInv' /\ NamesInv' /\ StreamInv' /\ SignalInv' BY <2>1, Untouched DEF Inv
    <2> QED BY <1>0, <1>1, <2>1, <2>2 DEF TypeOK
  <1>2. CASE id \notin DOMAIN table
    <2> DEFINE n == Len(chans) + 1
    <2>1. /\ chans' = Append(chans, NewChannel(id))
          /\ table' = [i \in DOMAIN table \cup {id} |-> IF i = id THEN n ELSE table[i]]
      BY <1>2 DEF Enter
    <2>2. /\ chans' \in Seq(ChannelType) /\ DOMAIN chans' = 1..n /\ DOMAIN chans = 1..(n - 1)
          /\ chans'[n] = NewChannel(id) /\ n \in Nat
          /\ \A k \in DOMAIN chans : chans'[k] = chans[k] /\ k \in DOMAIN chans' /\ k # n
      BY <1>0, <2>1, NewChannelType DEF TypeOK
    <2> HIDE DEF n
    <2>3. DOMAIN table' = DOMAIN table \cup {id} BY <2>1
    <2>4. DOMAIN table' \subseteq Nat /\ table' \in [DOMAIN table' -> DOMAIN chans']
      <3>1. \A i \in DOMAIN table' : table'[i] \in DOMAIN chans'
        BY <1>0, <2>1, <2>2, <2>3 DEF TypeOK
      <3> QED BY <1>0, <2>1, <2>3, <3>1 DEF TypeOK
    <2>5. CallsInv' BY <2>2 DEF CallsInv, Inv
    <2>6. NamesInv'
      <3>1. \A i \in DOMAIN table' :
              chans'[table'[i]].id = i /\ chans'[table'[i]].state # "terminated"
        <4> SUFFICES ASSUME NEW i \in DOMAIN table'
                     PROVE  chans'[table'[i]].id = i /\ chans'[table'[i]].state # "terminated"
          OBVIOUS
        <4>1. CASE i = id BY <4>1, <2>1, <2>2, NewChannelType
        <4>2. CASE i # id
          <5>1. i \in DOMAIN table /\ table'[i] = table[i] /\ table[i] \in DOMAIN chans
            BY <4>2, <2>1, <2>3, <1>0 DEF TypeOK
          <5> QED BY <5>1, <2>2 DEF Inv, NamesInv
        <4> QED BY <4>1, <4>2
      <3>2. \A k \in DOMAIN chans' : chans'[k].state # "terminated" =>
              chans'[k].id \in DOMAIN table' /\ table'[chans'[k].id] = k
        <4> SUFFICES ASSUME NEW k \in DOMAIN chans', chans'[k].state # "terminated"
                     PROVE  chans'[k].id \in DOMAIN table' /\ table'[chans'[k].id] = k
          OBVIOUS
        <4>1. CASE k = n BY <4>1, <2>1, <2>2, <2>3, NewChannelType
        <4>2. CASE k # n
          <5>1. k \in DOMAIN chans /\ chans'[k] = chans[k] BY <4>2, <2>2
          <5>2. chans[k].id \in DOMAIN table /\ table[chans[k].id] = k
            BY <5>1 DEF Inv, NamesInv
          <5> QED BY <5>1, <5>2, <1>2, <2>1, <2>3
        <4> QED BY <4>1, <4>2
      <3> QED BY <3>1, <3>2 DEF NamesInv
    <2>7. StreamInv'
      <3> SUFFICES ASSUME NEW k \in DOMAIN chans'
                   PROVE  /\ \A t \in Callers : Running(t, k)' =>
                               /\ chans'[k].inFlight = t /\ chans'[k].state # "ready"
                               /\ ~chans'[k].thrown
                          /\ chans'[k].thrown => chans'[k].state # "ready"
                          /\ chans'[k].state = "busy" /\ ~chans'[k].thrown =>
                               chans'[k].inFlight \in Callers /\ Running(chans[k].inFlight, k)'
        BY NewChannelType, <2>2 DEF StreamInv
      <3>1. CASE k = n
        <4>1. \A t \in Callers : ~Running(t, k)'
          BY <3>1, <2>2 DEF Running, Inv, CallsInv
        <4> QED BY <4>1, <3>1, <2>2, NewChannelType
      <3>2. CASE k # n
        <4>1. k \in DOMAIN chans /\ chans'[k] = chans[k] BY <3>2, <2>2
        <4> QED BY <4>1 DEF Inv, StreamInv, Running
      <3> QED BY <3>1, <3>2
    <2>8. SignalInv' BY <2>2 DEF Inv, SignalInv, CallsInv
    <2> QED BY <2>2, <2>3, <2>4, <2>5, <2>6, <2>7, <2>8
  <1> QED BY <1>1, <1>2

-----------------------------------------------------------------------------
(* Steps on one channel k, which keep the table and the registry *)

\* What such a step keeps by leaving the other channels, and the name and the
\* end of this one, as they are.
LEMMA ChannelKeepsTable ==
  ASSUME Inv, OnlyChannel, UNCHANGED apis, NEW k \in DOMAIN chans, NEW c \in ChannelType,
         chans' = [chans EXCEPT ![k] = c],
         c.id = chans[k].id, c.state = "terminated" <=> chans[k].state = "terminated",
         pc' \in [Callers -> CallType]
  PROVE  /\ TypeOK' /\ NamesInv' /\ BookInv'
         /\ DOMAIN chans' = DOMAIN chans
  <1>1. /\ chans' \in Seq(ChannelType) /\ DOMAIN chans' = DOMAIN chans
        /\ chans'[k] = c /\ \A j \in DOMAIN chans : j # k => chans'[j] = chans[j]
    BY DEF Inv, TypeOK
  <1>2. TypeOK' BY <1>1 DEF Inv, TypeOK, OnlyChannel, registry
  <1>3. NamesInv'
    <2>1. \A id \in DOMAIN table : table[id] \in DOMAIN chans BY DEF Inv, TypeOK
    <2>2. \A j \in DOMAIN chans : /\ chans'[j].id = chans[j].id
                                  /\ chans'[j].state = "terminated" <=> chans[j].state = "terminated"
      BY <1>1
    <2> QED BY <1>1, <2>1, <2>2 DEF Inv, NamesInv, OnlyChannel
  <1>4. BookInv' BY DEF Inv, BookInv, OnlyChannel, registry, Capacity
  <1> QED BY <1>1, <1>2, <1>3, <1>4

LEMMA RefuseKeeps ==
  ASSUME Inv, NEW t \in Callers, RefuseInference(t), UNCHANGED apis
  PROVE  Inv'
  <1>1. /\ pc' = [pc EXCEPT ![t] = Idle] /\ UNCHANGED chans
        /\ UNCHANGED <<registry, table, ops, threw, apis>> /\ pc[t].at = "found"
    BY DEF RefuseInference, Returns, OnlyChannel, Found
  <1>2. TypeOK' BY <1>1, IdleCall DEF Inv, TypeOK, registry
  <1>3. pc'[t] = Idle /\ \A u \in Callers : u # t => pc'[u] = pc[u]
    BY <1>1 DEF Inv, TypeOK
  <1>4. CallsInv' /\ SignalInv' BY <1>1, <1>3, IdleCall DEF Inv, CallsInv, SignalInv
  <1>5. \A u \in Callers : \A k \in DOMAIN chans : Running(u, k)' <=> Running(u, k)
    BY <1>1, <1>3, IdleCall DEF Running
  <1>6. StreamInv' BY <1>1, <1>5 DEF Inv, StreamInv, Running
  <1>7. NamesInv' /\ BookInv' BY <1>1 DEF Inv, NamesInv, BookInv, registry, Capacity
  <1> QED BY <1>2, <1>4, <1>6, <1>7 DEF Inv

LEMMA StartKeeps ==
  ASSUME Inv, NEW t \in Callers, StartInference(t), UNCHANGED apis
  PROVE  Inv'
  <1> DEFINE k == pc[t].ch
             c == [chans[k] EXCEPT !.state = "busy", !.inFlight = t, !.flag = FALSE]
  <1>1. /\ k \in DOMAIN chans /\ chans[k] \in ChannelType /\ pc[t] \in CallType
        /\ pc[t].at = "found" /\ chans[k].state = "ready"
    BY DEF StartInference, Found, Channel, Inv, TypeOK, CallsInv
  <1>2. /\ c \in ChannelType /\ c.id = chans[k].id /\ c.state = "busy"
        /\ c.inFlight = t /\ ~c.flag /\ c.thrown = chans[k].thrown
    BY <1>1 DEF ChannelType
  <1>3. chans' = [chans EXCEPT ![k] = c] BY <1>1 DEF StartInference, Inv, TypeOK, ChannelType
  <1>4. /\ pc' \in [Callers -> CallType]
        /\ pc'[t] = [pc[t] EXCEPT !.at = "infer"]
        /\ \A u \in Callers : u # t => pc'[u] = pc[u]
    BY <1>1 DEF StartInference, Inv, TypeOK, CallType
  <1>5. /\ chans'[k] = c /\ \A j \in DOMAIN chans : j # k => chans'[j] = chans[j]
    BY <1>1, <1>3 DEF Inv, TypeOK
  <1>6. OnlyChannel BY DEF StartInference
  <1> HIDE DEF c
  <1>7. TypeOK' /\ NamesInv' /\ BookInv' /\ DOMAIN chans' = DOMAIN chans
    BY <1>1, <1>2, <1>3, <1>4, <1>6, ChannelKeepsTable
  <1>8. /\ pc'[t].at = "infer" /\ pc'[t].ch = k /\ ~pc'[t].asked /\ pc'[t].result = "none"
    BY <1>1, <1>4 DEF CallType, Inv, CallsInv
  <1>9. CallsInv' BY <1>1, <1>4, <1>7, <1>8 DEF Inv, CallsInv
  <1>10. \A u \in Callers : ~Running(u, k) BY <1>1 DEF Inv, StreamInv
  <1>11. StreamInv'
    <2>1. \A u \in Callers : \A j \in DOMAIN chans : u # t => (Running(u, j)' <=> Running(u, j))
      BY <1>4 DEF Running
    <2>2. \A j \in DOMAIN chans : Running(t, j)' <=> j = k BY <1>8 DEF Running
    <2>3. \A j \in DOMAIN chans : ~Running(t, j) BY <1>1 DEF Running
    <2> SUFFICES ASSUME NEW j \in DOMAIN chans
                 PROVE  /\ \A u \in Callers : Running(u, j)' =>
                             /\ chans'[j].inFlight = u /\ chans'[j].state # "ready"
                             /\ ~chans'[j].thrown
                        /\ chans'[j].thrown => chans'[j].state # "ready"
                        /\ chans'[j].state = "busy" /\ ~chans'[j].thrown =>
                             \E u \in Callers : chans'[j].inFlight = u /\ Running(u, j)'
      BY <1>7 DEF StreamInv, Running
    <2>4. CASE j = k
      <3>1. ~chans[k].thrown \/ chans[k].state # "ready" BY <1>1 DEF Inv, StreamInv
      <3> QED BY <2>4, <3>1, <1>1, <1>2, <1>5, <1>10, <2>1, <2>2
    <2>5. CASE j # k BY <2>5, <1>5, <2>1, <2>2, <2>3 DEF Inv, StreamInv
    <2> QED BY <2>4, <2>5
  <1>12. SignalInv'
    <2> SUFFICES ASSUME NEW u \in Callers
                 PROVE  /\ pc'[u].at = "infer" => (pc'[u].asked <=> chans'[pc'[u].ch].flag)
                        /\ pc'[u].result = "cancelled" => pc'[u].asked
      BY DEF SignalInv
    <2>1. CASE u = t BY <2>1, <1>2, <1>5, <1>8
    <2>2. CASE u # t
      <3>1. pc'[u] = pc[u] BY <2>2, <1>4
      <3>2. pc[u].at = "infer" => pc[u].ch # k /\ pc[u].ch \in DOMAIN chans
        BY <1>10 DEF Running, Inv, CallsInv
      <3> QED BY <3>1, <3>2, <1>5 DEF Inv, SignalInv
    <2> QED BY <2>1, <2>2
  <1> QED BY <1>7, <1>9, <1>11, <1>12 DEF Inv

LEMMA BackendKeeps ==
  ASSUME Inv, NEW t \in Callers, BackendReturns(t), UNCHANGED apis
  PROVE  Inv'
  <1>1. PICK result \in {"ok", "timeout"} \cup (IF Channel(t).flag THEN {"cancelled"} ELSE {}) :
          pc' = [pc EXCEPT ![t].at = "finish", ![t].result = result]
    BY DEF BackendReturns
  <1>2. /\ UNCHANGED <<registry, table, ops, threw, apis, chans>> /\ pc[t].at = "infer"
        /\ pc[t] \in CallType
    BY DEF BackendReturns, OnlyChannel, Inv, TypeOK
  <1>3. /\ pc' \in [Callers -> CallType]
        /\ pc'[t].at = "finish" /\ pc'[t].ch = pc[t].ch /\ pc'[t].asked = pc[t].asked
        /\ pc'[t].result = result
        /\ \A u \in Callers : u # t => pc'[u] = pc[u]
    BY <1>1, <1>2 DEF Inv, TypeOK, CallType
  <1>4. TypeOK' BY <1>2, <1>3 DEF Inv, TypeOK, registry
  <1>5. result = "cancelled" => pc[t].asked
    BY <1>1, <1>2 DEF Channel, Inv, SignalInv
  <1>6. CallsInv' /\ SignalInv'
    BY <1>2, <1>3, <1>5 DEF Inv, CallsInv, SignalInv
  <1>7. \A u \in Callers : \A k \in DOMAIN chans : Running(u, k)' <=> Running(u, k)
    BY <1>2, <1>3 DEF Running
  <1>8. StreamInv' BY <1>2, <1>7 DEF Inv, StreamInv, Running
  <1>9. NamesInv' /\ BookInv' BY <1>2 DEF Inv, NamesInv, BookInv, registry, Capacity
  <1> QED BY <1>4, <1>6, <1>8, <1>9 DEF Inv

LEMMA ThrowKeeps ==
  ASSUME Inv, NEW t \in Callers, BackendThrows(t), UNCHANGED apis
  PROVE  Inv'
  <1> DEFINE k == pc[t].ch
             c == [chans[k] EXCEPT !.thrown = TRUE]
  <1>1. /\ k \in DOMAIN chans /\ chans[k] \in ChannelType /\ pc[t].at = "infer"
        /\ OnlyChannel
    BY DEF BackendThrows, Inv, TypeOK, CallsInv
  <1>2. /\ c \in ChannelType /\ c.id = chans[k].id /\ c.state = chans[k].state
        /\ c.inFlight = chans[k].inFlight /\ c.flag = chans[k].flag /\ c.thrown
    BY <1>1 DEF ChannelType
  <1>3. chans' = [chans EXCEPT ![k] = c] BY <1>1 DEF BackendThrows, Inv, TypeOK, ChannelType
  <1>4. /\ pc' \in [Callers -> CallType] /\ pc'[t] = Idle
        /\ \A u \in Callers : u # t => pc'[u] = pc[u]
    BY IdleCall DEF BackendThrows, Returns, Inv, TypeOK
  <1>5. /\ chans'[k] = c /\ \A j \in DOMAIN chans : j # k => chans'[j] = chans[j]
    BY <1>1, <1>3 DEF Inv, TypeOK
  <1> HIDE DEF c
  <1>6. TypeOK' /\ NamesInv' /\ BookInv' /\ DOMAIN chans' = DOMAIN chans
    BY <1>1, <1>2, <1>3, <1>4, ChannelKeepsTable
  <1>7. CallsInv' BY <1>4, <1>6, IdleCall DEF Inv, CallsInv
  <1>8. Running(t, k) /\ \A u \in Callers : Running(u, k) => u = t
    BY <1>1 DEF Inv, StreamInv, Running
  <1>9. StreamInv'
    <2>1. \A u \in Callers : \A j \in DOMAIN chans : u # t => (Running(u, j)' <=> Running(u, j))
      BY <1>4 DEF Running
    <2>2. \A j \in DOMAIN chans : ~Running(t, j)' BY <1>4, IdleCall DEF Running
    <2>3. \A j \in DOMAIN chans : Running(t, j) => j = k BY DEF Running
    <2> SUFFICES ASSUME NEW j \in DOMAIN chans
                 PROVE  /\ \A u \in Callers : Running(u, j)' =>
                             /\ chans'[j].inFlight = u /\ chans'[j].state # "ready"
                             /\ ~chans'[j].thrown
                        /\ chans'[j].thrown => chans'[j].state # "ready"
                        /\ chans'[j].state = "busy" /\ ~chans'[j].thrown =>
                             \E u \in Callers : chans'[j].inFlight = u /\ Running(u, j)'
      BY <1>6 DEF StreamInv, Running
    <2>4. CASE j = k
      <3>1. chans[k].state # "ready" BY <1>1, <1>8 DEF Inv, StreamInv
      <3>2. \A u \in Callers : ~Running(u, j)' BY <2>4, <1>8, <2>1, <2>2
      <3> QED BY <2>4, <3>1, <3>2, <1>2, <1>5
    <2>5. CASE j # k BY <2>5, <1>5, <2>1, <2>2, <2>3 DEF Inv, StreamInv
    <2> QED BY <2>4, <2>5
  <1>10. SignalInv'
    <2> SUFFICES ASSUME NEW u \in Callers
                 PROVE  /\ pc'[u].at = "infer" => (pc'[u].asked <=> chans'[pc'[u].ch].flag)
                        /\ pc'[u].result = "cancelled" => pc'[u].asked
      BY DEF SignalInv
    <2>1. CASE u = t BY <2>1, <1>4, IdleCall
    <2>2. CASE u # t
      <3>1. pc'[u] = pc[u] BY <2>2, <1>4
      <3>2. pc[u].at = "infer" => pc[u].ch \in DOMAIN chans BY DEF Inv, CallsInv
      <3> QED BY <3>1, <3>2, <1>2, <1>5 DEF Inv, SignalInv
    <2> QED BY <2>1, <2>2
  <1> QED BY <1>6, <1>7, <1>9, <1>10 DEF Inv

\* The channel e after its inference.
Finished(e) ==
  IF e.state = "terminated" THEN [e EXCEPT !.count = @ + 1]
  ELSE [e EXCEPT !.count = @ + 1, !.state = "ready", !.inFlight = "nobody"]

LEMMA FinishedChannel ==
  ASSUME NEW e \in ChannelType
  PROVE  /\ Finished(e) \in ChannelType /\ Finished(e).id = e.id
         /\ Finished(e).flag = e.flag /\ Finished(e).thrown = e.thrown
         /\ e.state = "terminated" =>
              Finished(e).state = "terminated" /\ Finished(e).inFlight = e.inFlight
         /\ e.state # "terminated" => Finished(e).state = "ready"
  <1>1. CASE e.state = "terminated" BY <1>1 DEF Finished, ChannelType
  <1>2. CASE e.state # "terminated"
    <2>1. PICK d : d = [e EXCEPT !.count = @ + 1] OBVIOUS
    <2>2. /\ d \in ChannelType /\ d.id = e.id /\ d.flag = e.flag /\ d.thrown = e.thrown
      BY <2>1 DEF ChannelType
    <2>3. Finished(e) = [d EXCEPT !.state = "ready", !.inFlight = "nobody"]
      BY <1>2, <2>1 DEF Finished
    <2>4. /\ Finished(e) \in ChannelType /\ Finished(e).id = d.id
          /\ Finished(e).flag = d.flag /\ Finished(e).state = "ready"
          /\ Finished(e).thrown = d.thrown
      BY <2>2, <2>3 DEF ChannelType
    <2> QED BY <1>2, <2>2, <2>4
  <1> QED BY <1>1, <1>2

LEMMA FinishKeeps ==
  ASSUME Inv, NEW t \in Callers, FinishInference(t), UNCHANGED apis
  PROVE  Inv'
  <1> DEFINE k == pc[t].ch
             over == chans[k].state = "terminated"
             c == Finished(chans[k])
  <1>1. /\ k \in DOMAIN chans /\ chans[k] \in ChannelType /\ pc[t].at = "finish"
    BY DEF FinishInference, Inv, TypeOK, CallsInv
  <1>2. /\ c \in ChannelType /\ c.id = chans[k].id /\ c.flag = chans[k].flag
        /\ c.thrown = chans[k].thrown
        /\ over => c.state = "terminated" /\ c.inFlight = chans[k].inFlight
        /\ ~over => c.state = "ready"
    BY <1>1, FinishedChannel
  <1>3. chans' = [chans EXCEPT ![k] = c]
    <2>1. CASE over BY <1>1, <2>1 DEF FinishInference, Finished, Channel, Inv, TypeOK, ChannelType
    <2>2. CASE ~over BY <1>1, <2>2 DEF FinishInference, Finished, Channel, Inv, TypeOK, ChannelType
    <2> QED BY <2>1, <2>2
  <1>4. /\ pc' \in [Callers -> CallType] /\ pc'[t] = Idle
        /\ \A u \in Callers : u # t => pc'[u] = pc[u]
    BY IdleCall DEF FinishInference, Returns, Inv, TypeOK
  <1>5. /\ chans'[k] = c /\ \A j \in DOMAIN chans : j # k => chans'[j] = chans[j]
    BY <1>1, <1>3 DEF Inv, TypeOK
  <1>6. OnlyChannel BY DEF FinishInference
  <1> HIDE DEF c
  <1>7. TypeOK' /\ NamesInv' /\ BookInv' /\ DOMAIN chans' = DOMAIN chans
    BY <1>1, <1>2, <1>3, <1>4, <1>6, ChannelKeepsTable
  <1>8. CallsInv' BY <1>4, <1>7, IdleCall DEF Inv, CallsInv
  <1>9. \A u \in Callers : Running(u, k) => u = t
    BY <1>1 DEF Inv, StreamInv, Running
  <1>10. StreamInv'
    <2>1. \A u \in Callers : \A j \in DOMAIN chans : u # t => (Running(u, j)' <=> Running(u, j))
      BY <1>4 DEF Running
    <2>2. \A j \in DOMAIN chans : ~Running(t, j)' BY <1>4, IdleCall DEF Running
    <2>3. \A j \in DOMAIN chans : Running(t, j) => j = k BY DEF Running
    <2> SUFFICES ASSUME NEW j \in DOMAIN chans
                 PROVE  /\ \A u \in Callers : Running(u, j)' =>
                             /\ chans'[j].inFlight = u /\ chans'[j].state # "ready"
                             /\ ~chans'[j].thrown
                        /\ chans'[j].thrown => chans'[j].state # "ready"
                        /\ chans'[j].state = "busy" /\ ~chans'[j].thrown =>
                             \E u \in Callers : chans'[j].inFlight = u /\ Running(u, j)'
      BY <1>7 DEF StreamInv, Running
    <2>4. CASE j = k
      <3>1. ~chans[k].thrown BY <1>1 DEF Inv, StreamInv, Running
      <3>2. \A u \in Callers : ~Running(u, j)' BY <2>4, <1>9, <2>1, <2>2
      <3>3. c.state # "busy" /\ ~c.thrown BY <1>2, <3>1
      <3> QED BY <2>4, <3>2, <3>3, <1>5
    <2>5. CASE j # k BY <2>5, <1>5, <2>1, <2>2, <2>3 DEF Inv, StreamInv
    <2> QED BY <2>4, <2>5
  <1>11. SignalInv'
    <2> SUFFICES ASSUME NEW u \in Callers
                 PROVE  /\ pc'[u].at = "infer" => (pc'[u].asked <=> chans'[pc'[u].ch].flag)
                        /\ pc'[u].result = "cancelled" => pc'[u].asked
      BY DEF SignalInv
    <2>1. CASE u = t BY <2>1, <1>4, IdleCall
    <2>2. CASE u # t
      <3>1. pc'[u] = pc[u] BY <2>2, <1>4
      <3>2. pc[u].at = "infer" => pc[u].ch \in DOMAIN chans BY DEF Inv, CallsInv
      <3> QED BY <3>1, <3>2, <1>2, <1>5 DEF Inv, SignalInv
    <2> QED BY <2>1, <2>2
  <1> QED BY <1>7, <1>8, <1>10, <1>11 DEF Inv

\* Asking the inference of a channel to stop changes asked, and nothing else.
LEMMA Asked ==
  ASSUME TypeOK, NEW k \in DOMAIN chans
  PROVE  /\ Ask(k) \in [Callers -> CallType]
         /\ \A u \in Callers :
              /\ Ask(k)[u].at = pc[u].at /\ Ask(k)[u].ch = pc[u].ch
              /\ Ask(k)[u].result = pc[u].result
              /\ Ask(k)[u].asked = (pc[u].asked \/ (pc[u].at = "infer" /\ pc[u].ch = k))
  <1> SUFFICES ASSUME NEW u \in Callers
               PROVE  /\ Ask(k)[u] \in CallType
                      /\ Ask(k)[u].at = pc[u].at /\ Ask(k)[u].ch = pc[u].ch
                      /\ Ask(k)[u].result = pc[u].result
                      /\ Ask(k)[u].asked = (pc[u].asked \/ (pc[u].at = "infer" /\ pc[u].ch = k))
    BY DEF Ask
  <1>1. pc[u] \in CallType BY DEF TypeOK
  <1>2. CASE pc[u].at = "infer" /\ pc[u].ch = k BY <1>1, <1>2 DEF Ask, CallType
  <1>3. CASE ~(pc[u].at = "infer" /\ pc[u].ch = k)
    <2>1. Ask(k)[u] = pc[u] BY <1>3 DEF Ask
    <2> QED BY <1>1, <1>3, <2>1 DEF CallType
  <1> QED BY <1>2, <1>3

LEMMA CancelKeeps ==
  ASSUME Inv, NEW t \in Callers, CancelChannel(t), UNCHANGED apis
  PROVE  Inv'
  <1> DEFINE k == pc[t].ch
             c == [chans[k] EXCEPT !.flag = TRUE]
  <1>1. /\ k \in DOMAIN chans /\ chans[k] \in ChannelType
        /\ pc[t].at = "found" /\ OnlyChannel
    BY DEF CancelChannel, Found, Inv, TypeOK, CallsInv
  <1>2. CASE chans[k].state # "busy"
    <2>1. UNCHANGED chans /\ pc' = [pc EXCEPT ![t] = Idle]
      BY <1>2 DEF CancelChannel, Channel, Returns
    <2>2. /\ pc' \in [Callers -> CallType] /\ pc'[t] = Idle
          /\ \A u \in Callers : u # t => pc'[u] = pc[u]
      BY <2>1, IdleCall DEF Inv, TypeOK
    <2>3. TypeOK' /\ NamesInv' /\ BookInv'
      BY <1>1, <2>1, <2>2 DEF Inv, TypeOK, NamesInv, BookInv, OnlyChannel, registry, Capacity
    <2>4. CallsInv' /\ SignalInv' BY <2>1, <2>2, IdleCall DEF Inv, CallsInv, SignalInv
    <2>5. \A u \in Callers : \A j \in DOMAIN chans : Running(u, j)' <=> Running(u, j)
      BY <1>1, <2>2, IdleCall DEF Running
    <2>6. StreamInv' BY <2>1, <2>5 DEF Inv, StreamInv, Running
    <2> QED BY <2>3, <2>4, <2>6 DEF Inv
  <1>3. CASE chans[k].state = "busy"
    <2>1. /\ chans' = [chans EXCEPT ![k] = c] /\ pc' = [Ask(k) EXCEPT ![t] = Idle]
      BY <1>3 DEF CancelChannel, Channel
    <2>2. /\ c \in ChannelType /\ c.id = chans[k].id /\ c.state = chans[k].state
          /\ c.inFlight = chans[k].inFlight /\ c.flag /\ c.thrown = chans[k].thrown
      BY <1>1 DEF ChannelType
    <2>3. /\ pc' \in [Callers -> CallType] /\ pc'[t] = Idle
          /\ \A u \in Callers : u # t => pc'[u] = Ask(k)[u]
      BY <1>1, <2>1, IdleCall, Asked DEF Inv
    <2>4. /\ chans'[k] = c /\ \A j \in DOMAIN chans : j # k => chans'[j] = chans[j]
      BY <1>1, <2>1 DEF Inv, TypeOK
    <2> HIDE DEF c
    <2>5. TypeOK' /\ NamesInv' /\ BookInv' /\ DOMAIN chans' = DOMAIN chans
      BY <1>1, <2>1, <2>2, <2>3, ChannelKeepsTable
    <2>6. \A u \in Callers : u # t =>
            /\ pc'[u].at = pc[u].at /\ pc'[u].ch = pc[u].ch /\ pc'[u].result = pc[u].result
            /\ pc'[u].asked = (pc[u].asked \/ (pc[u].at = "infer" /\ pc[u].ch = k))
      BY <1>1, <2>3, Asked DEF Inv
    <2>7. CallsInv' BY <2>3, <2>5, <2>6, IdleCall DEF Inv, CallsInv
    <2>8. \A u \in Callers : \A j \in DOMAIN chans : Running(u, j)' <=> Running(u, j)
      BY <1>1, <2>3, <2>6, IdleCall DEF Running
    <2>9. \A j \in DOMAIN chans : /\ chans'[j].state = chans[j].state
                                  /\ chans'[j].inFlight = chans[j].inFlight
                                  /\ chans'[j].thrown = chans[j].thrown
      BY <2>2, <2>4
    <2>10. StreamInv' BY <2>5, <2>8, <2>9 DEF Inv, StreamInv, Running
    <2>11. SignalInv'
      <3> SUFFICES ASSUME NEW u \in Callers
                   PROVE  /\ pc'[u].at = "infer" => (pc'[u].asked <=> chans'[pc'[u].ch].flag)
                          /\ pc'[u].result = "cancelled" => pc'[u].asked
        BY DEF SignalInv
      <3>1. CASE u = t BY <3>1, <2>3, IdleCall
      <3>2. CASE u # t
        <4>1. pc'[u].result = "cancelled" => pc'[u].asked BY <3>2, <2>6 DEF Inv, SignalInv
        <4>2. CASE pc[u].at = "infer" /\ pc[u].ch = k
          <5>1. pc'[u].asked = TRUE /\ c.flag = TRUE BY <4>2, <3>2, <2>2, <2>6
          <5> QED BY <4>1, <4>2, <5>1, <3>2, <2>4, <2>6
        <4>3. CASE pc[u].at = "infer" /\ pc[u].ch # k
          <5>1. pc[u].ch \in DOMAIN chans /\ (pc[u].asked <=> chans[pc[u].ch].flag)
            BY <4>3 DEF Inv, CallsInv, SignalInv
          <5>2. pc'[u].asked <=> pc[u].asked BY <4>3, <3>2, <2>6
          <5> QED BY <4>1, <4>3, <5>1, <5>2, <3>2, <2>4, <2>6
        <4> QED BY <4>1, <4>2, <4>3, <3>2, <2>6
      <3> QED BY <3>1, <3>2
    <2> QED BY <2>5, <2>7, <2>10, <2>11 DEF Inv
  <1> QED BY <1>2, <1>3

-----------------------------------------------------------------------------
(* Steps on the table *)

LEMMA LookUpKeeps ==
  ASSUME Inv, NEW t \in Callers, LookUp(t), UNCHANGED apis
  PROVE  Inv'
  <1>1. /\ pc[t] = Idle /\ ops' \in Nat /\ UNCHANGED <<registry, table, chans, threw, apis>>
    BY CallBegins DEF LookUp, Inv
  <1>2. CASE UNCHANGED pc
    <2>1. CallsInv' /\ NamesInv' /\ StreamInv' /\ SignalInv'
      BY <1>1, <1>2, Untouched DEF Inv
    <2> QED BY <1>1, <1>2, <2>1 DEF Inv, TypeOK, BookInv, registry, Capacity
  <1>3. CASE \E id \in DOMAIN table, op \in {"inference", "cancel"} :
               pc' = [pc EXCEPT ![t] = [Idle EXCEPT !.at = "found", !.op = op, !.ch = table[id]]]
    <2>1. PICK id \in DOMAIN table, op \in {"inference", "cancel"} :
            pc' = [pc EXCEPT ![t] = [Idle EXCEPT !.at = "found", !.op = op, !.ch = table[id]]]
      BY <1>3
    <2>2. table[id] \in DOMAIN chans /\ table[id] \in Nat BY DEF Inv, TypeOK
    <2>3. /\ pc' \in [Callers -> CallType] /\ pc'[t].at = "found" /\ pc'[t].ch = table[id]
          /\ ~pc'[t].asked /\ pc'[t].result = "none"
          /\ \A u \in Callers : u # t => pc'[u] = pc[u]
      BY <2>1, <2>2 DEF Inv, TypeOK, Idle, CallType
    <2>4. CallsInv' /\ SignalInv' BY <1>1, <2>2, <2>3 DEF Inv, CallsInv, SignalInv
    <2>5. \A u \in Callers : \A j \in DOMAIN chans : Running(u, j)' <=> Running(u, j)
      BY <1>1, <2>3, IdleCall DEF Running
    <2>6. StreamInv' BY <1>1, <2>5 DEF Inv, StreamInv, Running
    <2>7. TypeOK' BY <1>1, <2>3 DEF Inv, TypeOK, registry
    <2>8. NamesInv' /\ BookInv' BY <1>1 DEF Inv, NamesInv, BookInv, registry, Capacity
    <2> QED BY <2>4, <2>6, <2>7, <2>8 DEF Inv
  <1> QED BY <1>2, <1>3 DEF LookUp

LEMMA SetupKeeps ==
  ASSUME Inv, NEW t \in Callers, Setup(t), UNCHANGED apis
  PROVE  Inv'
  <1>1. /\ "setup" \in apis /\ UNCHANGED <<pc, apis>> /\ ops' \in Nat
    BY CallBegins DEF Setup, Inv
  <1>2. CASE UNCHANGED <<registry, table, chans, threw>>
    <2>1. CallsInv' /\ NamesInv' /\ StreamInv' /\ SignalInv'
      BY <1>1, <1>2, Untouched DEF Inv
    <2> QED BY <1>1, <1>2, <2>1 DEF Inv, TypeOK, BookInv, registry, Capacity
  <1>3. CASE /\ Cardinality(alive) < Capacity
             /\ alive' = alive \cup {nextSeq} /\ nextSeq' = nextSeq + 1
             /\ \/ Enter(nextSeq) /\ UNCHANGED threw
                \/ threw' = TRUE /\ UNCHANGED <<table, chans>>
    <2>1. nextSeq \in Nat /\ nextSeq' \in Nat /\ alive' \subseteq Nat
      BY <1>3 DEF Inv, TypeOK
    <2>2. IsFiniteSet(alive') /\ Cardinality(alive') <= Capacity
      <3>1. IsFiniteSet(alive) /\ Cardinality(alive) \in Nat
        BY FS_CardinalityType DEF Inv, BookInv
      <3>2. /\ IsFiniteSet(alive \cup {nextSeq})
            /\ Cardinality(alive \cup {nextSeq}) =
                 IF nextSeq \in alive THEN Cardinality(alive) ELSE Cardinality(alive) + 1
        BY <3>1, FS_AddElement
      <3> QED BY <1>3, <3>1, <3>2, CapacityIsNat
    <2>3. CASE Enter(nextSeq) /\ UNCHANGED threw
      <3>1. /\ chans' \in Seq(ChannelType)
            /\ DOMAIN table' \subseteq Nat /\ table' \in [DOMAIN table' -> DOMAIN chans']
            /\ CallsInv' /\ NamesInv' /\ StreamInv' /\ SignalInv'
            /\ DOMAIN table' = DOMAIN table \cup {nextSeq}
        BY <1>1, <2>1, <2>3, EnterKeeps
      <3>2. TypeOK' BY <1>1, <2>1, <2>3, <3>1 DEF Inv, TypeOK
      <3>3. IsFiniteSet(DOMAIN table')
        BY <3>1, FS_AddElement DEF Inv, BookInv
      <3>4. BookInv' BY <1>1, <1>3, <2>2, <2>3, <3>1, <3>3 DEF Inv, BookInv, Capacity
      <3> QED BY <3>1, <3>2, <3>4 DEF Inv
    <2>4. CASE threw' = TRUE /\ UNCHANGED <<table, chans>>
      <3>1. CallsInv' /\ NamesInv' /\ StreamInv' /\ SignalInv'
        BY <1>1, <2>4, Untouched DEF Inv
      <3>2. TypeOK' BY <1>1, <2>1, <2>4 DEF Inv, TypeOK
      <3>3. BookInv' BY <1>1, <1>3, <2>2, <2>4 DEF Inv, BookInv, Capacity
      <3> QED BY <3>1, <3>2, <3>3 DEF Inv
    <2> QED BY <1>3, <2>3, <2>4
  <1>4. Cardinality(alive) \in Nat BY FS_CardinalityType DEF Inv, BookInv
  <1>5. CASE Cardinality(alive) >= Capacity BY <1>2, <1>5 DEF Setup
  <1>6. CASE ~(Cardinality(alive) >= Capacity)
    <2>1. Cardinality(alive) < Capacity BY <1>4, <1>6, CapacityIsNat
    <2> QED BY <1>3, <1>6, <2>1 DEF Setup
  <1> QED BY <1>5, <1>6

LEMMA SetupWithKeeps ==
  ASSUME Inv, NEW t \in Callers, SetupWith(t), UNCHANGED apis
  PROVE  Inv'
  <1>1. /\ "setup_with" \in apis /\ UNCHANGED <<pc, apis, registry>> /\ ops' \in Nat
    BY CallBegins DEF SetupWith, Inv
  <1>2. CASE UNCHANGED <<table, chans>> /\ (UNCHANGED threw \/ threw' = TRUE)
    <2>1. CallsInv' /\ NamesInv' /\ StreamInv' /\ SignalInv'
      BY <1>1, <1>2, Untouched DEF Inv
    <2> QED BY <1>1, <1>2, <2>1 DEF Inv, TypeOK, BookInv, registry, Capacity
  <1>3. CASE \E id \in Names : /\ id \notin DOMAIN table /\ Cardinality(DOMAIN table) < Capacity
                               /\ Enter(id) /\ UNCHANGED threw
    <2>1. PICK id \in Names : /\ id \notin DOMAIN table /\ Cardinality(DOMAIN table) < Capacity
                              /\ Enter(id) /\ UNCHANGED threw
      BY <1>3
    <2>2. /\ chans' \in Seq(ChannelType)
          /\ DOMAIN table' \subseteq Nat /\ table' \in [DOMAIN table' -> DOMAIN chans']
          /\ CallsInv' /\ NamesInv' /\ StreamInv' /\ SignalInv'
          /\ DOMAIN table' = DOMAIN table \cup {id}
      <3>1. id \in Nat OBVIOUS
      <3> QED BY <1>1, <2>1, <3>1, EnterKeeps
    <2>3. TypeOK' BY <1>1, <2>1, <2>2 DEF Inv, TypeOK, registry
    <2>4. IsFiniteSet(DOMAIN table') /\ Cardinality(DOMAIN table') <= Capacity
      <3>1. IsFiniteSet(DOMAIN table) /\ Cardinality(DOMAIN table) \in Nat
        BY FS_CardinalityType DEF Inv, BookInv
      <3>2. /\ IsFiniteSet(DOMAIN table \cup {id})
            /\ Cardinality(DOMAIN table \cup {id}) =
                 IF id \in DOMAIN table THEN Cardinality(DOMAIN table)
                                        ELSE Cardinality(DOMAIN table) + 1
        BY <3>1, FS_AddElement
      <3> QED BY <2>1, <2>2, <3>1, <3>2, CapacityIsNat
    <2>5. BookInv' BY <1>1, <2>1, <2>2, <2>4 DEF Inv, BookInv, registry, Capacity
    <2> QED BY <2>2, <2>3, <2>5 DEF Inv
  <1>4. Cardinality(DOMAIN table) \in Nat BY FS_CardinalityType DEF Inv, BookInv
  <1>5. PICK id \in Names :
          IF id \in DOMAIN table \/ Cardinality(DOMAIN table) >= Capacity
          THEN UNCHANGED <<table, chans, threw>>
          ELSE \/ Enter(id) /\ UNCHANGED threw
               \/ threw' = TRUE /\ UNCHANGED <<table, chans>>
    BY DEF SetupWith
  <1>6. CASE id \in DOMAIN table \/ Cardinality(DOMAIN table) >= Capacity
    BY <1>2, <1>5, <1>6
  <1>7. CASE ~(id \in DOMAIN table \/ Cardinality(DOMAIN table) >= Capacity)
    <2>1. Cardinality(DOMAIN table) < Capacity BY <1>4, <1>7, CapacityIsNat
    <2>2. CASE Enter(id) /\ UNCHANGED threw BY <1>3, <1>7, <2>1, <2>2
    <2> QED BY <1>2, <1>5, <1>7, <2>2
  <1> QED BY <1>6, <1>7

LEMMA ExitKeeps ==
  ASSUME Inv, NEW t \in Callers, Exit(t), UNCHANGED apis
  PROVE  Inv'
  <1>1. PICK id \in DOMAIN table : ExitInto(id, Without(id), alive \ {id})
    BY DEF Exit
  <1> DEFINE k == table[id]
             c == [chans[k] EXCEPT !.state = "terminated",
                                   !.flag = (chans[k].state = "busy") \/ @]
  <1>2. /\ k \in DOMAIN chans /\ chans[k] \in ChannelType /\ pc[t] = Idle /\ ops' \in Nat
        /\ chans[k].state # "terminated" /\ chans[k].id = id
    <2>1. pc[t] = Idle /\ ops' \in Nat BY CallBegins DEF Exit, Inv
    <2>2. k \in DOMAIN chans /\ chans \in Seq(ChannelType) BY DEF Inv, TypeOK
    <2>3. chans[k].state # "terminated" /\ chans[k].id = id BY DEF Inv, NamesInv
    <2> QED BY <2>1, <2>2, <2>3
  <1>3. /\ chans' = [chans EXCEPT ![k] = c] /\ pc' = Ask(k)
        /\ table' = [i \in DOMAIN table \ {id} |-> table[i]]
        /\ alive' = alive \ {id} /\ UNCHANGED <<nextSeq, threw, apis>>
    BY <1>1, <1>2 DEF ExitInto, Without, Inv, TypeOK, ChannelType
  <1>4. /\ c \in ChannelType /\ c.id = id /\ c.state = "terminated"
        /\ c.inFlight = chans[k].inFlight /\ c.thrown = chans[k].thrown
        /\ c.flag = ((chans[k].state = "busy") \/ chans[k].flag)
    BY <1>2 DEF ChannelType
  <1>5. /\ chans' \in Seq(ChannelType) /\ DOMAIN chans' = DOMAIN chans
        /\ chans'[k] = c /\ \A j \in DOMAIN chans : j # k => chans'[j] = chans[j]
    BY <1>2, <1>3, <1>4 DEF Inv, TypeOK
  <1> HIDE DEF c
  <1>6. /\ pc' \in [Callers -> CallType]
        /\ \A u \in Callers :
             /\ pc'[u].at = pc[u].at /\ pc'[u].ch = pc[u].ch /\ pc'[u].result = pc[u].result
             /\ pc'[u].asked = (pc[u].asked \/ (pc[u].at = "infer" /\ pc[u].ch = k))
    BY <1>2, <1>3, Asked DEF Inv
  <1>7. /\ DOMAIN table' = DOMAIN table \ {id}
        /\ \A i \in DOMAIN table' : table'[i] = table[i]
    BY <1>3
  <1>8. TypeOK'
    <2>1. \A i \in DOMAIN table : table[i] \in DOMAIN chans BY DEF Inv, TypeOK
    <2>2. table' \in [DOMAIN table' -> DOMAIN chans'] BY <1>3, <1>5, <2>1
    <2> QED BY <1>2, <1>3, <1>5, <1>6, <1>7, <2>2 DEF Inv, TypeOK
  <1>9. CallsInv' BY <1>5, <1>6 DEF Inv, CallsInv
  <1>10. NamesInv'
    <2>1. \A i \in DOMAIN table' : table[i] # k /\ table[i] \in DOMAIN chans
      BY <1>2, <1>7 DEF Inv, NamesInv, TypeOK
    <2>2. \A j \in DOMAIN chans : j # k /\ chans[j].state # "terminated" => chans[j].id # id
      BY DEF Inv, NamesInv
    <2> QED BY <1>4, <1>5, <1>7, <2>1, <2>2 DEF Inv, NamesInv
  <1>11. StreamInv'
    <2>1. \A u \in Callers : \A j \in DOMAIN chans : Running(u, j)' <=> Running(u, j)
      BY <1>6 DEF Running
    <2> SUFFICES ASSUME NEW j \in DOMAIN chans
                 PROVE  /\ \A u \in Callers : Running(u, j)' =>
                             /\ chans'[j].inFlight = u /\ chans'[j].state # "ready"
                             /\ ~chans'[j].thrown
                        /\ chans'[j].thrown => chans'[j].state # "ready"
                        /\ chans'[j].state = "busy" /\ ~chans'[j].thrown =>
                             \E u \in Callers : chans'[j].inFlight = u /\ Running(u, j)'
      BY <1>5 DEF StreamInv, Running
    <2>2. CASE j = k BY <2>1, <2>2, <1>4, <1>5 DEF Inv, StreamInv
    <2>3. CASE j # k BY <2>1, <2>3, <1>5 DEF Inv, StreamInv
    <2> QED BY <2>2, <2>3
  <1>12. SignalInv'
    <2> SUFFICES ASSUME NEW u \in Callers
                 PROVE  /\ pc'[u].at = "infer" => (pc'[u].asked <=> chans'[pc'[u].ch].flag)
                        /\ pc'[u].result = "cancelled" => pc'[u].asked
      BY DEF SignalInv
    <2>1. pc'[u].result = "cancelled" => pc'[u].asked BY <1>6 DEF Inv, SignalInv
    <2>2. CASE pc[u].at = "infer"
      <3>1. pc[u].ch \in DOMAIN chans BY <2>2 DEF Inv, CallsInv
      <3>2. CASE pc[u].ch = k
        <4>1. Running(u, k) BY <2>2, <3>2 DEF Running
        <4>2. chans[k].state = "busy"
          BY <1>2, <4>1 DEF Inv, StreamInv, ChannelType
        <4>3. c.flag = TRUE /\ pc'[u].asked = TRUE BY <1>4, <1>6, <2>2, <3>2, <4>2
        <4> QED BY <1>5, <1>6, <2>1, <3>1, <3>2, <4>3
      <3>3. CASE pc[u].ch # k
        <4>1. pc[u].asked <=> chans[pc[u].ch].flag BY <2>2 DEF Inv, SignalInv
        <4>2. pc'[u].asked <=> pc[u].asked BY <1>6, <2>2, <3>3
        <4> QED BY <1>5, <1>6, <2>1, <2>2, <3>1, <3>3, <4>1, <4>2
      <3> QED BY <3>2, <3>3
    <2>3. CASE pc[u].at # "infer" BY <1>6, <2>1, <2>3
    <2> QED BY <2>2, <2>3
  <1>13. BookInv'
    <2>1. /\ IsFiniteSet(alive) /\ Cardinality(alive) \in Nat
          /\ IsFiniteSet(DOMAIN table) /\ Cardinality(DOMAIN table) \in Nat
      BY FS_CardinalityType DEF Inv, BookInv
    <2>2. /\ IsFiniteSet(alive') /\ Cardinality(alive') <= Cardinality(alive)
          /\ Cardinality(alive') \in Nat
      BY <1>3, <2>1, FS_Subset, FS_CardinalityType
    <2>3. /\ IsFiniteSet(DOMAIN table') /\ Cardinality(DOMAIN table') <= Cardinality(DOMAIN table)
          /\ Cardinality(DOMAIN table') \in Nat
      BY <1>7, <2>1, FS_Subset, FS_CardinalityType
    <2> QED BY <1>3, <1>7, <2>1, <2>2, <2>3, CapacityIsNat DEF Inv, BookInv, Capacity
  <1> QED BY <1>8, <1>9, <1>10, <1>11, <1>12, <1>13 DEF Inv

-----------------------------------------------------------------------------
(* The theorems *)

LEMMA InitInv == Init => Inv
  <1> SUFFICES ASSUME Init PROVE Inv OBVIOUS
  <1>1. DOMAIN table = {} /\ chans = <<>> /\ DOMAIN chans = {} BY DEF Init
  <1>2. TypeOK
    <2>1. chans \in Seq(ChannelType) BY DEF Init
    <2>2. pc \in [Callers -> CallType] BY IdleCall DEF Init
    <2>3. table \in [DOMAIN table -> DOMAIN chans] BY DEF Init
    <2>4. alive \subseteq Nat /\ nextSeq \in Nat /\ ops \in Nat /\ threw \in BOOLEAN
          /\ apis \subseteq {"setup", "setup_with"}
      BY DEF Init
    <2> QED BY <1>1, <2>1, <2>2, <2>3, <2>4 DEF TypeOK
  <1>3. CallsInv /\ SignalInv BY <1>1, IdleCall DEF Init, CallsInv, SignalInv
  <1>4. NamesInv /\ StreamInv BY <1>1 DEF NamesInv, StreamInv
  <1>5. BookInv
    <2>1. alive = {} /\ apis # {} BY DEF Init
    <2>2. IsFiniteSet({}) /\ Cardinality({}) = 0 BY FS_EmptySet
    <2> QED BY <1>1, <2>1, <2>2, CapacityIsNat DEF BookInv
  <1> QED BY <1>2, <1>3, <1>4, <1>5 DEF Inv

LEMMA NextInv == Inv /\ [Next]_vars => Inv'
  <1> SUFFICES ASSUME Inv, [Next]_vars PROVE Inv' OBVIOUS
  <1>1. CASE UNCHANGED vars
    <2>1. UNCHANGED <<alive, nextSeq, table, chans, pc, ops, threw, apis>>
      BY <1>1 DEF vars, registry
    <2>2. CallsInv' /\ NamesInv' /\ StreamInv' /\ SignalInv' BY <2>1, Untouched DEF Inv
    <2> QED BY <2>1, <2>2 DEF Inv, TypeOK, BookInv, Capacity
  <1>2. CASE Next
    <2>1. UNCHANGED apis BY <1>2 DEF Next
    <2>2. PICK t \in Callers :
            \/ Setup(t) \/ SetupWith(t) \/ LookUp(t) \/ Exit(t)
            \/ RefuseInference(t) \/ StartInference(t) \/ BackendReturns(t)
            \/ BackendThrows(t) \/ FinishInference(t) \/ CancelChannel(t)
      BY <1>2 DEF Next
    <2> QED BY <2>1, <2>2, SetupKeeps, SetupWithKeeps, LookUpKeeps, ExitKeeps, RefuseKeeps,
               StartKeeps, BackendKeeps, ThrowKeeps, FinishKeeps, CancelKeeps
  <1> QED BY <1>1, <1>2

\* The inductive invariant of the runtime.
THEOREM Invariance == Spec => []Inv
  BY InitInv, NextInv, PTL DEF Spec

\* Every variable of the runtime keeps its type.
THEOREM TypeCorrect == Spec => []TypeOK
  <1>1. Inv => TypeOK BY DEF Inv
  <1> QED BY <1>1, Invariance, PTL

\* No channel ever has two inferences, nor is one taken for ready while it works
\* (TaskChannel::inference leaves its mutex for the time of the backend); one whose
\* backend threw has none and takes none.
THEOREM OneInferenceEach == Spec => []SingleStream
  <1>1. Inv => SingleStream BY DEF Inv, StreamInv, SingleStream
  <1> QED BY <1>1, Invariance, PTL

\* A stop signal reaches the inference it was meant for, and no other.
THEOREM StopSignalsHit == Spec => []StopSignalsAreExact
  <1>1. Inv => StopSignalsAreExact BY DEF Inv, SignalInv, StopSignalsAreExact, Channel
  <1> QED BY <1>1, Invariance, PTL

\* The table lists the live channels and no other, within the capacity, and agrees
\* with the registry where there is one.
THEOREM TableStaysTrue == Spec => []TableIsTrue
  <1>1. Inv => TableIsTrue
    <2> SUFFICES ASSUME Inv PROVE TableIsTrue OBVIOUS
    <2>1. /\ \A id \in DOMAIN table : chans[table[id]].id = id
          /\ \A k \in DOMAIN chans :
               chans[k].state # "terminated" <=> \E id \in DOMAIN table : table[id] = k
      BY DEF Inv, NamesInv
    <2>2. Cardinality(apis) = 1 => "setup" \notin apis \/ "setup_with" \notin apis
      <3> SUFFICES ASSUME "setup" \in apis, "setup_with" \in apis PROVE Cardinality(apis) # 1
        OBVIOUS
      <3>1. apis = {"setup"} \cup {"setup_with"} BY DEF Inv, TypeOK
      <3>2. IsFiniteSet({"setup"}) /\ Cardinality({"setup"}) = 1 BY FS_Singleton
      <3>3. Cardinality({"setup"} \cup {"setup_with"}) = 1 + 1 BY <3>2, FS_AddElement
      <3> QED BY <3>1, <3>3
    <2>3. Cardinality(apis) = 1 => Cardinality(DOMAIN table) <= Capacity
      <3>1. CASE "setup" \notin apis BY <3>1 DEF Inv, BookInv
      <3>2. CASE "setup_with" \notin apis
        <4>1. /\ IsFiniteSet(alive) /\ Cardinality(alive) <= Capacity
              /\ DOMAIN table \subseteq alive
          BY <3>2 DEF Inv, BookInv
        <4>2. /\ IsFiniteSet(DOMAIN table) /\ Cardinality(DOMAIN table) <= Cardinality(alive)
          BY <4>1, FS_Subset
        <4>3. Cardinality(alive) \in Nat /\ Cardinality(DOMAIN table) \in Nat
          BY <4>1, <4>2, FS_CardinalityType
        <4> QED BY <4>1, <4>2, <4>3, CapacityIsNat
      <3> QED BY <2>2, <3>1, <3>2
    <2> QED BY <2>1, <2>3 DEF TableIsTrue, Inv, BookInv
  <1> QED BY <1>1, Invariance, PTL

\* A terminated channel stays so: the only steps that set a state to ready or busy
\* look at it first, under the channel's mutex.
THEOREM TerminatedStays == Spec => TerminatedForGood
  <1> DEFINE Kept == \A k \in DOMAIN chans :
                       chans[k].state = "terminated" => chans'[k].state = "terminated"
  <1>1. Inv /\ [Next]_vars => [Kept]_vars
    <2> SUFFICES ASSUME Inv, Next, NEW k \in DOMAIN chans, chans[k].state = "terminated"
                 PROVE  chans'[k].state = "terminated"
      OBVIOUS
    <2>1. PICK t \in Callers :
            \/ Setup(t) \/ SetupWith(t) \/ LookUp(t) \/ Exit(t)
            \/ RefuseInference(t) \/ StartInference(t) \/ BackendReturns(t)
            \/ BackendThrows(t) \/ FinishInference(t) \/ CancelChannel(t)
      BY DEF Next
    <2>2. chans \in Seq(ChannelType) /\ chans[k] \in ChannelType BY DEF Inv, TypeOK
    <2>3. CASE UNCHANGED chans BY <2>3
    <2>4. ASSUME NEW id, Enter(id) PROVE chans'[k].state = "terminated"
      BY <2>2, <2>4 DEF Enter
    <2>5. CASE StartInference(t) \/ BackendThrows(t) \/ FinishInference(t) \/ CancelChannel(t)
      <3>1. CASE StartInference(t) BY <2>2, <3>1 DEF StartInference, Channel, ChannelType
      <3>2. CASE FinishInference(t)
        BY <2>2, <3>2 DEF FinishInference, Channel, ChannelType
      <3>3. CASE CancelChannel(t) BY <2>2, <3>3 DEF CancelChannel, Channel, ChannelType
      <3>4. CASE BackendThrows(t) BY <2>2, <3>4 DEF BackendThrows, ChannelType
      <3> QED BY <2>5, <3>1, <3>2, <3>3, <3>4
    <2>6. CASE Exit(t) BY <2>2, <2>6 DEF Exit, ExitInto, ChannelType
    <2> QED BY <2>1, <2>3, <2>4, <2>5, <2>6 DEF Setup, SetupWith, LookUp,
               RefuseInference, BackendReturns
  <1> QED BY <1>1, Invariance, PTL DEF Spec, TerminatedForGood
=============================================================================
