---------------------------- MODULE TaskRuntime ----------------------------
(***************************************************************************)
(* libs/runtime: the task table of a node (TaskRuntime) and the state      *)
(* machine of each task (TaskChannel), called by several threads at once.  *)
(*                                                                         *)
(* setup, setup_with and exit hold the table's mutex throughout.           *)
(* inference and cancel look the channel up under it, let it go, and then  *)
(* take the channel's own mutex, which inference gives up again while the  *)
(* backend works: the steps below are these critical sections.  taskinfo   *)
(* changes nothing and is left out.  A RuntimeNode is the only caller of   *)
(* its runtime, and uses setup_with alone.                                 *)
(***************************************************************************)
EXTENDS Naturals, FiniteSets, Sequences

CONSTANTS
  Callers,   \* the threads
  Names,     \* the work_ids the manager may give to setup_with
  MaxTasks,  \* max_tasks, 0 for the default
  MaxOps     \* bound: calls made in all

ASSUME TaskRuntimeAssumption ==
  /\ Names \subseteq Nat /\ MaxTasks \in Nat /\ MaxOps \in Nat
  /\ "nobody" \notin Callers

VARIABLES
  alive,    \* registry_: the work_ids allocated and not released
  nextSeq,  \* registry_: the rank of the next work_id
  table,    \* channels_: work_id to the index of its channel in chans
  chans,    \* every TaskChannel put in the table so far
  pc,       \* per caller, where its call is
  ops,      \* calls made so far
  threw,    \* an exception has left a call
  apis      \* which of setup and setup_with the program calls, chosen at the start

registry == <<alive, nextSeq>>
vars == <<registry, table, chans, pc, ops, threw, apis>>

-----------------------------------------------------------------------------
(* Types *)

\* in_flight is the caller whose inference the channel has in flight; thrown is
\* history: the backend left that inference with an exception.
ChannelType == [id : Nat, state : {"ready", "busy", "terminated"}, flag : BOOLEAN,
                inFlight : Callers \cup {"nobody"}, count : Nat, thrown : BOOLEAN]

\* asked is history: a cancel or an exit returned kOk during the inference.
CallType == [at : {"idle", "found", "infer", "finish"},
             op : {"inference", "cancel"}, ch : Nat, asked : BOOLEAN,
             result : {"none", "ok", "timeout", "cancelled"}]

Idle == [at |-> "idle", op |-> "inference", ch |-> 0, asked |-> FALSE, result |-> "none"]

TypeOK ==
  /\ alive \subseteq Nat /\ nextSeq \in Nat
  /\ chans \in Seq(ChannelType)
  /\ DOMAIN table \subseteq Nat /\ table \in [DOMAIN table -> DOMAIN chans]
  /\ pc \in [Callers -> CallType]
  /\ ops \in Nat /\ threw \in BOOLEAN
  /\ apis \subseteq {"setup", "setup_with"}

-----------------------------------------------------------------------------
(* Helpers *)

DefaultMaxTasks == 64
Capacity == IF MaxTasks = 0 THEN DefaultMaxTasks ELSE MaxTasks

NewChannel(id) == [id |-> id, state |-> "ready", flag |-> FALSE,
                   inFlight |-> "nobody", count |-> 0, thrown |-> FALSE]

Calls(t) == pc[t] = Idle /\ ops < MaxOps /\ ops' = ops + 1
Returns(t) == pc' = [pc EXCEPT ![t] = Idle]

\* A channel made and set up; emplace keeps what the table has under that name.
Enter(id) ==
  IF id \in DOMAIN table
  THEN UNCHANGED <<table, chans>>
  ELSE /\ chans' = Append(chans, NewChannel(id))
       /\ table' = [i \in DOMAIN table \cup {id} |->
                      IF i = id THEN Len(chans) + 1 ELSE table[i]]

\* The inference a cancel or an exit of channel k hits has been asked to stop.
Ask(k) == [t \in Callers |-> IF pc[t].at = "infer" /\ pc[t].ch = k
                             THEN [pc[t] EXCEPT !.asked = TRUE] ELSE pc[t]]

Init ==
  /\ alive = {} /\ nextSeq = 0
  /\ table = [i \in {} |-> 0] /\ chans = <<>>
  /\ pc = [t \in Callers |-> Idle]
  /\ ops = 0 /\ threw = FALSE
  /\ apis \in (SUBSET {"setup", "setup_with"}) \ {{}}

-----------------------------------------------------------------------------
(* TaskRuntime::setup and setup_with *)

\* The registry decides on the capacity.  A factory that throws leaves the
\* work_id allocated.
Setup(t) ==
  /\ "setup" \in apis /\ Calls(t)
  /\ IF Cardinality(alive) >= Capacity
     THEN UNCHANGED <<registry, table, chans, threw>>
     ELSE /\ alive' = alive \cup {nextSeq}
          /\ nextSeq' = nextSeq + 1
          /\ \/ Enter(nextSeq) /\ UNCHANGED threw
             \/ threw' = TRUE /\ UNCHANGED <<table, chans>>
  /\ UNCHANGED pc

\* The size of the table decides, and the registry is not told.
SetupWith(t) ==
  /\ "setup_with" \in apis /\ Calls(t)
  /\ \E id \in Names :
       IF id \in DOMAIN table \/ Cardinality(DOMAIN table) >= Capacity
       THEN UNCHANGED <<table, chans, threw>>
       ELSE \/ Enter(id) /\ UNCHANGED threw
            \/ threw' = TRUE /\ UNCHANGED <<table, chans>>
  /\ UNCHANGED <<registry, pc>>

-----------------------------------------------------------------------------
(* inference and cancel *)

\* find_locked; an unknown work_id returns kNotExist.
LookUp(t) ==
  /\ Calls(t)
  /\ \/ \E id \in DOMAIN table, op \in {"inference", "cancel"} :
          pc' = [pc EXCEPT ![t] = [Idle EXCEPT !.at = "found", !.op = op, !.ch = table[id]]]
     \/ UNCHANGED pc
  /\ UNCHANGED <<registry, table, chans, threw>>

Found(t, op) == pc[t].at = "found" /\ pc[t].op = op
Channel(t) == chans[pc[t].ch]
OnlyChannel == UNCHANGED <<registry, table, ops, threw>>

\* The channel is busy, or was terminated since the look-up.
RefuseInference(t) ==
  /\ Found(t, "inference") /\ Channel(t).state # "ready"
  /\ Returns(t)
  /\ OnlyChannel /\ UNCHANGED chans

\* Mutant: a busy channel takes another inference.
StartInferenceUnguarded(t) ==
  /\ Found(t, "inference") /\ Channel(t).state # "terminated"
  /\ chans' = [chans EXCEPT ![pc[t].ch].state = "busy", ![pc[t].ch].inFlight = t,
                            ![pc[t].ch].flag = FALSE]
  /\ pc' = [pc EXCEPT ![t].at = "infer"]
  /\ OnlyChannel

\* Mutant: the flag of the inference before is not cleared.
StartInferenceStale(t) ==
  /\ Found(t, "inference") /\ Channel(t).state = "ready"
  /\ chans' = [chans EXCEPT ![pc[t].ch].state = "busy", ![pc[t].ch].inFlight = t]
  /\ pc' = [pc EXCEPT ![t].at = "infer"]
  /\ OnlyChannel

StartInference(t) ==
  /\ Found(t, "inference") /\ Channel(t).state = "ready"
  /\ chans' = [chans EXCEPT ![pc[t].ch].state = "busy", ![pc[t].ch].inFlight = t,
                            ![pc[t].ch].flag = FALSE]
  /\ pc' = [pc EXCEPT ![t].at = "infer"]
  /\ OnlyChannel

\* IBackend::infer, without the mutex: it reports cancelled if it has seen the
\* flag, and may just as well finish or run out of time before it does.
BackendReturns(t) ==
  /\ pc[t].at = "infer"
  /\ \E result \in {"ok", "timeout"} \cup (IF Channel(t).flag THEN {"cancelled"} ELSE {}) :
       pc' = [pc EXCEPT ![t].at = "finish", ![t].result = result]
  /\ OnlyChannel /\ UNCHANGED chans

\* infer() throws, as an event sink that cannot publish makes it: the exception
\* leaves the call before it takes the mutex again, and the channel stays busy,
\* with this inference in flight, until it is terminated.
BackendThrows(t) ==
  /\ pc[t].at = "infer"
  /\ chans' = [chans EXCEPT ![pc[t].ch].thrown = TRUE]
  /\ Returns(t)
  /\ OnlyChannel

\* Mutant: the channel goes back to ready in any case.
FinishInferenceRevives(t) ==
  /\ pc[t].at = "finish"
  /\ chans' = [chans EXCEPT ![pc[t].ch].count = @ + 1, ![pc[t].ch].state = "ready",
                            ![pc[t].ch].inFlight = "nobody"]
  /\ Returns(t)
  /\ OnlyChannel

\* A channel terminated meanwhile is not brought back.
FinishInference(t) ==
  /\ pc[t].at = "finish"
  /\ chans' = [chans EXCEPT ![pc[t].ch].count = @ + 1,
                 ![pc[t].ch].state = IF @ = "terminated" THEN @ ELSE "ready",
                 ![pc[t].ch].inFlight = IF Channel(t).state = "terminated"
                                        THEN @ ELSE "nobody"]
  /\ Returns(t)
  /\ OnlyChannel

\* TaskChannel::cancel: the flag only when an inference is in flight.
CancelChannel(t) ==
  /\ Found(t, "cancel")
  /\ IF Channel(t).state = "busy"
     THEN /\ chans' = [chans EXCEPT ![pc[t].ch].flag = TRUE]
          /\ pc' = [Ask(pc[t].ch) EXCEPT ![t] = Idle]
     ELSE UNCHANGED chans /\ Returns(t)
  /\ OnlyChannel

-----------------------------------------------------------------------------
(* exit *)

\* What exit does with the table and the registry, given their new values.
ExitInto(id, newTable, newAlive) ==
  LET k == table[id]
  IN  /\ chans' = [chans EXCEPT ![k].state = "terminated",
                                ![k].flag = (chans[k].state = "busy") \/ @]
      /\ pc' = Ask(k)
      /\ table' = newTable /\ alive' = newAlive
      /\ UNCHANGED <<nextSeq, threw>>

Without(id) == [i \in DOMAIN table \ {id} |-> table[i]]

\* Mutant: the registry is not told.
ExitKeepsSlot(t) ==
  Calls(t) /\ \E id \in DOMAIN table : ExitInto(id, Without(id), alive)

\* The channel is terminated and leaves the table; release() of a work_id the
\* registry does not know does nothing.
Exit(t) ==
  Calls(t) /\ \E id \in DOMAIN table : ExitInto(id, Without(id), alive \ {id})

-----------------------------------------------------------------------------
(* The specification *)

Next ==
  /\ \E t \in Callers :
       \/ Setup(t) \/ SetupWith(t) \/ LookUp(t) \/ Exit(t)
       \/ RefuseInference(t) \/ StartInference(t) \/ BackendReturns(t)
       \/ BackendThrows(t) \/ FinishInference(t) \/ CancelChannel(t)
  /\ UNCHANGED apis

Spec == Init /\ [][Next]_vars

-----------------------------------------------------------------------------
(* Safety *)

Running(t, k) == pc[t].at \in {"infer", "finish"} /\ pc[t].ch = k

\* A channel has one inference at a time, and is busy exactly while it has it,
\* until it is terminated: no stale holder returns it to ready under another.
\* The exception is a backend that threw: its channel has no inference any more
\* and never takes one again.
SingleStream ==
  \A k \in DOMAIN chans :
    /\ \A t, u \in Callers : Running(t, k) /\ Running(u, k) => t = u
    /\ chans[k].state = "ready" => \A t \in Callers : ~Running(t, k)
    /\ chans[k].state = "busy" /\ ~chans[k].thrown =>
         chans[k].inFlight \in Callers /\ Running(chans[k].inFlight, k)
    /\ chans[k].thrown => /\ chans[k].state # "ready"
                          /\ \A t \in Callers : ~Running(t, k)

\* A stop signal reaches the inference it was meant for and no other: one that
\* was told to stop keeps seeing the flag to its end, though a new inference
\* clears it, and one reports cancelled only if it was itself told to stop.
StopSignalsAreExact ==
  \A t \in Callers :
    /\ pc[t].at = "infer" /\ pc[t].asked => Channel(t).flag
    /\ pc[t].result = "cancelled" => pc[t].asked

\* A terminated channel never comes back to life, whatever ends late on it.
TerminatedForGood ==
  [][\A k \in DOMAIN chans : chans[k].state = "terminated" => chans'[k].state = "terminated"]_vars

\* The table lists the live channels and no other, each under its own name;
\* with one of the two setups in use there are never more tasks than the
\* capacity, and with setup alone every slot of the registry has its task,
\* unless a factory threw: setup does not give back what it allocated.
TableIsTrue ==
  /\ \A id \in DOMAIN table : chans[table[id]].id = id
  /\ \A k \in DOMAIN chans :
       chans[k].state # "terminated" <=> \E id \in DOMAIN table : table[id] = k
  /\ Cardinality(apis) = 1 => Cardinality(DOMAIN table) <= Capacity
  /\ apis = {"setup"} /\ ~threw => alive = DOMAIN table

=============================================================================
