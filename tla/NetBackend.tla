---------------------------- MODULE NetBackend ----------------------------
(***************************************************************************)
(* backends/net: the sessions' side of a remote backend (one               *)
(* NetBackendSession per session of a work_id and stage), the node that    *)
(* serves them (RuntimeNode) and what lies between: libs/transport's RPC   *)
(* sockets and the event stream of libs/dataplane.                         *)
(*                                                                         *)
(* The sessions, numbered as they are made, all name the same work_id and  *)
(* the same node, and number their inferences 0, 1, ...: a topic           *)
(* work_id/request_id/ is therefore known here by that number.  A session  *)
(* has two REQ sockets, rpc (the driving thread) and ctl (cancel and the   *)
(* destructor), which hold one request each; the node answers one request  *)
(* at a time, in any order between sockets.  A socket that is made anew or *)
(* destroyed drops its request, or leaves it behind: the node executes it, *)
(* nobody hears of it.  Nothing guarantees an event its delivery.          *)
(* Time is left out: a wait that has a deadline may always end.            *)
(***************************************************************************)
EXTENDS Naturals, Sequences, FiniteSets

CONSTANTS
  SessionCount,  \* NetBackendSession objects, one after the other
  Events,        \* events of an inference, the last one with finish set
  MaxOps         \* bound: inferences, calls of cancel() from outside, restarts, calls
                 \* that a signal ends and events dropped, in all

ASSUME NetBackendAssumption ==
  /\ SessionCount \in Nat \ {0} /\ Events \in Nat \ {0}
  /\ MaxOps \in Nat

Sessions == 1..SessionCount
Vias == {"rpc", "ctl"}
Nobody == 0
NoRequest == [kind |-> "none"]

VARIABLES
  life,       \* per session: where the object is in its life
  drv,        \* per session: drive_inference is "idle" or "polling"
  cancelled,  \* cancelled_
  seq,        \* seq_: requests numbered so far; the last is seq - 1
  pending,    \* rpc_pending_
  sock,       \* per session and socket, the REQ state: may send, awaits a reply, or out of
              \* step (rpc: sent on in turn; ctl: awaits a reply that no call waits for)
  inbox,      \* per session and socket, the reply that has arrived
  line,       \* per session, events sent to its SUB socket and not yet received
  heard,      \* events given to the callback in the current inference
  acked,      \* ack_done
  ended,      \* stream_done
  outcome,    \* how the last inference of the session ended
  requests,   \* what the node has still to take
  serving,    \* the inference it is executing, or NoRequest
  made,       \* events that inference has published
  spread,     \* per session, how many of its subscriptions the node's PUB socket has
  task,       \* the session whose setup made the node's task, or Nobody
  ops,
  restarted,  \* history: the node has restarted
  refused,    \* history: a setup was not acknowledged
  admitted,   \* history: the sessions whose setup was
  abandoned,  \* history: the sessions that gave up on an inference
  asked,      \* history: the sessions cancelled during their current inference
  missed,     \* history: the sessions with an event of their current inference dropped
  interrupted, \* history: the sessions with a call on ctl that a signal ended
  unsent,     \* history: the sessions whose ctl refused to send their exit
  dropped     \* history: the sessions whose exit was dropped with its socket

client == <<life, drv, cancelled, seq, pending, heard, acked, ended, outcome>>
node == <<serving, made, task, restarted>>
wires == <<sock, inbox, requests>>
exits == <<interrupted, unsent, dropped>>
history == <<refused, admitted, abandoned, asked, missed, exits>>
vars == <<client, wires, node, line, spread, ops, history>>

-----------------------------------------------------------------------------
(* Types *)

Lives == {"unborn", "setup", "ready", "released", "failed", "leaving", "quitting", "gone"}
RequestType == [sess : Sessions, via : Vias, rid : 0..MaxOps, live : BOOLEAN,
                kind : {"setup", "inference", "exit"}]
EventType == [sess : Sessions, rid : 0..MaxOps, n : 1..Events]

TypeOK ==
  /\ life \in [Sessions -> Lives]
  /\ drv \in [Sessions -> {"idle", "polling"}]
  /\ cancelled \in [Sessions -> BOOLEAN] /\ pending \in [Sessions -> BOOLEAN]
  /\ acked \in [Sessions -> BOOLEAN] /\ ended \in [Sessions -> BOOLEAN]
  /\ seq \in [Sessions -> 0..MaxOps]
  /\ sock \in [Sessions -> [Vias -> {"idle", "waiting", "broken"}]]
  /\ inbox \in [Sessions -> [Vias -> {"none", "ok", "error"}]]
  /\ line \in [Sessions -> Seq(EventType)] /\ heard \in [Sessions -> Seq(EventType)]
  /\ outcome \in [Sessions -> {"none", "ok", "cancelled", "timeout", "error"}]
  /\ requests \subseteq RequestType
  /\ serving \in RequestType \cup {NoRequest}
  /\ made \in 0..Events
  /\ spread \in [Sessions -> 0..MaxOps]
  /\ task \in Sessions \cup {Nobody}
  /\ ops \in 0..MaxOps /\ restarted \in BOOLEAN /\ refused \in BOOLEAN
  /\ admitted \subseteq Sessions /\ abandoned \subseteq Sessions
  /\ asked \subseteq Sessions /\ missed \subseteq Sessions
  /\ interrupted \subseteq Sessions /\ unsent \subseteq Sessions /\ dropped \subseteq Sessions

-----------------------------------------------------------------------------
(* RpcClient: the request of a socket, and the socket made anew *)

Request(s, via, kind, rid) ==
  [sess |-> s, via |-> via, kind |-> kind, rid |-> rid, live |-> TRUE]

IsFrom(r, s, via) == r # NoRequest /\ r.sess = s /\ r.via = via
LeftBehind(r, s, via) == IF IsFrom(r, s, via) THEN [r EXCEPT !.live = FALSE] ELSE r

\* What the node may have left once the sockets vias of s are destroyed: linger is 0, so
\* their requests go with them, but for those the node's end has already.
Orphans(s, vias) ==
  LET open == {r \in requests : r.sess = s /\ r.via \in vias /\ r.live}
  IN {(requests \ open) \cup {[r EXCEPT !.live = FALSE] : r \in kept} : kept \in SUBSET open}

\* recreate_socket and connect, after a call that ran out of time.
Reconnect(s, via) ==
  /\ inbox[s][via] = "none"
  /\ requests' \in Orphans(s, {via})
  /\ serving' = LeftBehind(serving, s, via)
  /\ sock' = [sock EXCEPT ![s][via] = "idle"]
  /\ inbox' = [inbox EXCEPT ![s][via] = "none"]

\* A REQ socket that awaits a reply refuses to send (EFSM).
Send(s, via, kind, rid) ==
  /\ sock' = [sock EXCEPT ![s][via] = IF @ = "idle" THEN "waiting" ELSE "broken"]
  /\ requests' = IF sock[s][via] = "idle"
                 THEN requests \cup {Request(s, via, kind, rid)} ELSE requests
  /\ UNCHANGED inbox

Receive(s, via) ==
  /\ inbox[s][via] # "none"
  /\ inbox' = [inbox EXCEPT ![s][via] = "none"]
  /\ sock' = [sock EXCEPT ![s][via] = "idle"]
  /\ UNCHANGED requests

Init ==
  /\ life = [s \in Sessions |-> "unborn"] /\ drv = [s \in Sessions |-> "idle"]
  /\ cancelled = [s \in Sessions |-> FALSE] /\ pending = [s \in Sessions |-> FALSE]
  /\ acked = [s \in Sessions |-> FALSE] /\ ended = [s \in Sessions |-> FALSE]
  /\ seq = [s \in Sessions |-> 0]
  /\ sock = [s \in Sessions |-> [v \in Vias |-> "idle"]]
  /\ inbox = [s \in Sessions |-> [v \in Vias |-> "none"]]
  /\ line = [s \in Sessions |-> <<>>] /\ heard = [s \in Sessions |-> <<>>]
  /\ outcome = [s \in Sessions |-> "none"]
  /\ requests = {} /\ serving = NoRequest /\ made = 0
  /\ spread = [s \in Sessions |-> 0] /\ task = Nobody
  /\ ops = 0 /\ restarted = FALSE /\ refused = FALSE /\ abandoned = {} /\ asked = {}
  /\ admitted = {} /\ missed = {} /\ interrupted = {} /\ unsent = {} /\ dropped = {}

-----------------------------------------------------------------------------
(* The life of a session: constructor, setup(), cancel(), destructor *)

\* The session node makes a session when the one before it has been given up.
Connect(s) ==
  /\ life[s] = "unborn"
  /\ \A p \in 1..(s - 1) : life[p] \notin {"unborn", "setup", "ready"}
  /\ life' = [life EXCEPT ![s] = "setup"]
  /\ Send(s, "rpc", "setup", 0)
  /\ UNCHANGED <<drv, cancelled, seq, pending, heard, acked, ended, outcome,
                 node, line, spread, ops, history>>

\* The node's answer to setup; an error, or no answer in time, destroys the session.
SetupEnds(s) ==
  /\ life[s] = "setup"
  /\ \/ Receive(s, "rpc") /\ UNCHANGED serving
     \/ Reconnect(s, "rpc")
  /\ LET ok == inbox[s]["rpc"] = "ok"
     IN /\ life' = [life EXCEPT ![s] = IF ok THEN "ready" ELSE "failed"]
        /\ refused' = (refused \/ ~ok)
        /\ admitted' = IF ok THEN admitted \cup {s} ELSE admitted
        /\ UNCHANGED <<abandoned, asked, missed, exits>>
  /\ UNCHANGED <<drv, cancelled, seq, pending, heard, acked, ended, outcome,
                 made, task, restarted, line, spread, ops>>

\* cancel(), until it waits: the flag, and a request on ctl, unless the socket refuses it;
\* the caller is not told.  The serial node answers that request without doing anything,
\* since no inference is running when it takes it: only the socket is of interest here.
RaiseFlag(s) ==
  /\ cancelled' = [cancelled EXCEPT ![s] = TRUE]
  /\ asked' = IF drv[s] = "polling" THEN asked \cup {s} ELSE asked
  /\ sock' = [sock EXCEPT ![s]["ctl"] = IF @ = "idle" THEN "waiting" ELSE @]
  /\ UNCHANGED <<drv, seq, pending, heard, acked, ended, outcome, inbox, requests,
                 node, line, spread, refused, admitted, abandoned, missed, exits>>

\* By any thread, also while another call on ctl waits.
Cancel(s) ==
  /\ life[s] = "ready" /\ ops < MaxOps /\ ops' = ops + 1
  /\ RaiseFlag(s) /\ UNCHANGED life

\* The session node's exit cancels the pipeline and lets go of it.
Release(s) ==
  /\ life[s] = "ready" /\ life' = [life EXCEPT ![s] = "released"]
  /\ RaiseFlag(s) /\ UNCHANGED ops

\* The call of a cancel() ends: with the reply, or after a second without one, and the
\* socket is made anew; or by a signal, which leaves the socket as it is.
CallEnds(s) ==
  /\ sock[s]["ctl"] = "waiting" /\ life[s] # "quitting"
  /\ \/ sock' = [sock EXCEPT ![s]["ctl"] = "idle"] /\ UNCHANGED <<ops, interrupted>>
     \/ /\ sock' = [sock EXCEPT ![s]["ctl"] = "broken"]
        /\ ops < MaxOps /\ ops' = ops + 1
        /\ interrupted' = interrupted \cup {s}
  /\ UNCHANGED <<client, inbox, requests, node, line, spread,
                 refused, admitted, abandoned, asked, missed, unsent, dropped>>

\* The destructor runs once no thread uses the session any more, and cancels first.
Destroy(s) ==
  /\ life[s] \in {"released", "failed"} /\ drv[s] = "idle" /\ sock[s]["ctl"] # "waiting"
  /\ life' = [life EXCEPT ![s] = "leaving"]
  /\ RaiseFlag(s) /\ UNCHANGED ops

\* Its exit follows when the call of the cancel is over, if the socket takes it.
Leave(s) ==
  /\ life[s] = "leaving" /\ sock[s]["ctl"] # "waiting"
  /\ life' = [life EXCEPT ![s] = "quitting"]
  /\ \/ sock[s]["ctl"] = "idle" /\ Send(s, "ctl", "exit", 0) /\ UNCHANGED unsent
     \/ sock[s]["ctl"] # "idle" /\ unsent' = unsent \cup {s} /\ UNCHANGED wires
  /\ UNCHANGED <<drv, cancelled, seq, pending, heard, acked, ended, outcome, node, line, spread,
                 ops, refused, admitted, abandoned, asked, missed, interrupted, dropped>>

HasExit(R, s) == \E r \in R : r.sess = s /\ r.kind = "exit"

\* The destructor ends with the answer to its exit, or without it.
Vanish(s) ==
  /\ life[s] = "quitting" /\ life' = [life EXCEPT ![s] = "gone"]
  /\ requests' \in Orphans(s, Vias)
  /\ dropped' = IF HasExit(requests, s) /\ ~HasExit(requests', s)
                THEN dropped \cup {s} ELSE dropped
  /\ serving' = LeftBehind(serving, s, "rpc")
  /\ sock' = [sock EXCEPT ![s] = [v \in Vias |-> "idle"]]
  /\ inbox' = [inbox EXCEPT ![s] = [v \in Vias |-> "none"]]
  /\ line' = [line EXCEPT ![s] = <<>>] /\ heard' = [heard EXCEPT ![s] = <<>>]
  /\ seq' = [seq EXCEPT ![s] = 0] /\ spread' = [spread EXCEPT ![s] = 0]
  /\ acked' = [acked EXCEPT ![s] = FALSE] /\ ended' = [ended EXCEPT ![s] = FALSE]
  /\ outcome' = [outcome EXCEPT ![s] = "none"]
  /\ UNCHANGED <<drv, cancelled, pending, made, task, restarted, ops,
                 refused, admitted, abandoned, asked, missed, interrupted, unsent>>

-----------------------------------------------------------------------------
(* drive_inference *)

\* Mutant: the flag is cleared, but the socket is not made anew.
StartDriveSameSocket(s) ==
  /\ life[s] \in {"ready", "released"} /\ drv[s] = "idle"
  /\ ops < MaxOps /\ ops' = ops + 1
  /\ Send(s, "rpc", "inference", seq[s])
  /\ UNCHANGED serving
  /\ drv' = [drv EXCEPT ![s] = "polling"] /\ pending' = [pending EXCEPT ![s] = TRUE]
  /\ seq' = [seq EXCEPT ![s] = @ + 1]
  /\ heard' = [heard EXCEPT ![s] = <<>>] /\ outcome' = [outcome EXCEPT ![s] = "none"]
  /\ acked' = [acked EXCEPT ![s] = FALSE] /\ ended' = [ended EXCEPT ![s] = FALSE]
  /\ asked' = asked \ {s} /\ missed' = missed \ {s}
  /\ UNCHANGED <<life, cancelled, made, task, restarted, line, spread,
                 refused, admitted, abandoned, exits>>

\* A new rpc socket if the last inference left a request on it, the subscription,
\* and the request.
StartDrive(s) ==
  /\ life[s] \in {"ready", "released"} /\ drv[s] = "idle"
  /\ ops < MaxOps /\ ops' = ops + 1
  /\ IF pending[s]
     THEN /\ \E left \in Orphans(s, {"rpc"}) :
               requests' = left \cup {Request(s, "rpc", "inference", seq[s])}
          /\ serving' = LeftBehind(serving, s, "rpc")
          /\ sock' = [sock EXCEPT ![s]["rpc"] = "waiting"]
          /\ inbox' = [inbox EXCEPT ![s]["rpc"] = "none"]
     ELSE Send(s, "rpc", "inference", seq[s]) /\ UNCHANGED serving
  /\ drv' = [drv EXCEPT ![s] = "polling"] /\ pending' = [pending EXCEPT ![s] = TRUE]
  /\ seq' = [seq EXCEPT ![s] = @ + 1]
  /\ heard' = [heard EXCEPT ![s] = <<>>] /\ outcome' = [outcome EXCEPT ![s] = "none"]
  /\ acked' = [acked EXCEPT ![s] = FALSE] /\ ended' = [ended EXCEPT ![s] = FALSE]
  /\ asked' = asked \ {s} /\ missed' = missed \ {s}
  /\ UNCHANGED <<life, cancelled, made, task, restarted, line, spread,
                 refused, admitted, abandoned, exits>>

Returns(s, how) ==
  /\ drv' = [drv EXCEPT ![s] = "idle"]
  /\ outcome' = [outcome EXCEPT ![s] = how]

\* Mutant: events of any topic are taken for the current inference's.
HearAnyTopic(s) ==
  /\ drv[s] = "polling" /\ line[s] # <<>>
  /\ heard' = [heard EXCEPT ![s] = Append(@, Head(line[s]))]
  /\ ended' = [ended EXCEPT ![s] = @ \/ Head(line[s]).n = Events]
  /\ line' = [line EXCEPT ![s] = Tail(@)]
  /\ UNCHANGED <<life, drv, cancelled, seq, pending, acked, outcome,
                 wires, node, spread, ops, history>>

\* One event received: given to the callback if its topic is the current one.
Hear(s) ==
  /\ drv[s] = "polling" /\ line[s] # <<>>
  /\ LET e == Head(line[s])
         mine == e.rid = seq[s] - 1
     IN /\ heard' = IF mine THEN [heard EXCEPT ![s] = Append(@, e)] ELSE heard
        /\ ended' = [ended EXCEPT ![s] = @ \/ (mine /\ e.n = Events)]
  /\ line' = [line EXCEPT ![s] = Tail(@)]
  /\ UNCHANGED <<life, drv, cancelled, seq, pending, acked, outcome,
                 wires, node, spread, ops, history>>

\* poll_response has the node's reply: the acknowledgement, or an error to throw.
TakeReply(s) ==
  /\ drv[s] = "polling" /\ ~acked[s]
  /\ Receive(s, "rpc")
  /\ pending' = [pending EXCEPT ![s] = FALSE]
  /\ IF inbox[s]["rpc"] = "ok"
     THEN acked' = [acked EXCEPT ![s] = TRUE] /\ UNCHANGED <<drv, outcome>>
     ELSE Returns(s, "error") /\ UNCHANGED acked
  /\ UNCHANGED <<life, cancelled, seq, heard, ended,
                 node, line, spread, ops, history>>

Complete(s) ==
  /\ drv[s] = "polling" /\ acked[s] /\ ended[s]
  /\ Returns(s, "ok")
  /\ UNCHANGED <<life, cancelled, seq, pending, heard, acked, ended,
                 wires, node, line, spread, ops, history>>

\* cancelled_ seen, the deadline passed, or no end of the stream 200 ms after the ack.
GiveUp(s) ==
  /\ drv[s] = "polling" /\ ~(acked[s] /\ ended[s])
  /\ Returns(s, IF cancelled[s] THEN "cancelled" ELSE "timeout")
  /\ abandoned' = abandoned \cup {s}
  /\ UNCHANGED <<life, cancelled, seq, pending, heard, acked, ended,
                 wires, node, line, spread, ops, refused, admitted, asked, missed, exits>>

-----------------------------------------------------------------------------
(* RuntimeNode: one request at a time; and its event stream *)

\* The reply goes to the socket the request came from, if it is still there.
Answer(r, reply) ==
  inbox' = IF r.live THEN [inbox EXCEPT ![r.sess][r.via] = reply] ELSE inbox

\* Mutant: a setup takes the place of the task the node has.
TakeReplacing(r) ==
  /\ serving = NoRequest /\ r \in requests /\ requests' = requests \ {r}
  /\ IF r.kind = "inference" /\ task # Nobody
     THEN serving' = r /\ made' = 0 /\ UNCHANGED <<task, inbox>>
     ELSE /\ Answer(r, IF r.kind = "setup" \/ task # Nobody THEN "ok" ELSE "error")
          /\ task' = CASE r.kind = "setup" -> r.sess
                       [] r.kind = "exit"  -> Nobody
                       [] OTHER            -> task
          /\ UNCHANGED <<serving, made>>
  /\ UNCHANGED <<client, sock, restarted, line, spread, ops, history>>

\* Mutant: requests whose sender is gone are not executed.
TakeIfHeard(r) ==
  /\ serving = NoRequest /\ r \in requests /\ requests' = requests \ {r}
  /\ IF r.kind = "inference" /\ task # Nobody
     THEN serving' = r /\ made' = 0 /\ UNCHANGED <<task, inbox>>
     ELSE /\ Answer(r, IF (r.kind = "setup") = (task = Nobody) THEN "ok" ELSE "error")
          /\ task' = CASE r.kind = "setup" /\ task = Nobody -> r.sess
                       [] r.kind = "exit" /\ r.live -> Nobody
                       [] OTHER            -> task
          /\ UNCHANGED <<serving, made>>
  /\ UNCHANGED <<client, sock, restarted, line, spread, ops, history>>

\* The node takes a request: setup needs that the work_id has no task, the others
\* that it has one.
Take(r) ==
  /\ serving = NoRequest /\ r \in requests /\ requests' = requests \ {r}
  /\ IF r.kind = "inference" /\ task # Nobody
     THEN serving' = r /\ made' = 0 /\ UNCHANGED <<task, inbox>>
     ELSE /\ Answer(r, IF (r.kind = "setup") = (task = Nobody) THEN "ok" ELSE "error")
          /\ task' = CASE r.kind = "setup" /\ task = Nobody -> r.sess
                       [] r.kind = "exit"  -> Nobody
                       [] OTHER            -> task
          /\ UNCHANGED <<serving, made>>
  /\ UNCHANGED <<client, sock, restarted, line, spread, ops, history>>

\* A request of inference of session s under the number it is at.
Current(s, r) == r.kind = "inference" /\ r.sess = s /\ r.rid = seq[s] - 1

\* An event reaches sessions whose subscription to its topic has arrived: those with room,
\* for a PUB socket drops what it has for a subscriber at its high-water mark.
Publish ==
  /\ serving # NoRequest /\ made < Events /\ made' = made + 1
  /\ \E full \in SUBSET {s \in Sessions : spread[s] > serving.rid} :
       /\ line' = [s \in Sessions |->
            IF spread[s] > serving.rid /\ s \notin full
            THEN Append(line[s], [sess |-> serving.sess, rid |-> serving.rid, n |-> made'])
            ELSE line[s]]
       /\ missed' = missed \cup {s \in full : Current(s, serving)}
       /\ \/ full = {} /\ UNCHANGED ops
          \/ full # {} /\ ops < MaxOps /\ ops' = ops + 1
  /\ UNCHANGED <<client, wires, serving, task, restarted, spread,
                 refused, admitted, abandoned, asked, exits>>

\* The inference ends: an acknowledgement after all its events, or an error (its
\* deadline) after some of them.
FinishInference ==
  /\ serving # NoRequest
  /\ \/ made = Events /\ Answer(serving, "ok")
     \/ Answer(serving, "error")
  /\ serving' = NoRequest /\ made' = 0
  /\ UNCHANGED <<client, sock, requests, task, restarted, line, spread, ops, history>>

\* A subscription arrives at the node's PUB socket, in the order they were made.
SubscriptionArrives(s) ==
  /\ life[s] # "gone" /\ spread[s] < seq[s]
  /\ spread' = [spread EXCEPT ![s] = @ + 1]
  /\ UNCHANGED <<client, wires, node, line, ops, history>>

\* The node restarts with no task; of the requests, those that had not been sent stay.
Restart ==
  /\ ops < MaxOps /\ ops' = ops + 1 /\ restarted' = TRUE
  /\ task' = Nobody /\ serving' = NoRequest /\ made' = 0
  /\ requests' \in SUBSET {r \in requests : r.live}
  /\ spread' = [s \in Sessions |-> 0]
  /\ UNCHANGED <<client, sock, inbox, line, history>>

NodeStep == (\E r \in requests : Take(r)) \/ Publish \/ FinishInference

SessionStep(s) ==
  \/ Connect(s) \/ SetupEnds(s) \/ Release(s) \/ CallEnds(s) \/ Destroy(s)
  \/ Leave(s) \/ Vanish(s)
  \/ Hear(s) \/ TakeReply(s) \/ Complete(s) \/ GiveUp(s)

Next ==
  \/ NodeStep \/ Restart
  \/ \E s \in Sessions : SessionStep(s) \/ Cancel(s) \/ StartDrive(s)
                         \/ SubscriptionArrives(s)

Spec == Init /\ [][Next]_vars

-----------------------------------------------------------------------------
(* Properties *)

\* No request is sent on an rpc socket that still awaits a reply: every exit of
\* drive_inference that leaves one behind (cancel, deadline, error) is made good by the
\* next inference.  On ctl, whose errors nobody sees, the exit that a destructor owes the
\* node is refused only when a signal ended a call of the session before: neither calls
\* without an answer nor cancels that meet on the socket leave it out of step.
SocketsInStep ==
  /\ TypeOK
  /\ \A s \in Sessions : sock[s]["rpc"] # "broken"
  /\ unsent \subseteq interrupted

\* An event of the session's current inference.
Own(s, e) == e.sess = s /\ e.rid = seq[s] - 1

\* An inference that returns its text has given the callback its own events in order, none
\* doubled and the last one among them, although the stream and the acknowledgement come
\* by different connections; and from the first it heard none is missing, unless the
\* node's PUB socket dropped one of them.
\* Events of another inference get in only when a session before gave up on one that
\* the node executes later, or when, after a restart or a refused setup, two sessions
\* are in use at once: the numbers, and so the topics, start anew with each session.
OkHasItsEvents ==
  \A s \in Sessions : outcome[s] = "ok" =>
    LET n == Len(heard[s])
        AllOwn == \A i \in 1..n : Own(s, heard[s][i])
    IN \/ /\ AllOwn /\ n > 0 /\ heard[s][n].n = Events
          /\ \A i \in 1..(n - 1) :
               \/ heard[s][i + 1].n = heard[s][i].n + 1
               \/ heard[s][i + 1].n > heard[s][i].n /\ s \in missed
       \/ /\ ~AllOwn
          /\ restarted \/ refused \/ \E p \in 1..(s - 1) : p \in abandoned

\* A session whose setup was acknowledged has its task at the node until it gives it
\* up, unless the node restarted or the setup of another session was refused: the
\* destructor of a refused session sends an exit for a task that is not its own.
ReadyHasTask ==
  \A s \in Sessions : life[s] = "ready" => task = s \/ restarted \/ refused

\* A session that is gone after an acknowledged setup leaves no task at the node but one
\* that its exit, still to be taken, will remove: the exit is executed although its caller
\* has stopped waiting for it, and no late request of the session brings the task back;
\* unless the socket refused the exit, or was destroyed with the exit still in it.
TaskReleased ==
  \A s \in admitted :
    life[s] = "gone" /\ task = s => HasExit(requests, s) \/ s \in unsent \cup dropped

\* What the tests say of a session after a cancel (session_net_e2e_test.cpp:362): an
\* inference ends as cancelled only if it was cancelled itself.
CancelledOnlyIfAsked ==
  \A s \in Sessions :
    life[s] = "ready" /\ outcome[s] = "cancelled" => s \in asked
=============================================================================
