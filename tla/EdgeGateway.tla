---------------------------- MODULE EdgeGateway ----------------------------
(***************************************************************************)
(* apps/edge_gateway on libs/network: one thread runs EventLoop::run, which *)
(* polls, gives each ready Channel its callbacks, then runs the queued      *)
(* tasks.  A TcpConnection reads NDJSON frames and answers each of them:    *)
(* with the Unit Manager's reply, for which the loop waits, or an error.    *)
(*                                                                         *)
(* Frames are numbered in the order their client sends them, and a reply    *)
(* has its frame's number; bytes, the splitting of frames over reads (see   *)
(* TextStreams) and buffers are counted in frames and replies.  A frame is  *)
(* longer than the decoder allows ("huge"), or so near to that limit that   *)
(* an error which echoes a part of it is longer than a message may be       *)
(* ("wide").  Clients and the kernel are external.  Each client connects    *)
(* once; the kernel gives a new connection the lowest free descriptor.      *)
(***************************************************************************)
EXTENDS Naturals, Sequences, FiniteSets

CONSTANTS
  Clients,    \* the connections, one per client
  Quota,      \* bound: the frames each client sends
  Kinds,      \* the frames they send
  OutputMax,  \* max_output_bytes_, in replies
  Room        \* replies the kernel keeps for a client that does not read

ASSUME EdgeGatewayAssumption ==
  /\ IsFiniteSet(Clients) /\ {"nobody", "accept", "wakeup", "start"} \cap Clients = {}
  /\ Quota \in [Clients -> Nat]
  /\ Kinds \subseteq {"line", "wide", "huge"}
  /\ OutputMax \in Nat \ {0} /\ Room \in Nat \ {0}

Fds == 1..Cardinality(Clients)
Replies == Seq(Nat)
Frames == Seq([n : Nat, kind : Kinds])
Nobody == "nobody"
Idle == [who |-> Nobody, read |-> FALSE, write |-> FALSE, error |-> FALSE]

VARIABLES
  peer,      \* the client's end: "away", "queued", "open", "shut", "reset"
  sent,      \* history: the number of frames the client has sent
  inbox,     \* frames the connection can read
  wire,      \* replies written, which the client has not read
  got,       \* replies the client has read
  backlog,   \* connections to be accepted
  loop,      \* where the loop's thread is
  batch,     \* ready channels of this round still to be dispatched
  cur,       \* the one being dispatched
  frames,    \* frames of the current read still to be handled
  over,      \* feed returned kOversized
  quit, woken, tasks,     \* quit_, the eventfd's count is not zero, pending_tasks_
  started,   \* TcpServer listens and its accept channel is in the poller
  table,     \* connections_, by descriptor
  channels,  \* Poller::channels_, by descriptor
  interest,  \* what epoll watches of a descriptor
  fd,        \* the descriptor of a connection's Channel, 0 before it is accepted
  closed, out  \* TcpConnection: closed_ and output_buffer_

client == <<peer, sent, got>>
kernel == <<inbox, wire, backlog>>
control == <<batch, cur, frames, over, quit>>
wakeup == <<woken, tasks>>
poller == <<channels, interest>>
conns == <<table, poller, fd, closed, out>>
vars == <<client, kernel, loop, control, wakeup, started, conns>>

EventType == [who : Clients \cup {"accept", "wakeup", Nobody},
              read : BOOLEAN, write : BOOLEAN, error : BOOLEAN]

TypeOK ==
  /\ peer \in [Clients -> {"away", "queued", "open", "shut", "reset"}]
  /\ sent \in [Clients -> Nat] /\ inbox \in [Clients -> Frames]
  /\ wire \in [Clients -> Replies] /\ got \in [Clients -> Replies]
  /\ backlog \in Seq(Clients)
  /\ loop \in {"poll", "wait", "dispatch", "accept", "read", "frames", "call", "write",
               "final", "stop", "ended", "thrown", "killed"}
  /\ batch \subseteq EventType /\ cur \in EventType /\ frames \in Frames
  /\ {over, quit, woken, started} \subseteq BOOLEAN
  /\ tasks \subseteq Clients \cup {"start"}
  /\ table \in [Fds -> Clients \cup {Nobody}]
  /\ channels \in [Fds -> Clients \cup {Nobody}]
  /\ interest \in [Fds -> SUBSET {"read", "write"}]
  /\ fd \in [Clients -> Fds \cup {0}]
  /\ closed \in [Clients -> BOOLEAN] /\ out \in [Clients -> Replies]

\* main: the start of the gateway is queued before run().
Init ==
  /\ peer = [c \in Clients |-> "away"] /\ sent = [c \in Clients |-> 0]
  /\ inbox = [c \in Clients |-> <<>>] /\ wire = [c \in Clients |-> <<>>]
  /\ got = [c \in Clients |-> <<>>] /\ backlog = <<>>
  /\ loop = "poll" /\ batch = {} /\ cur = Idle /\ frames = <<>> /\ over = FALSE
  /\ quit = FALSE /\ woken = TRUE /\ tasks = {"start"} /\ started = FALSE
  /\ table = [f \in Fds |-> Nobody] /\ channels = [f \in Fds |-> Nobody]
  /\ interest = [f \in Fds |-> {}]
  /\ fd = [c \in Clients |-> 0] /\ closed = [c \in Clients |-> FALSE]
  /\ out = [c \in Clients |-> <<>>]

Open(c) == fd[c] # 0 /\ ~closed[c]
Running == loop \notin {"ended", "killed"}

\* The process ends on the spot: to_json() throws and nobody catches it, or SIGPIPE,
\* which main leaves at its default, comes with a failed write.
Die == loop' = "killed" /\ UNCHANGED <<wakeup, conns>>

-----------------------------------------------------------------------------
(* The clients and the signal handler *)

Connect(c) ==
  /\ peer[c] = "away" /\ started /\ Running
  /\ peer' = [peer EXCEPT ![c] = "queued"] /\ backlog' = Append(backlog, c)
  /\ UNCHANGED <<sent, got, inbox, wire, loop, control, wakeup, started, conns>>

Submit(c, kind) ==
  /\ peer[c] \in {"queued", "open"} /\ ~closed[c] /\ Running
  /\ sent[c] < Quota[c]
  /\ sent' = [sent EXCEPT ![c] = @ + 1]
  /\ inbox' = [inbox EXCEPT ![c] = Append(@, [n |-> sent'[c], kind |-> kind])]
  /\ UNCHANGED <<peer, got, wire, backlog, loop, control, wakeup, started, conns>>

Receive(c) ==
  /\ wire[c] # <<>> /\ peer[c] \in {"open", "shut"}
  /\ got' = [got EXCEPT ![c] = Append(@, Head(wire[c]))]
  /\ wire' = [wire EXCEPT ![c] = Tail(@)]
  /\ UNCHANGED <<peer, sent, inbox, backlog, loop, control, wakeup, started, conns>>

\* The client shuts its side, or goes away: a reset drops what was not read.
Leave(c, how) ==
  /\ peer[c] = "open" /\ how \in {"shut", "reset"}
  /\ peer' = [peer EXCEPT ![c] = how]
  /\ inbox' = [inbox EXCEPT ![c] = IF how = "reset" THEN <<>> ELSE @]
  /\ UNCHANGED <<sent, got, wire, backlog, loop, control, wakeup, started, conns>>

\* Mutant: the handler raises the flag and does not wake the loop.
SignalSilent ==
  /\ ~quit /\ Running /\ quit' = TRUE
  /\ UNCHANGED <<client, kernel, loop, batch, cur, frames, over, wakeup, started, conns>>

Signal ==
  /\ ~quit /\ Running /\ quit' = TRUE /\ woken' = TRUE
  /\ UNCHANGED <<client, kernel, loop, batch, cur, frames, over, tasks, started, conns>>

-----------------------------------------------------------------------------
(* TcpConnection, in the loop's thread *)

\* Mutant: the close callback erases by the connection's descriptor, which is -1 by then.
CloseInLoopErasingNothing(c) ==
  IF closed[c] THEN UNCHANGED <<table, poller, closed, wakeup>>
  ELSE /\ closed' = [closed EXCEPT ![c] = TRUE]
       /\ channels' = [channels EXCEPT ![fd[c]] = Nobody]
       /\ interest' = [interest EXCEPT ![fd[c]] = {}]
       /\ tasks' = tasks \cup {c} /\ woken' = TRUE /\ UNCHANGED table

\* The task that is queued keeps the connection until the batch is over.
CloseInLoop(c) ==
  IF closed[c] THEN UNCHANGED <<table, poller, closed, wakeup>>
  ELSE /\ closed' = [closed EXCEPT ![c] = TRUE]
       /\ channels' = [channels EXCEPT ![fd[c]] = Nobody]
       /\ interest' = [interest EXCEPT ![fd[c]] = {}]
       /\ table' = [table EXCEPT ![fd[c]] = Nobody]
       /\ tasks' = tasks \cup {c} /\ woken' = TRUE

\* Mutant: a reply is queued and the channel is not told to watch for writing.
SendQuietly(c, n) ==
  IF ~closed[c] /\ Len(out[c]) >= OutputMax
    THEN CloseInLoop(c) /\ UNCHANGED out
    ELSE /\ out' = [out EXCEPT ![c] = IF closed[c] THEN @ ELSE Append(@, n)]
         /\ UNCHANGED <<closed, table, poller, wakeup>>

\* A slow client, whose replies do not fit any more, is disconnected.
Send(c, n) ==
  \/ closed[c] /\ UNCHANGED <<closed, table, poller, wakeup, out>>
  \/ ~closed[c] /\ Len(out[c]) >= OutputMax /\ CloseInLoop(c) /\ UNCHANGED out
  \/ /\ ~closed[c] /\ Len(out[c]) < OutputMax
     /\ out' = [out EXCEPT ![c] = Append(@, n)]
     /\ interest' = [interest EXCEPT ![fd[c]] = @ \cup {"write"}]
     /\ UNCHANGED <<closed, table, channels, wakeup>>

\* After the read callback comes the write callback, if the channel was ready for it.
AfterRead == IF cur.write THEN "write" ELSE "dispatch"

\* One read: all there is, decoded, up to a frame that is too long; or nothing is left,
\* the end of the stream, an error.
Read ==
  /\ loop = "read"
  /\ LET c == cur.who
         long == {i \in DOMAIN inbox[c] : inbox[c][i].kind = "huge"}
     IN \/ /\ ~closed[c] /\ inbox[c] # <<>>
           /\ over' = (long # {})
           /\ \/ long = {} /\ frames' = inbox[c]
              \/ \E i \in long : (\A j \in long : i <= j) /\ frames' = SubSeq(inbox[c], 1, i - 1)
           /\ inbox' = [inbox EXCEPT ![c] = <<>>]
           /\ loop' = "frames" /\ UNCHANGED <<wakeup, conns>>
        \/ /\ closed[c] \/ inbox[c] = <<>>
           /\ loop' = AfterRead /\ UNCHANGED <<frames, over, inbox>>
           /\ IF peer[c] \in {"shut", "reset"} THEN CloseInLoop(c)
                                             ELSE UNCHANGED <<table, poller, closed, wakeup>>
           /\ UNCHANGED <<fd, out>>
  /\ UNCHANGED <<client, wire, backlog, batch, cur, quit, started>>

\* handle_message of the next frame, even if the frame before closed the connection: one
\* that is no action is answered at once, if the answer is no longer than a message may be;
\* an action is given to the manager.
HandleMessage ==
  /\ loop = "frames" /\ frames # <<>>
  /\ \/ loop' = "call" /\ UNCHANGED <<frames, wakeup, conns>>
     \/ /\ Send(cur.who, Head(frames).n) /\ frames' = Tail(frames)
        /\ UNCHANGED <<loop, fd>>
     \/ Head(frames).kind = "wide" /\ Die /\ UNCHANGED frames
  /\ UNCHANGED <<client, kernel, batch, cur, over, quit, started>>

\* forward_to_manager: a reply or, at the deadline, an error, to be sent to the client;
\* the error has the names of the request.
Forwarded ==
  /\ loop = "call"
  /\ \/ /\ Send(cur.who, Head(frames).n) /\ frames' = Tail(frames)
        /\ loop' = "frames" /\ UNCHANGED fd
     \/ Head(frames).kind = "wide" /\ Die /\ UNCHANGED frames
  /\ UNCHANGED <<client, kernel, batch, cur, over, quit, started>>

\* The frames are done: the next read, or the end of a connection that broke the protocol.
FramesDone ==
  /\ loop = "frames" /\ frames = <<>>
  /\ IF over THEN CloseInLoop(cur.who) /\ loop' = AfterRead
             ELSE loop' = "read" /\ UNCHANGED <<table, poller, closed, wakeup>>
  /\ over' = FALSE
  /\ UNCHANGED <<client, kernel, batch, cur, frames, quit, started, fd, out>>

\* Mutant: what was written stays in the buffer.
WrittenAgain(c) == out

\* What remains of the buffer after write() took some of it: here, one reply.
Written(c) == [out EXCEPT ![c] = Tail(@)]

\* handle_write.  A closed connection has no descriptor: writing fails, and without
\* anything to write its channel would be given to epoll again, which throws.  To a
\* peer that is gone, writing fails with ECONNRESET, or with EPIPE and its signal.
Write ==
  /\ loop = "write"
  /\ LET c == cur.who
     IN \/ /\ closed[c]
           /\ loop' = IF out[c] = <<>> THEN "thrown" ELSE "dispatch"
           /\ UNCHANGED <<wire, wakeup, conns>>
        \/ /\ ~closed[c] /\ out[c] # <<>> /\ peer[c] # "reset" /\ Len(wire[c]) < Room
           /\ wire' = [wire EXCEPT ![c] = Append(@, Head(out[c]))]
           /\ out' = Written(c)
           /\ UNCHANGED <<loop, wakeup, table, poller, fd, closed>>
        \/ /\ ~closed[c] /\ out[c] # <<>> /\ peer[c] # "reset" /\ Len(wire[c]) >= Room
           /\ loop' = "dispatch" /\ UNCHANGED <<wire, wakeup, conns>>
        \/ /\ ~closed[c] /\ out[c] # <<>> /\ peer[c] = "reset"
           /\ \/ CloseInLoop(c) /\ loop' = "dispatch" /\ UNCHANGED <<fd, out>>
              \/ Die
           /\ UNCHANGED wire
        \/ /\ ~closed[c] /\ out[c] = <<>>
           /\ interest' = [interest EXCEPT ![fd[c]] = @ \ {"write"}]
           /\ loop' = "dispatch" /\ UNCHANGED <<wire, wakeup, table, channels, fd, closed, out>>
  /\ UNCHANGED <<client, inbox, backlog, control, started>>

-----------------------------------------------------------------------------
(* TcpServer *)

\* One turn of handle_accept's loop, which goes on until nobody waits.
Accept ==
  /\ loop = "accept"
  /\ IF backlog = <<>> THEN loop' = "dispatch" /\ UNCHANGED <<peer, backlog, conns>>
     ELSE LET c == Head(backlog)
              free == {f \in Fds : \A d \in Clients : Open(d) => fd[d] # f}
          IN \E f \in free :
               /\ \A g \in free : f <= g
               /\ backlog' = Tail(backlog) /\ peer' = [peer EXCEPT ![c] = "open"]
               /\ fd' = [fd EXCEPT ![c] = f]
               /\ channels' = [channels EXCEPT ![f] = c]
               /\ interest' = [interest EXCEPT ![f] = {"read"}]
               /\ table' = [table EXCEPT ![f] = c]
               /\ UNCHANGED <<loop, closed, out>>
  /\ UNCHANGED <<sent, got, inbox, wire, control, wakeup, started>>

\* gateway.start(): it listens, or it throws and the loop is told to quit.
Start ==
  \/ started' = TRUE /\ UNCHANGED <<quit, woken>>
  \/ quit' = TRUE /\ woken' = TRUE /\ UNCHANGED started

\* stop() in main, after the loop: the listener and then every connection.
Stop ==
  /\ loop = "stop" /\ loop' = "ended" /\ started' = FALSE
  /\ IF started
       THEN /\ closed' = [c \in Clients |-> closed[c] \/ fd[c] # 0]
            /\ table' = [f \in Fds |-> Nobody]
            /\ channels' = [f \in Fds |-> Nobody] /\ interest' = [f \in Fds |-> {}]
            /\ tasks' = tasks \cup {c \in Clients : Open(c)}
            /\ woken' = (woken \/ \E c \in Clients : Open(c))
       ELSE UNCHANGED <<closed, table, poller, wakeup>>
  /\ UNCHANGED <<client, kernel, control, fd, out>>

-----------------------------------------------------------------------------
(* EventLoop::run *)

\* What epoll_wait finds: level-triggered, a reset being an error whatever is watched.
EventOf(c) ==
  [who |-> c,
   read |-> inbox[c] # <<>> \/ peer[c] \in {"shut", "reset"},
   write |-> "write" \in interest[fd[c]] /\ (Len(wire[c]) < Room \/ peer[c] = "reset"),
   error |-> peer[c] = "reset"]

Ready ==
  {EventOf(c) : c \in {d \in Clients : Open(d) /\ (EventOf(d).read \/ EventOf(d).write)}}
    \cup {[Idle EXCEPT !.who = w, !.read = TRUE] :
            w \in {v \in {"accept", "wakeup"} :
                    IF v = "accept" THEN started /\ backlog # <<>> ELSE woken}}

\* run: quit_ is read before the first round, and then between two rounds.
CheckQuit ==
  /\ loop = "poll" /\ loop' = IF quit THEN "final" ELSE "wait"
  /\ UNCHANGED <<client, kernel, control, wakeup, started, conns>>

Poll ==
  /\ loop = "wait" /\ Ready # {} /\ batch' = Ready /\ loop' = "dispatch"
  /\ UNCHANGED <<client, kernel, cur, frames, over, quit, wakeup, started, conns>>

\* The signal comes during the wait; when it comes before, nothing interrupts it.
Interrupted ==
  /\ loop = "wait" /\ quit /\ loop' = "dispatch"
  /\ UNCHANGED <<client, kernel, control, wakeup, started, conns>>

\* Channel::handle_events: an error alone, else the read and then the write callback.
Dispatch(e) ==
  /\ loop = "dispatch" /\ e \in batch
  /\ batch' = batch \ {e} /\ cur' = e
  /\ \/ /\ e.who = "wakeup"
        /\ woken' = FALSE /\ UNCHANGED <<loop, tasks, table, poller, closed>>
     \/ /\ e.who = "accept"
        /\ loop' = "accept" /\ UNCHANGED <<wakeup, table, poller, closed>>
     \/ e.who \in Clients /\ e.error /\ CloseInLoop(e.who) /\ UNCHANGED loop
     \/ /\ e.who \in Clients /\ ~e.error
        /\ loop' = IF e.read THEN "read" ELSE "write"
        /\ UNCHANGED <<wakeup, table, poller, closed>>
  /\ UNCHANGED <<client, kernel, frames, over, quit, started, fd, out>>

\* run_pending_tasks, after each batch, before quit_ is read again, and after the last.
RunPendingTasks ==
  /\ (loop = "dispatch" /\ batch = {}) \/ loop = "final"
  /\ tasks' = {} /\ cur' = Idle
  /\ IF "start" \in tasks THEN Start ELSE UNCHANGED <<started, quit, woken>>
  /\ loop' = IF loop = "final" THEN "stop" ELSE IF quit' THEN "final" ELSE "wait"
  /\ UNCHANGED <<client, kernel, batch, frames, over, conns>>

Loop ==
  \/ CheckQuit \/ Poll \/ RunPendingTasks \/ Accept \/ Stop
  \/ Read \/ HandleMessage \/ Forwarded \/ FramesDone \/ Write
  \/ \E e \in batch : Dispatch(e)

Next ==
  \/ Loop \/ Signal \/ Interrupted
  \/ \E c \in Clients :
       \/ Connect(c) \/ Receive(c)
       \/ \E kind \in Kinds : Submit(c, kind)
       \/ \E how \in {"shut", "reset"} : Leave(c, how)

Spec == Init /\ [][Next]_vars

\* The loop runs, the manager's call ending at its deadline at the latest; the clients
\* read what is sent to them.
FairSpec == Spec /\ WF_vars(Loop) /\ \A c \in Clients : WF_vars(Receive(c))

-----------------------------------------------------------------------------
(* Properties *)

\* connections_, the poller's map and epoll hold the open connections and nobody else,
\* each under its own descriptor, and outside of handle_write writing is watched exactly
\* while there is something to write: else the write callback of a connection
\* closed in its read callback would register a descriptor that is another's by then, or
\* end the loop by the exception of the poller.
TablesAgree ==
  /\ TypeOK /\ loop # "thrown" /\ table = channels
  /\ \A f \in Fds, c \in Clients : table[f] = c <=> Open(c) /\ fd[c] = f
  /\ \A c \in Clients : Open(c) /\ (loop \in {"write", "killed"} => cur.who # c) =>
       interest[fd[c]] = IF out[c] = <<>> THEN {"read"} ELSE {"read", "write"}

\* Each frame of a connection is answered once and in order, and none is lost between
\* the kernel, the decoder, the manager and the output buffer.
RepliesInOrder ==
  \A c \in Clients :
    LET answered == got[c] \o wire[c] \o out[c]
        rest == (IF cur.who = c THEN frames ELSE <<>>) \o inbox[c]
    IN /\ \A i \in DOMAIN answered : answered[i] = i
       /\ ~closed[c] /\ peer[c] # "reset" /\ ~(over /\ cur.who = c) =>
            /\ Len(answered) + Len(rest) = sent[c]
            /\ \A i \in DOMAIN rest : rest[i].n = Len(answered) + i

\* A client that stays, and reads, gets its answers, unless it is disconnected or a
\* client, this or another, brought the process down, by a frame whose error is too long
\* for a message or by going away.
AnswersArrive ==
  \A c \in Clients :
    (peer[c] = "open" /\ sent[c] # 0)
      ~> \/ Len(got[c]) = sent[c] \/ closed[c] \/ peer[c] # "open" \/ quit
         \/ loop = "killed"

\* After a signal or a failed start, whenever they come, the process ends: the loop is
\* woken, drains its tasks, and nothing stays open, unless the process ends before that.
QuitEnds ==
  quit ~> \/ loop = "killed"
          \/ loop = "ended" /\ ~started /\ \A c \in Clients : ~Open(c)
=============================================================================
