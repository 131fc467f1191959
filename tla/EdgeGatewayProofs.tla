-------------------------- MODULE EdgeGatewayProofs --------------------------
(***************************************************************************)
(* The gateway: its tables agree, and every frame is answered once and in  *)
(* order, for any number of clients and frames, and any sizes of buffers.   *)
(***************************************************************************)
EXTENDS EdgeGateway, TLAPS

USE EdgeGatewayAssumption

Reading == {"read", "frames", "call"}
Busy == Reading \cup {"write"}

\* Where the loop is against what it holds: a batch while it dispatches, the connection it
\* calls back, the frames of one read, and a reason to write.
LoopInv ==
  /\ loop \in {"poll", "wait", "final", "stop", "ended"} => batch = {}
  /\ loop \in Busy => cur.who \in Clients /\ fd[cur.who] # 0
  /\ loop \in Reading /\ cur.write => out[cur.who] # <<>>
  /\ loop = "write" /\ closed[cur.who] => out[cur.who] # <<>>
  /\ loop = "write" /\ ~closed[cur.who] => interest[fd[cur.who]] = {"read", "write"}
  /\ frames # <<>> => loop \in {"frames", "call", "killed"}
  /\ loop = "call" => frames # <<>>
  /\ over => loop \in {"frames", "call", "killed"}
  /\ loop # "thrown"

\* The rest of the batch: each channel once, the one called back not again, and a
\* connection that is to write has something to write still.
BatchInv ==
  /\ \A e, d \in batch : e.who = d.who => e = d
  /\ loop \in Busy \cup {"accept"} => \A e \in batch : e.who # cur.who
  /\ \A e \in batch : e.who \in Clients =>
       fd[e.who] # 0 /\ (e.read \/ e.write) /\ (e.write => out[e.who] # <<>>)
  /\ \A e \in batch : e.who # Nobody

\* Connections that wait to be accepted have nothing yet, and those reset have nothing left.
QueueInv ==
  /\ \A i \in DOMAIN backlog : peer[backlog[i]] = "queued"
  /\ \A i, j \in DOMAIN backlog : backlog[i] = backlog[j] => i = j
  /\ \A c \in Clients : peer[c] \in {"away", "queued"} => fd[c] = 0
  /\ \A c \in Clients : fd[c] = 0 => ~closed[c] /\ out[c] = <<>>
  /\ \A c \in Clients : peer[c] = "reset" => inbox[c] = <<>>

MapsInv ==
  /\ table = channels
  /\ \A f \in Fds, c \in Clients : table[f] = c <=> Open(c) /\ fd[c] = f

WatchInv ==
  \A c \in Clients : Open(c) /\ (loop \in {"write", "killed"} => cur.who # c) =>
    interest[fd[c]] = IF out[c] = <<>> THEN {"read"} ELSE {"read", "write"}

Answered(c) == got[c] \o wire[c] \o out[c]
Held(c) == IF cur.who = c THEN frames ELSE <<>>

\* Answered, held and unread frames are numbered one after the other; what a connection
\* that is gone had no longer matters, nor what is behind a line that broke the protocol.
InOrder(answered, held, unread, count, gone, cut) ==
  /\ \A i \in DOMAIN answered : answered[i] = i
  /\ ~gone => \A i \in DOMAIN held : held[i].n = Len(answered) + i
  /\ ~gone /\ ~cut =>
       /\ Len(answered) + Len(held) + Len(unread) = count
       /\ \A i \in DOMAIN unread : unread[i].n = Len(answered) + Len(held) + i

Cut(c) == peer[c] = "reset" \/ (over /\ cur.who = c)

AnswerInv ==
  \A c \in Clients : InOrder(Answered(c), Held(c), inbox[c], sent[c], closed[c], Cut(c))

Inv == TypeOK /\ LoopInv /\ BatchInv /\ QueueInv /\ MapsInv /\ WatchInv /\ AnswerInv
-----------------------------------------------------------------------------
(* Lemmas *)

\* The names of the loop's own channels are no clients, and 0 is no descriptor.
LEMMA Constants ==
  /\ Nobody \notin Clients /\ "accept" \notin Clients /\ "wakeup" \notin Clients
  /\ "start" \notin Clients /\ Fds \subseteq Nat /\ 0 \notin Fds
  /\ Idle \in EventType /\ Idle.who = Nobody
  BY DEF Nobody, Fds, Idle, EventType

\* A close takes one connection out of every table and leaves the others there.
LEMMA CloseFacts ==
  ASSUME TypeOK, MapsInv, NEW c \in Clients, fd[c] # 0, CloseInLoop(c), fd' = fd
  PROVE  /\ closed' = [closed EXCEPT ![c] = TRUE] /\ closed' \in [Clients -> BOOLEAN]
         /\ table' \in [Fds -> Clients \cup {Nobody}]
         /\ channels' \in [Fds -> Clients \cup {Nobody}]
         /\ interest' \in [Fds -> SUBSET {"read", "write"}]
         /\ woken' \in BOOLEAN /\ tasks' \subseteq Clients \cup {"start"}
         /\ MapsInv'
         /\ \A d \in Clients : Open(d) /\ d # c => interest'[fd[d]] = interest[fd[d]]
  <1>1. fd[c] \in Fds /\ closed \in [Clients -> BOOLEAN] /\ fd \in [Clients -> Fds \cup {0}]
    BY DEF TypeOK
  <1>2. /\ table \in [Fds -> Clients \cup {Nobody}] /\ channels \in [Fds -> Clients \cup {Nobody}]
        /\ interest \in [Fds -> SUBSET {"read", "write"}] /\ tasks \subseteq Clients \cup {"start"}
        /\ woken \in BOOLEAN
    BY DEF TypeOK
  <1>3. CASE closed[c]
    <2>1. /\ closed' = closed /\ table' = table /\ channels' = channels /\ interest' = interest
          /\ tasks' = tasks /\ woken' = woken
      BY <1>3 DEF CloseInLoop, poller, wakeup
    <2>2. closed' = [closed EXCEPT ![c] = TRUE] BY <1>1, <1>3, <2>1
    <2>3. MapsInv' BY <2>1 DEF MapsInv, Open
    <2> QED BY <1>1, <1>2, <2>1, <2>2, <2>3
  <1>4. CASE ~closed[c]
    <2>1. /\ closed' = [closed EXCEPT ![c] = TRUE]
          /\ channels' = [channels EXCEPT ![fd[c]] = Nobody]
          /\ interest' = [interest EXCEPT ![fd[c]] = {}]
          /\ table' = [table EXCEPT ![fd[c]] = Nobody]
          /\ tasks' = tasks \cup {c} /\ woken' = TRUE
      BY <1>4 DEF CloseInLoop
    <2>2. table' = channels' BY <2>1 DEF MapsInv
    <2>3. ASSUME NEW f \in Fds, NEW d \in Clients
          PROVE  table'[f] = d <=> (fd[d] # 0 /\ ~closed'[d]) /\ fd[d] = f
      <3>1. CASE d = c BY <3>1, <2>1, <1>1, <1>2, Constants DEF MapsInv, Open
      <3>2. CASE d # c
        <4>1. closed'[d] = closed[d] BY <3>2, <2>1, <1>1
        <4>2. table[fd[c]] = c BY <1>1, <1>4 DEF MapsInv, Open
        <4>3. table[f] = d <=> (fd[d] # 0 /\ ~closed[d]) /\ fd[d] = f BY DEF MapsInv, Open
        <4>4. table'[f] = IF f = fd[c] THEN Nobody ELSE table[f] BY <2>1, <1>2
        <4> QED BY <4>1, <4>2, <4>3, <4>4, <3>2, Constants
      <3> QED BY <3>1, <3>2
    <2>4. MapsInv' BY <2>2, <2>3 DEF MapsInv, Open
    <2>5. ASSUME NEW d \in Clients, Open(d), d # c
          PROVE  interest'[fd[d]] = interest[fd[d]]
      <3>1. fd[d] \in Fds /\ table[fd[d]] = d /\ table[fd[c]] = c
        BY <2>5, <1>1, <1>4 DEF MapsInv, Open
      <3>2. fd[d] # fd[c] BY <3>1, <2>5
      <3> QED BY <3>1, <3>2, <2>1, <1>1, <1>2
    <2> QED BY <1>1, <1>2, <2>1, <2>4, <2>5
  <1> QED BY <1>1, <1>3, <1>4

\* A reply is queued and the descriptor watched for it; or nothing is queued, since the
\* connection is closed, now or before.
LEMMA SendFacts ==
  ASSUME TypeOK, MapsInv, NEW c \in Clients, NEW n \in Nat, fd[c] # 0, Send(c, n), fd' = fd
  PROVE  /\ closed' \in [Clients -> BOOLEAN] /\ out' \in [Clients -> Replies]
         /\ table' \in [Fds -> Clients \cup {Nobody}]
         /\ channels' \in [Fds -> Clients \cup {Nobody}]
         /\ interest' \in [Fds -> SUBSET {"read", "write"}]
         /\ woken' \in BOOLEAN /\ tasks' \subseteq Clients \cup {"start"}
         /\ MapsInv'
         /\ \A d \in Clients : Open(d) /\ d # c => interest'[fd[d]] = interest[fd[d]]
         /\ \A d \in Clients : d # c => closed'[d] = closed[d] /\ out'[d] = out[d]
         /\ closed[c] => closed'[c]
         /\ closed'[c] => out' = out
         /\ ~closed'[c] => /\ ~closed[c] /\ out'[c] = Append(out[c], n)
                           /\ interest'[fd[c]] = interest[fd[c]] \cup {"write"}
         /\ \A d \in Clients : out[d] # <<>> => out'[d] # <<>>
  <1>1. fd[c] \in Fds /\ closed \in [Clients -> BOOLEAN] /\ fd \in [Clients -> Fds \cup {0}]
        /\ out \in [Clients -> Replies] /\ interest \in [Fds -> SUBSET {"read", "write"}]
        /\ tasks \subseteq Clients \cup {"start"} /\ woken \in BOOLEAN
        /\ table \in [Fds -> Clients \cup {Nobody}] /\ channels \in [Fds -> Clients \cup {Nobody}]
    BY DEF TypeOK
  <1>2. CASE closed[c]
    <2>1. /\ closed' = closed /\ table' = table /\ channels' = channels /\ interest' = interest
          /\ tasks' = tasks /\ woken' = woken /\ out' = out
      BY <1>2 DEF Send, poller, wakeup
    <2>2. MapsInv' BY <2>1 DEF MapsInv, Open
    <2> QED BY <2>1, <2>2, <1>1, <1>2
  <1>3. CASE ~closed[c] /\ Len(out[c]) >= OutputMax
    <2>1. CloseInLoop(c) /\ out' = out BY <1>3 DEF Send
    <2>2. closed'[c] /\ \A d \in Clients : d # c => closed'[d] = closed[d]
      BY <2>1, <1>1, CloseFacts
    <2> HIDE DEF MapsInv, Open
    <2> QED BY <2>1, <2>2, <1>1, CloseFacts
  <1>4. CASE ~closed[c] /\ ~(Len(out[c]) >= OutputMax)
    <2>1. /\ out' = [out EXCEPT ![c] = Append(@, n)]
          /\ interest' = [interest EXCEPT ![fd[c]] = @ \cup {"write"}]
          /\ closed' = closed /\ table' = table /\ channels' = channels
          /\ tasks' = tasks /\ woken' = woken
      BY <1>4 DEF Send, wakeup
    <2>2. MapsInv' BY <2>1 DEF MapsInv, Open
    <2>3. out[c] \in Seq(Nat) /\ out'[c] = Append(out[c], n) BY <2>1, <1>1 DEF Replies
    <2>4. out'[c] \in Seq(Nat) /\ out'[c] # <<>> BY <2>3
    <2>5. out' \in [Clients -> Replies] BY <2>1, <2>3, <1>1 DEF Replies
    <2>6. ASSUME NEW d \in Clients, Open(d), d # c
          PROVE  interest'[fd[d]] = interest[fd[d]]
      <3>1. fd[d] \in Fds /\ table[fd[d]] = d /\ table[fd[c]] = c
        BY <2>6, <1>1, <1>4 DEF MapsInv, Open
      <3>2. fd[d] # fd[c] BY <3>1, <2>6
      <3> QED BY <3>1, <3>2, <2>1, <1>1
    <2>7. /\ interest'[fd[c]] = interest[fd[c]] \cup {"write"}
          /\ interest' \in [Fds -> SUBSET {"read", "write"}]
      BY <2>1, <1>1
    <2>8. \A d \in Clients : d # c => closed'[d] = closed[d] /\ out'[d] = out[d]
      BY <2>1, <1>1
    <2> QED BY <1>1, <1>4, <2>1, <2>2, <2>3, <2>4, <2>5, <2>6, <2>7, <2>8
  <1> QED BY <1>2, <1>3, <1>4

\* The first element moves to the end of another sequence.
LEMMA HeadMoves ==
  ASSUME NEW S, NEW s \in Seq(S), NEW t \in Seq(S), t # <<>>
  PROVE  Append(s, Head(t)) \o Tail(t) = s \o t
  <1>1. Head(t) \in S /\ Tail(t) \in Seq(S) /\ Len(Tail(t)) = Len(t) - 1 OBVIOUS
  <1> QED BY <1>1

\* The head and the tail of a sequence.
LEMMA TailOf ==
  ASSUME NEW S, NEW t \in Seq(S), t # <<>>
  PROVE  /\ Head(t) = t[1] /\ 1 \in DOMAIN t /\ t[1] \in S /\ Tail(t) \in Seq(S)
         /\ Len(Tail(t)) = Len(t) - 1 /\ DOMAIN Tail(t) = 1..(Len(t) - 1)
         /\ \A i \in DOMAIN Tail(t) : Tail(t)[i] = t[i + 1] /\ i + 1 \in DOMAIN t
  <1>1. Len(t) \in Nat /\ Len(t) # 0 /\ DOMAIN t = 1..Len(t) OBVIOUS
  <1>2. Head(t) = t[1] /\ t[1] \in S /\ Tail(t) \in Seq(S) /\ Len(Tail(t)) = Len(t) - 1
    BY <1>1
  <1>3. \A i \in 1..(Len(t) - 1) : Tail(t)[i] = t[i + 1] BY <1>1
  <1> QED BY <1>1, <1>2, <1>3

\* The elements of two sequences joined.
LEMMA Joined ==
  ASSUME NEW S, NEW s \in Seq(S), NEW t \in Seq(S)
  PROVE  /\ Len(s \o t) = Len(s) + Len(t) /\ Len(s) \in Nat /\ Len(t) \in Nat
         /\ DOMAIN s = 1..Len(s) /\ DOMAIN t = 1..Len(t)
         /\ DOMAIN (s \o t) = 1..(Len(s) + Len(t))
         /\ \A i \in 1..(Len(s) + Len(t)) :
              (s \o t)[i] = IF i <= Len(s) THEN s[i] ELSE t[i - Len(s)]
  OBVIOUS

\* Sequences of replies: one moves on, or one is appended.
LEMMA WireToGot ==
  ASSUME NEW g \in Replies, NEW w \in Replies, NEW o \in Replies, w # <<>>
  PROVE  Append(g, Head(w)) \o Tail(w) \o o = g \o w \o o
  BY HeadMoves, ZenonT(30) DEF Replies

\* A reply goes from the output buffer to the kernel.
LEMMA OutToWire ==
  ASSUME NEW g \in Replies, NEW w \in Replies, NEW o \in Replies, o # <<>>
  PROVE  g \o Append(w, Head(o)) \o Tail(o) = g \o w \o o
  <1> USE DEF Replies
  <1>1. g \o w \in Seq(Nat) /\ Head(o) \in Nat OBVIOUS
  <1>2. g \o Append(w, Head(o)) = Append(g \o w, Head(o)) BY SMTT(20), ZenonT(30), <1>1
  <1>3. Append(g \o w, Head(o)) \o Tail(o) = (g \o w) \o o BY <1>1, HeadMoves, Zenon
  <1> QED BY <1>2, <1>3, Zenon

\* A reply is put in the output buffer.
LEMMA OutGrows ==
  ASSUME NEW g \in Replies, NEW w \in Replies, NEW o \in Replies, NEW n \in Nat
  PROVE  /\ g \o w \o o \in Seq(Nat)
         /\ g \o w \o Append(o, n) = Append(g \o w \o o, n)
  <1> USE DEF Replies
  <1>1. g \o w \in Seq(Nat) /\ g \o w \o o \in Seq(Nat) OBVIOUS
  <1> QED BY <1>1

-----------------------------------------------------------------------------
(* One lemma per action, or per group that leaves the connections alone *)

\* The gateway starts with nothing.
LEMMA InitInv == Init => Inv
  <1> SUFFICES ASSUME Init PROVE Inv OBVIOUS
  <1>1. TypeOK
    <2>1. <<>> \in Frames /\ <<>> \in Replies /\ <<>> \in Seq(Clients)
      BY DEF Frames, Replies
    <2>2. {"start"} \subseteq Clients \cup {"start"} /\ {} \subseteq EventType OBVIOUS
    <2> QED BY <2>1, <2>2, Constants DEF Init, TypeOK
  <1>2. LoopInv BY DEF Init, LoopInv, Busy, Reading
  <1>3. BatchInv BY DEF Init, BatchInv
  <1>4. QueueInv BY DEF Init, QueueInv
  <1>5. MapsInv BY Constants DEF Init, MapsInv, Open
  <1>6. WatchInv BY DEF Init, WatchInv, Open
  <1>7. AnswerInv
    <2>1. InOrder(<<>>, <<>>, <<>>, 0, FALSE, FALSE)
      <3>1. DOMAIN <<>> = {} /\ Len(<<>>) = 0 OBVIOUS
      <3> QED BY <3>1 DEF InOrder
    <2>2. ASSUME NEW c \in Clients
          PROVE  /\ Answered(c) = <<>> /\ Held(c) = <<>> /\ inbox[c] = <<>> /\ sent[c] = 0
                 /\ closed[c] = FALSE /\ Cut(c) = FALSE
      <3>1. got[c] = <<>> /\ wire[c] = <<>> /\ out[c] = <<>> BY DEF Init
      <3>2. <<>> \o <<>> \o <<>> = <<>> OBVIOUS
      <3> QED BY <3>1, <3>2 DEF Init, Answered, Held, Cut
    <2> QED BY <2>1, <2>2 DEF AnswerInv
  <1> QED BY <1>1, <1>2, <1>3, <1>4, <1>5, <1>6, <1>7 DEF Inv

\* What AnswerInv is about is left alone.
LEMMA AnswersStay ==
  ASSUME AnswerInv, UNCHANGED <<got, wire, out, inbox, sent, closed, peer, over, frames>>,
         UNCHANGED cur \/ (frames = <<>> /\ ~over)
  PROVE  AnswerInv'
  <1>1. ASSUME NEW c \in Clients
        PROVE  /\ Answered(c)' = Answered(c) /\ Held(c)' = Held(c)
               /\ inbox'[c] = inbox[c] /\ sent'[c] = sent[c] /\ closed'[c] = closed[c]
               /\ Cut(c)' = Cut(c)
    BY DEF Answered, Held, Cut
  <1> QED BY <1>1 DEF AnswerInv

\* CheckQuit, RunPendingTasks, Interrupted, Signal: the loop between its batches.
LEMMA BetweenBatches ==
  ASSUME Inv, CheckQuit \/ RunPendingTasks \/ Interrupted \/ Signal
  PROVE  Inv'
  <1>1. UNCHANGED <<client, kernel, batch, frames, over, conns>>
    BY DEF CheckQuit, RunPendingTasks, Interrupted, Signal, control, conns, poller
  <1>2. TypeOK'
    <2>1. CASE CheckQuit
      BY <2>1 DEF Inv, TypeOK, CheckQuit, client, kernel, control, wakeup, conns, poller
    <2>2. CASE RunPendingTasks
      BY <2>2, Constants DEF Inv, TypeOK, RunPendingTasks, Start, client, kernel, conns, poller
    <2>3. CASE Interrupted
      BY <2>3 DEF Inv, TypeOK, Interrupted, client, kernel, control, wakeup, conns, poller
    <2>4. CASE Signal
      BY <2>4 DEF Inv, TypeOK, Signal, client, kernel, conns, poller
    <2> QED BY <2>1, <2>2, <2>3, <2>4
  <1>3. /\ loop \in Busy \/ loop = "accept" => loop' = loop /\ cur' = cur
        /\ loop' \in Busy \/ loop' = "accept" => loop' = loop /\ cur' = cur
        /\ cur' = cur \/ (cur' = Idle /\ loop \in {"dispatch", "final"})
        /\ loop # "killed" /\ loop' \notin {"thrown", "killed"}
        /\ loop' \in {"poll", "wait", "final", "stop", "ended"} => batch = {}
    BY <1>1 DEF Inv, LoopInv, Busy, Reading, CheckQuit, RunPendingTasks, Interrupted, Signal,
                Running, control
  <1>4. LoopInv'
    BY <1>1, <1>3 DEF Inv, LoopInv, Busy, Reading, conns, poller
  <1>5. BatchInv' BY <1>1, <1>3 DEF Inv, BatchInv, conns, poller
  <1>6. QueueInv' BY <1>1 DEF Inv, QueueInv, client, kernel, conns, poller
  <1>7. MapsInv' BY <1>1 DEF Inv, MapsInv, Open, conns, poller
  <1>8. WatchInv'
    BY <1>1, <1>3 DEF Inv, WatchInv, Open, conns, poller, Busy
  <1>9. AnswerInv'
    BY <1>1, <1>3, AnswersStay DEF Inv, LoopInv, client, kernel, conns, poller
  <1> QED BY <1>2, <1>4, <1>5, <1>6, <1>7, <1>8, <1>9 DEF Inv

\* What AnswerInv says of one connection, with the types that its lemmas ask for.
LEMMA AnswerTypes ==
  ASSUME Inv, NEW c \in Clients
  PROVE  /\ got[c] \in Replies /\ wire[c] \in Replies /\ out[c] \in Replies
         /\ Answered(c) \in Seq(Nat) /\ Held(c) \in Frames /\ inbox[c] \in Frames
         /\ sent[c] \in Nat /\ closed[c] \in BOOLEAN /\ Cut(c) \in BOOLEAN
         /\ InOrder(Answered(c), Held(c), inbox[c], sent[c], closed[c], Cut(c))
  <1>1. got[c] \in Replies /\ wire[c] \in Replies /\ out[c] \in Replies BY DEF Inv, TypeOK
  <1>2. Answered(c) \in Seq(Nat) BY <1>1, OutGrows DEF Answered
  <1>3. Held(c) \in Frames BY DEF Inv, TypeOK, Held, Frames
  <1> QED BY <1>1, <1>2, <1>3 DEF Inv, TypeOK, AnswerInv, Cut

\* The replies of a connection when one is added.
LEMMA AnswerAppended ==
  ASSUME Inv, NEW c \in Clients, NEW n \in Nat
  PROVE  got[c] \o wire[c] \o Append(out[c], n) = Append(Answered(c), n)
  <1> DEFINE g == got[c]
             w == wire[c]
             o == out[c]
  <1>1. g \in Replies /\ w \in Replies /\ o \in Replies BY AnswerTypes
  <1>2. g \o w \o Append(o, n) = Append(g \o w \o o, n)
    <2> HIDE DEF g, w, o
    <2> QED BY <1>1, OutGrows
  <1> QED BY <1>2 DEF Answered

\* The replies of a connection when one is written.
LEMMA MovedToWire ==
  ASSUME Inv, NEW c \in Clients, out[c] # <<>>
  PROVE  got[c] \o Append(wire[c], Head(out[c])) \o Tail(out[c]) = Answered(c)
  <1> DEFINE g == got[c]
             w == wire[c]
             o == out[c]
  <1>1. g \in Replies /\ w \in Replies /\ o \in Replies /\ o # <<>> BY AnswerTypes
  <1>2. g \o Append(w, Head(o)) \o Tail(o) = g \o w \o o
    <2> HIDE DEF g, w, o
    <2> QED BY <1>1, OutToWire
  <1> QED BY <1>2 DEF Answered

\* A frame is sent, is answered, or the frames of a read are taken.
LEMMA Ordered ==
  ASSUME Inv, NEW c \in Clients
  PROVE  LET a == Answered(c)
             h == Held(c)
             b == inbox[c]
             n == sent[c]
         IN /\ \A x, y, z, w : InOrder(a, x, y, z, TRUE, w)
            /\ \A y, z : InOrder(a, h, y, z, closed[c], TRUE)
            /\ \A k \in Kinds :
                 InOrder(a, h, Append(b, [n |-> n + 1, kind |-> k]), n + 1, closed[c], Cut(c))
            /\ h # <<>> => InOrder(Append(a, Head(h).n), Tail(h), b, n, FALSE, Cut(c)) \/ closed[c]
            /\ h = <<>> => InOrder(a, b, <<>>, n, closed[c], Cut(c)) \/ Cut(c)
            /\ h = <<>> /\ ~Cut(c) =>
                 \A i \in DOMAIN b : InOrder(a, SubSeq(b, 1, i - 1), <<>>, n, closed[c], TRUE)
  <1> DEFINE a == Answered(c)
             h == Held(c)
             b == inbox[c]
             n == sent[c]
             g == closed[c]
             w == Cut(c)
  <1> /\ a \in Seq(Nat) /\ h \in Frames /\ b \in Frames /\ n \in Nat
        /\ g \in BOOLEAN /\ w \in BOOLEAN /\ InOrder(a, h, b, n, g, w)
    BY AnswerTypes
  <1> HIDE DEF a, h, b, n, g, w
  <1>2. ASSUME NEW k \in Kinds
        PROVE  InOrder(a, h, Append(b, [n |-> n + 1, kind |-> k]), n + 1, g, w)
    <2> DEFINE x == [n |-> n + 1, kind |-> k]
    <2>1. /\ b \in Seq([n : Nat, kind : Kinds]) /\ x \in [n : Nat, kind : Kinds] /\ x.n = n + 1
          /\ Len(a) \in Nat /\ Len(h) \in Nat /\ Len(b) \in Nat
      BY DEF Frames
    <2>2. /\ Len(Append(b, x)) = Len(b) + 1 /\ DOMAIN Append(b, x) = 1..(Len(b) + 1)
          /\ \A i \in DOMAIN b : Append(b, x)[i] = b[i]
          /\ Append(b, x)[Len(b) + 1] = x /\ DOMAIN b = 1..Len(b)
      <3> HIDE DEF x
      <3> QED BY <2>1
    <2>3. ~g /\ ~w =>
            /\ Len(a) + Len(h) + Len(Append(b, x)) = n + 1
            /\ \A i \in DOMAIN Append(b, x) : Append(b, x)[i].n = Len(a) + Len(h) + i
      <3> SUFFICES ASSUME ~g, ~w,
                          Len(a) + Len(h) + Len(b) = n,
                          \A i \in DOMAIN b : b[i].n = Len(a) + Len(h) + i
                   PROVE  /\ Len(a) + Len(h) + Len(Append(b, x)) = n + 1
                          /\ \A i \in DOMAIN Append(b, x) :
                               Append(b, x)[i].n = Len(a) + Len(h) + i
        BY DEF InOrder
      <3> HIDE DEF x
      <3>1. ASSUME NEW i \in DOMAIN Append(b, x)
            PROVE  Append(b, x)[i].n = Len(a) + Len(h) + i
        <4>1. CASE i \in DOMAIN b BY <4>1, <2>2
        <4>2. CASE i = Len(b) + 1
          <5>1. Append(b, x)[i].n = n + 1 BY <4>2, <2>1, <2>2
          <5>2. Len(a) + Len(h) + Len(b) = n OBVIOUS
          <5>3. Len(a) \in Nat /\ Len(h) \in Nat /\ Len(b) \in Nat BY <2>1
          <5>4. n + 1 = Len(a) + Len(h) + (Len(b) + 1) BY <5>2, <5>3
          <5> QED BY <5>1, <5>4, <4>2, Zenon
        <4> QED BY <4>1, <4>2, <2>1, <2>2
      <3> QED BY <3>1, <2>1, <2>2
    <2> QED BY <2>3 DEF InOrder
  <1>3. ASSUME h # <<>>, ~g
        PROVE  InOrder(Append(a, Head(h).n), Tail(h), b, n, FALSE, w)
    <2> DEFINE S == [n : Nat, kind : Kinds]
    <2>0. h \in Seq(S) BY DEF Frames
    <2>1. /\ Head(h) = h[1] /\ 1 \in DOMAIN h /\ h[1].n \in Nat
          /\ Len(Tail(h)) = Len(h) - 1 /\ DOMAIN Tail(h) = 1..(Len(h) - 1)
          /\ \A i \in DOMAIN Tail(h) : Tail(h)[i] = h[i + 1] /\ i + 1 \in DOMAIN h
      <3>1. h[1] \in S => h[1].n \in Nat OBVIOUS
      <3> HIDE DEF S
      <3> QED BY <1>3, <2>0, <3>1, TailOf
    <2>2. h[1].n = Len(a) + 1 BY <1>3, <2>1 DEF InOrder
    <2>3. /\ Len(Append(a, Head(h).n)) = Len(a) + 1
          /\ \A i \in DOMAIN Append(a, Head(h).n) : Append(a, Head(h).n)[i] = i
      BY <2>1, <2>2 DEF InOrder
    <2>4. \A i \in DOMAIN Tail(h) : Tail(h)[i].n = Len(a) + 1 + i
      BY <1>3, <2>1 DEF InOrder
    <2>5. Len(h) \in Nat /\ Len(a) \in Nat /\ Len(b) \in Nat /\ DOMAIN b = 1..Len(b) BY DEF Frames
    <2>6. ~w => /\ Len(a) + 1 + (Len(h) - 1) + Len(b) = n
                  /\ \A i \in DOMAIN b : b[i].n = Len(a) + 1 + (Len(h) - 1) + i
      <3>1. Len(a) + 1 + (Len(h) - 1) = Len(a) + Len(h) BY <2>5
      <3> QED BY <1>3, <3>1 DEF InOrder
    <2>7. \A i \in DOMAIN Tail(h) : Tail(h)[i].n = Len(Append(a, Head(h).n)) + i
      BY <2>3, <2>4
    <2>8. ~w => /\ Len(Append(a, Head(h).n)) + Len(Tail(h)) + Len(b) = n
                  /\ \A i \in DOMAIN b : b[i].n = Len(Append(a, Head(h).n)) + Len(Tail(h)) + i
      BY <2>1, <2>3, <2>6
    <2> QED BY <2>3, <2>7, <2>8, Zenon DEF InOrder
  <1>4. ASSUME h = <<>>, ~w PROVE InOrder(a, b, <<>>, n, g, w)
    BY <1>4 DEF InOrder, Frames
  <1>5. ASSUME h = <<>>, ~w, NEW i \in DOMAIN b
        PROVE  InOrder(a, SubSeq(b, 1, i - 1), <<>>, n, g, TRUE)
    <2>1. DOMAIN SubSeq(b, 1, i - 1) \subseteq DOMAIN b
          /\ \A j \in DOMAIN SubSeq(b, 1, i - 1) : SubSeq(b, 1, i - 1)[j] = b[j]
      BY SMTT(20), ZenonT(30), <1>5 DEF Frames
    <2>2. ~g => \A j \in DOMAIN b : b[j].n = Len(a) + j BY <1>5 DEF InOrder, Frames
    <2> QED BY <2>1, <2>2 DEF InOrder
  <1>6. \A x, y, z, v : InOrder(a, x, y, z, TRUE, v) BY DEF InOrder
  <1>7. \A y, z : InOrder(a, h, y, z, g, TRUE) BY DEF InOrder
  <1> QED BY <1>2, <1>3, <1>4, <1>5, <1>6, <1>7, Zenon DEF a, h, b, n, g, w

\* A client connects: it is queued once.
LEMMA ConnectKeeps ==
  ASSUME Inv, NEW c \in Clients, Connect(c) PROVE Inv'
  <1>1. UNCHANGED <<sent, got, inbox, wire, loop, batch, cur, frames, over, conns>>
    BY DEF Connect, control
  <1>2. /\ peer' = [peer EXCEPT ![c] = "queued"] /\ backlog' = Append(backlog, c)
        /\ peer[c] = "away" /\ backlog \in Seq(Clients)
        /\ peer \in [Clients -> {"away", "queued", "open", "shut", "reset"}]
    BY DEF Connect, Inv, TypeOK
  <1>3. TypeOK'
    BY DEF Inv, TypeOK, Connect, control, wakeup, conns, poller
  <1>4. LoopInv' BY <1>1 DEF Inv, LoopInv, conns, poller
  <1>5. BatchInv' BY <1>1 DEF Inv, BatchInv, conns, poller
  <1>6. QueueInv'
    <2>1. \A i \in DOMAIN backlog : backlog[i] \in Clients /\ backlog[i] # c
      BY <1>2 DEF Inv, QueueInv
    <2>2. /\ DOMAIN backlog' = 1..(Len(backlog) + 1) /\ DOMAIN backlog = 1..Len(backlog)
          /\ \A i \in DOMAIN backlog : backlog'[i] = backlog[i]
          /\ backlog'[Len(backlog) + 1] = c /\ Len(backlog) \in Nat
      BY <1>2
    <2>3. \A i \in DOMAIN backlog' : peer'[backlog'[i]] = "queued"
      BY <1>2, <2>1, <2>2 DEF Inv, QueueInv
    <2>4. \A i, j \in DOMAIN backlog' : backlog'[i] = backlog'[j] => i = j
      BY <2>1, <2>2 DEF Inv, QueueInv
    <2> QED BY <1>1, <1>2, <2>3, <2>4 DEF Inv, QueueInv, conns, poller
  <1>7. MapsInv' BY <1>1 DEF Inv, MapsInv, Open, conns, poller
  <1>8. WatchInv' BY <1>1 DEF Inv, WatchInv, Open, conns, poller
  <1>9. AnswerInv'
    <2>1. \A d \in Clients : Cut(d)' = Cut(d) BY <1>1, <1>2 DEF Cut
    <2>2. \A d \in Clients : Answered(d)' = Answered(d) /\ Held(d)' = Held(d)
      BY <1>1 DEF Answered, Held, conns
    <2> QED BY <1>1, <2>1, <2>2 DEF Inv, AnswerInv, conns
  <1> QED BY <1>3, <1>4, <1>5, <1>6, <1>7, <1>8, <1>9 DEF Inv

\* A client reads: the reply is only elsewhere.
LEMMA ReceiveKeeps ==
  ASSUME Inv, NEW c \in Clients, Receive(c) PROVE Inv'
  <1>1. UNCHANGED <<peer, sent, inbox, backlog, loop, batch, cur, frames, over, conns>>
    BY DEF Receive, control
  <1>2. /\ got' = [got EXCEPT ![c] = Append(@, Head(wire[c]))]
        /\ wire' = [wire EXCEPT ![c] = Tail(@)] /\ wire[c] # <<>>
    BY DEF Receive
  <1>3. /\ got \in [Clients -> Replies] /\ wire \in [Clients -> Replies]
        /\ \A d \in Clients : got[d] \in Replies /\ wire[d] \in Replies /\ out[d] \in Replies
    BY DEF Inv, TypeOK
  <1>4. /\ got'[c] = Append(got[c], Head(wire[c])) /\ wire'[c] = Tail(wire[c])
        /\ got'[c] \in Replies /\ wire'[c] \in Replies
    BY <1>2, <1>3 DEF Replies
  <1>5. got' \in [Clients -> Replies] /\ wire' \in [Clients -> Replies]
    BY <1>2, <1>3, <1>4
  <1>6. TypeOK'
    BY <1>5 DEF Inv, TypeOK, Receive, control, wakeup, conns, poller
  <1>7. LoopInv' BY <1>1 DEF Inv, LoopInv, conns, poller
  <1>8. BatchInv' BY <1>1 DEF Inv, BatchInv, conns, poller
  <1>9. QueueInv' BY <1>1 DEF Inv, QueueInv, conns, poller
  <1>10. MapsInv' BY <1>1 DEF Inv, MapsInv, Open, conns, poller
  <1>11. WatchInv' BY <1>1 DEF Inv, WatchInv, Open, conns, poller
  <1>12. AnswerInv'
    <2>1. ASSUME NEW d \in Clients
          PROVE  Answered(d)' = Answered(d) /\ Held(d)' = Held(d) /\ Cut(d)' = Cut(d)
      <3>1. Held(d)' = Held(d) /\ Cut(d)' = Cut(d) BY <1>1 DEF Held, Cut
      <3>2. CASE d = c
        <4>1. got'[c] \o wire'[c] \o out[c] = got[c] \o wire[c] \o out[c]
          <5>1. Append(got[c], Head(wire[c])) \o Tail(wire[c]) \o out[c]
                  = got[c] \o wire[c] \o out[c]
            <6>1. got[c] \in Replies /\ wire[c] \in Replies /\ out[c] \in Replies /\ wire[c] # <<>>
              BY <1>2, <1>3
            <6> QED BY <6>1, WireToGot
          <5> QED BY <5>1, <1>4
        <4>2. Answered(c)' = Answered(c) BY <4>1, <1>1 DEF Answered, conns
        <4> QED BY <3>1, <3>2, <4>2
      <3>3. CASE d # c
        <4>1. got'[d] = got[d] /\ wire'[d] = wire[d] BY <3>3, <1>2, <1>3
        <4> QED BY <3>1, <4>1, <1>1 DEF Answered, conns
      <3> QED BY <3>2, <3>3
    <2> QED BY <1>1, <2>1 DEF Inv, AnswerInv, conns
  <1> QED BY <1>6, <1>7, <1>8, <1>9, <1>10, <1>11, <1>12 DEF Inv

\* A client sends: its frame is the next one.
LEMMA SubmitKeeps ==
  ASSUME Inv, NEW c \in Clients, NEW kind \in Kinds, Submit(c, kind) PROVE Inv'
  <1>1. UNCHANGED <<peer, got, wire, backlog, loop, batch, cur, frames, over, conns>>
    BY DEF Submit, control
  <1>2. /\ sent' = [sent EXCEPT ![c] = @ + 1]
        /\ inbox' = [inbox EXCEPT ![c] = Append(@, [n |-> sent'[c], kind |-> kind])]
        /\ peer[c] # "reset"
    BY DEF Submit
  <1>3. /\ sent \in [Clients -> Nat] /\ inbox \in [Clients -> Frames] BY DEF Inv, TypeOK
  <1>4. /\ sent'[c] = sent[c] + 1 /\ sent[c] \in Nat
        /\ inbox'[c] = Append(inbox[c], [n |-> sent[c] + 1, kind |-> kind])
    BY <1>2, <1>3
  <1>5. inbox'[c] \in Frames
    <2> DEFINE x == [n |-> sent[c] + 1, kind |-> kind]
               S == [n : Nat, kind : Kinds]
    <2>1. x \in S BY <1>4
    <2>2. inbox[c] \in Seq(S) BY <1>3 DEF Frames
    <2> HIDE DEF x, S
    <2>3. Append(inbox[c], x) \in Seq(S) BY <2>1, <2>2
    <2> QED BY <1>4, <2>3 DEF Frames, x, S
  <1>6. sent' \in [Clients -> Nat] /\ inbox' \in [Clients -> Frames]
    BY <1>2, <1>3, <1>4, <1>5
  <1>7. TypeOK'
    BY <1>6 DEF Inv, TypeOK, Submit, control, wakeup, conns, poller
  <1>8. LoopInv' BY <1>1 DEF Inv, LoopInv, conns, poller
  <1>9. BatchInv' BY <1>1 DEF Inv, BatchInv, conns, poller
  <1>10. QueueInv'
    <2>1. \A d \in Clients : peer[d] = "reset" => inbox'[d] = inbox[d] BY <1>2, <1>3
    <2> QED BY <1>1, <2>1 DEF Inv, QueueInv, conns, poller
  <1>11. MapsInv' BY <1>1 DEF Inv, MapsInv, Open, conns, poller
  <1>12. WatchInv' BY <1>1 DEF Inv, WatchInv, Open, conns, poller
  <1>13. AnswerInv'
    <2>1. ASSUME NEW d \in Clients
          PROVE  Answered(d)' = Answered(d) /\ Held(d)' = Held(d) /\ Cut(d)' = Cut(d)
                 /\ closed'[d] = closed[d]
      BY <1>1 DEF Answered, Held, Cut, conns
    <2>2. InOrder(Answered(c), Held(c), inbox'[c], sent'[c], closed[c], Cut(c))
      <3>1. InOrder(Answered(c), Held(c), Append(inbox[c], [n |-> sent[c] + 1, kind |-> kind]),
                    sent[c] + 1, closed[c], Cut(c))
        BY Ordered, Zenon
      <3> QED BY <3>1, <1>4
    <2>3. ASSUME NEW d \in Clients, d # c
          PROVE  inbox'[d] = inbox[d] /\ sent'[d] = sent[d]
      BY <2>3, <1>2, <1>3
    <2> QED BY <2>1, <2>2, <2>3 DEF Inv, AnswerInv
  <1> QED BY <1>7, <1>8, <1>9, <1>10, <1>11, <1>12, <1>13 DEF Inv

\* A client shuts down or resets: what it sent may be gone.
LEMMA LeaveKeeps ==
  ASSUME Inv, NEW c \in Clients, NEW how \in {"shut", "reset"}, Leave(c, how) PROVE Inv'
  <1>1. UNCHANGED <<sent, got, wire, backlog, loop, batch, cur, frames, over, conns>>
    BY DEF Leave, control
  <1>2. /\ peer' = [peer EXCEPT ![c] = how] /\ peer[c] = "open"
        /\ inbox' = [inbox EXCEPT ![c] = IF how = "reset" THEN <<>> ELSE @]
    BY DEF Leave
  <1>3. /\ peer \in [Clients -> {"away", "queued", "open", "shut", "reset"}]
        /\ inbox \in [Clients -> Frames] /\ backlog \in Seq(Clients)
    BY DEF Inv, TypeOK
  <1>12. <<>> \in Frames BY DEF Frames
  <1>4. /\ inbox' \in [Clients -> Frames]
        /\ peer' \in [Clients -> {"away", "queued", "open", "shut", "reset"}]
    BY <1>2, <1>3, <1>12
  <1>5. TypeOK'
    BY <1>1, <1>4 DEF Inv, TypeOK, Leave, control, wakeup, conns, poller
  <1>6. LoopInv' BY <1>1 DEF Inv, LoopInv, conns, poller
  <1>7. BatchInv' BY <1>1 DEF Inv, BatchInv, conns, poller
  <1>8. QueueInv'
    <2>1. \A i \in DOMAIN backlog : backlog[i] \in Clients /\ backlog[i] # c
      BY <1>2, <1>3 DEF Inv, QueueInv
    <2>2. \A d \in Clients : peer'[d] = "reset" => inbox'[d] = <<>>
      BY <1>2, <1>3 DEF Inv, QueueInv
    <2> QED BY <1>1, <1>2, <1>3, <2>1, <2>2 DEF Inv, QueueInv, conns, poller
  <1>9. MapsInv' BY <1>1 DEF Inv, MapsInv, Open, conns, poller
  <1>10. WatchInv' BY <1>1 DEF Inv, WatchInv, Open, conns, poller
  <1>11. AnswerInv'
    <2>1. ASSUME NEW d \in Clients
          PROVE  Answered(d)' = Answered(d) /\ Held(d)' = Held(d)
                 /\ closed'[d] = closed[d] /\ sent'[d] = sent[d]
      BY <1>1 DEF Answered, Held, conns
    <2>2. CASE how = "shut"
      <3>1. inbox' = inbox BY <2>2, <1>2, <1>3
      <3>2. \A d \in Clients : Cut(d)' = Cut(d) BY <2>2, <1>1, <1>2, <1>3 DEF Cut
      <3> QED BY <2>1, <3>1, <3>2 DEF Inv, AnswerInv
    <2>3. CASE how = "reset"
      <3>1. Cut(c)' = TRUE BY <2>3, <1>2, <1>3 DEF Cut
      <3>2. InOrder(Answered(c), Held(c), inbox'[c], sent[c], closed[c], TRUE)
        BY Ordered, Zenon
      <3>3. ASSUME NEW d \in Clients, d # c
            PROVE  inbox'[d] = inbox[d] /\ Cut(d)' = Cut(d)
        BY <3>3, <1>1, <1>2, <1>3 DEF Cut
      <3> QED BY <2>1, <3>1, <3>2, <3>3 DEF Inv, AnswerInv
    <2> QED BY <2>2, <2>3
  <1> QED BY <1>5, <1>6, <1>7, <1>8, <1>9, <1>10, <1>11 DEF Inv

\* A batch: one event for each channel, and a reason for it.
LEMMA PollKeeps ==
  ASSUME Inv, Poll PROVE Inv'
  <1>1. /\ UNCHANGED <<client, kernel, cur, frames, over, quit, wakeup, started, conns>>
        /\ loop = "wait" /\ loop' = "dispatch" /\ batch' = Ready
    BY DEF Poll
  <1>2. ASSUME NEW e \in Ready
        PROVE  /\ e \in EventType /\ e.who # Nobody
               /\ \/ e.who \in Clients /\ Open(e.who) /\ e = EventOf(e.who) /\ (e.read \/ e.write)
                  \/ e.who \notin Clients /\ e = [Idle EXCEPT !.who = e.who, !.read = TRUE]
    <2>1. CASE \E c \in Clients : Open(c) /\ e = EventOf(c) /\ (EventOf(c).read \/ EventOf(c).write)
      <3>1. PICK c \in Clients : Open(c) /\ e = EventOf(c) /\ (EventOf(c).read \/ EventOf(c).write)
        BY <2>1
      <3>2. e.who = c /\ e \in EventType BY <3>1 DEF EventOf, EventType
      <3> QED BY <3>1, <3>2, Constants
    <2>2. CASE \E w \in {"accept", "wakeup"} : e = [Idle EXCEPT !.who = w, !.read = TRUE]
      BY <2>2, Constants DEF Idle, EventType, Nobody
    <2> QED BY <2>1, <2>2 DEF Ready
  <1>3. TypeOK'
    BY <1>1, <1>2 DEF Inv, TypeOK, client, kernel, wakeup, conns, poller
  <1>4. LoopInv'
    BY <1>1 DEF Inv, LoopInv, Busy, Reading
  <1>5. BatchInv'
    <2>1. \A e, d \in Ready : e.who = d.who => e = d BY <1>2
    <2>2. ASSUME NEW e \in Ready, e.who \in Clients
          PROVE  fd[e.who] # 0 /\ (e.read \/ e.write) /\ (e.write => out[e.who] # <<>>)
      <3>1. Open(e.who) /\ e = EventOf(e.who) /\ (e.read \/ e.write) BY <2>2, <1>2
      <3> DEFINE c == e.who
      <3>2. e.write => "write" \in interest[fd[c]]
        <4>1. EventOf(c).write => "write" \in interest[fd[c]] BY DEF EventOf
        <4> HIDE DEF c
        <4>2. e = EventOf(c) BY <3>1 DEF c
        <4> QED BY <4>1, <4>2, Zenon
      <3>3. out[e.who] = <<>> => interest[fd[e.who]] = {"read"}
        BY <3>1, <2>2, <1>1 DEF Inv, WatchInv
      <3> QED BY <3>1, <3>2, <3>3 DEF Open
    <2> QED BY <1>1, <1>2, <2>1, <2>2 DEF BatchInv, conns, Busy, Reading
  <1>6. QueueInv' BY <1>1 DEF Inv, QueueInv, client, kernel, conns, poller
  <1>7. MapsInv' BY <1>1 DEF Inv, MapsInv, Open, conns, poller
  <1>8. WatchInv' BY <1>1 DEF Inv, WatchInv, Open, conns, poller
  <1>9. AnswerInv'
    BY <1>1, AnswersStay DEF Inv, client, kernel, conns
  <1> QED BY <1>3, <1>4, <1>5, <1>6, <1>7, <1>8, <1>9 DEF Inv

\* A reply, of an error or of the manager, to the first frame that is held.
LEMMA ReplyKeeps ==
  ASSUME Inv, loop \in {"frames", "call"}, frames # <<>>, loop' = "frames",
         Send(cur.who, Head(frames).n), frames' = Tail(frames),
         UNCHANGED <<client, kernel, batch, cur, over, quit, started, fd>>
  PROVE  Inv'
  <1>0. PICK c \in Clients : c = cur.who BY DEF Inv, LoopInv, Busy, Reading
  <1>1. c \in Clients /\ fd[c] # 0 BY <1>0 DEF Inv, LoopInv, Busy, Reading
  <1>2. PICK n \in Nat : n = Head(frames).n /\ frames' \in Frames
    <2> DEFINE S == [n : Nat, kind : Kinds]
    <2>1. frames \in Seq(S) BY DEF Inv, TypeOK, Frames
    <2>2. Head(frames) \in S => Head(frames).n \in Nat OBVIOUS
    <2> HIDE DEF S
    <2>3. Head(frames) \in S /\ Tail(frames) \in Seq(S) BY <2>1
    <2> QED BY <2>2, <2>3 DEF Frames, S
  <1>3. Send(c, n) BY <1>0, <1>2
  <1>4. /\ closed' \in [Clients -> BOOLEAN] /\ out' \in [Clients -> Replies]
        /\ table' \in [Fds -> Clients \cup {Nobody}]
        /\ channels' \in [Fds -> Clients \cup {Nobody}]
        /\ interest' \in [Fds -> SUBSET {"read", "write"}]
        /\ woken' \in BOOLEAN /\ tasks' \subseteq Clients \cup {"start"}
        /\ MapsInv'
        /\ \A d \in Clients : Open(d) /\ d # c => interest'[fd[d]] = interest[fd[d]]
        /\ \A d \in Clients : d # c => closed'[d] = closed[d] /\ out'[d] = out[d]
        /\ closed[c] => closed'[c]
        /\ closed'[c] => out' = out
        /\ ~closed'[c] => /\ ~closed[c] /\ out'[c] = Append(out[c], n)
                          /\ interest'[fd[c]] = interest[fd[c]] \cup {"write"}
        /\ \A d \in Clients : out[d] # <<>> => out'[d] # <<>>
    BY <1>1, <1>2, <1>3, SendFacts DEF Inv
  <1>5. UNCHANGED <<peer, sent, got, inbox, wire, backlog, batch, cur, over, quit, started, fd>>
    BY DEF client, kernel
  <1>6. TypeOK' BY <1>2, <1>4, <1>5 DEF Inv, TypeOK
  <1>7. LoopInv' BY <1>0, <1>1, <1>4, <1>5 DEF Inv, LoopInv, Busy, Reading
  <1>8. BatchInv' BY <1>4, <1>5 DEF Inv, BatchInv, Busy, Reading
  <1>9. QueueInv' BY SMTT(20), ZenonT(30), <1>1, <1>4, <1>5 DEF Inv, QueueInv
  <1>10. WatchInv'
    <2>1. ASSUME NEW d \in Clients, Open(d)'
          PROVE  interest'[fd[d]] = IF out'[d] = <<>> THEN {"read"} ELSE {"read", "write"}
      <3>1. CASE d = c
        <4>1. ~closed'[c] /\ Open(c) BY <2>1, <3>1, <1>4, <1>5 DEF Open
        <4>2. interest[fd[c]] \in {{"read"}, {"read", "write"}} BY <4>1, <1>1 DEF Inv, WatchInv
        <4>3. out'[c] # <<>>
          <5>1. out[c] \in Seq(Nat) BY <1>1 DEF Inv, TypeOK, Replies
          <5> QED BY <4>1, <5>1, <1>2, <1>4
        <4>4. interest'[fd[c]] = {"read", "write"} BY <4>1, <4>2, <1>4
        <4> QED BY <3>1, <4>3, <4>4
      <3>2. CASE d # c
        <4>1. Open(d) /\ out'[d] = out[d] BY <2>1, <3>2, <1>4, <1>5 DEF Open
        <4>2. interest'[fd[d]] = interest[fd[d]] BY <4>1, <3>2, <1>4
        <4> QED BY <4>1, <4>2 DEF Inv, WatchInv
      <3> QED BY <3>1, <3>2
    <2> QED BY <2>1, <1>5 DEF WatchInv
  <1>11. AnswerInv'
    <2>1. ASSUME NEW d \in Clients, d # c
          PROVE  /\ Answered(d)' = Answered(d) /\ Held(d)' = Held(d) /\ Cut(d)' = Cut(d)
                 /\ closed'[d] = closed[d]
      BY <2>1, <1>0, <1>4, <1>5 DEF Answered, Held, Cut
    <2>2. Held(c) = frames /\ Held(c)' = Tail(frames) /\ Cut(c)' = Cut(c)
      BY <1>0, <1>5 DEF Held, Cut
    <2>3. InOrder(Answered(c)', Held(c)', inbox[c], sent[c], closed'[c], Cut(c))
      <3>1. CASE closed'[c]
        <4>1. Answered(c)' = Answered(c) BY <3>1, <1>4, <1>5 DEF Answered
        <4>2. closed'[c] = TRUE BY <3>1, <1>1, <1>4
        <4>3. InOrder(Answered(c), Held(c)', inbox[c], sent[c], TRUE, Cut(c))
          BY <1>1, Ordered, Zenon
        <4> QED BY <4>1, <4>2, <4>3
      <3>2. CASE ~closed'[c]
        <4>1. got[c] \o wire[c] \o Append(out[c], n) = Append(Answered(c), n)
          BY <1>1, AnswerAppended
        <4>3. Answered(c)' = Append(Answered(c), n) BY <3>2, <4>1, <1>4, <1>5 DEF Answered
        <4>4. ~closed[c] /\ closed'[c] = FALSE BY <3>2, <1>1, <1>4
        <4>5. InOrder(Append(Answered(c), Head(Held(c)).n), Tail(Held(c)), inbox[c], sent[c],
                      FALSE, Cut(c))
          BY <4>4, <2>2, <1>1, Ordered, Zenon
        <4> QED BY <4>3, <4>4, <4>5, <2>2, <1>2
      <3> QED BY <3>1, <3>2
    <2>4. ASSUME NEW d \in Clients
          PROVE  InOrder(Answered(d), Held(d), inbox[d], sent[d], closed[d], Cut(d))'
      <3>1. CASE d = c BY <3>1, <2>2, <2>3, <1>5
      <3>2. CASE d # c BY <3>2, <2>1, <1>5 DEF Inv, AnswerInv
      <3> QED BY <3>1, <3>2
    <2> QED BY <2>4 DEF AnswerInv
  <1> QED BY <1>4, <1>6, <1>7, <1>8, <1>9, <1>10, <1>11 DEF Inv

\* The process ends inside a callback: nothing moves any more.
LEMMA DieKeeps ==
  ASSUME Inv, Die, loop \in {"frames", "call", "write"},
         UNCHANGED <<client, kernel, batch, cur, over, quit, started, frames>>
  PROVE  Inv'
  <1>1. /\ UNCHANGED <<client, kernel, batch, cur, over, quit, started, frames, wakeup, conns>>
        /\ loop' = "killed"
    BY DEF Die
  <1>2. TypeOK' BY <1>1 DEF Inv, TypeOK, client, kernel, wakeup, conns, poller
  <1>3. LoopInv' BY <1>1 DEF Inv, LoopInv, Busy, Reading
  <1>4. BatchInv' BY <1>1 DEF Inv, BatchInv, Busy, Reading, conns
  <1>5. QueueInv' BY <1>1 DEF Inv, QueueInv, client, kernel, conns
  <1>6. MapsInv' BY <1>1 DEF Inv, MapsInv, Open, conns, poller
  <1>7. WatchInv' BY <1>1 DEF Inv, WatchInv, Open, conns, poller
  <1>8. AnswerInv' BY <1>1, AnswersStay DEF Inv, client, kernel, conns
  <1> QED BY <1>2, <1>3, <1>4, <1>5, <1>6, <1>7, <1>8 DEF Inv

\* A frame is given to the manager or answered.
LEMMA HandleMessageKeeps ==
  ASSUME Inv, HandleMessage PROVE Inv'
  <1>1. CASE loop' = "call" /\ UNCHANGED <<frames, wakeup, conns>>
    <2>1. /\ UNCHANGED <<client, kernel, batch, cur, over, quit, started, frames, wakeup, conns>>
          /\ loop = "frames" /\ loop' = "call" /\ frames # <<>>
      BY <1>1 DEF HandleMessage
    <2>2. TypeOK' BY <2>1 DEF Inv, TypeOK, client, kernel, wakeup, conns, poller
    <2>3. LoopInv' BY <2>1 DEF Inv, LoopInv, Busy, Reading, conns, poller
    <2>4. BatchInv' BY <2>1 DEF Inv, BatchInv, Busy, Reading, conns
    <2>5. QueueInv' BY <2>1 DEF Inv, QueueInv, client, kernel, conns
    <2>6. MapsInv' BY <2>1 DEF Inv, MapsInv, Open, conns, poller
    <2>7. WatchInv' BY <2>1 DEF Inv, WatchInv, Open, conns, poller
    <2>8. AnswerInv' BY <2>1, AnswersStay DEF Inv, client, kernel, conns
    <2> QED BY <2>2, <2>3, <2>4, <2>5, <2>6, <2>7, <2>8 DEF Inv
  <1>2. CASE Send(cur.who, Head(frames).n) /\ frames' = Tail(frames) /\ UNCHANGED <<loop, fd>>
    BY <1>2, ReplyKeeps DEF HandleMessage
  <1>3. CASE Die /\ UNCHANGED frames BY <1>3, DieKeeps DEF HandleMessage
  <1> QED BY <1>1, <1>2, <1>3 DEF HandleMessage

\* The manager's reply, or the error at the deadline.
LEMMA ForwardedKeeps ==
  ASSUME Inv, Forwarded PROVE Inv'
  <1>1. frames # <<>> BY DEF Inv, LoopInv, Forwarded
  <1>2. CASE /\ Send(cur.who, Head(frames).n) /\ frames' = Tail(frames)
             /\ loop' = "frames" /\ UNCHANGED fd
    BY <1>1, <1>2, ReplyKeeps DEF Forwarded
  <1>3. CASE Die /\ UNCHANGED frames BY <1>3, DieKeeps DEF Forwarded
  <1> QED BY <1>2, <1>3 DEF Forwarded

\* A connection is closed: what it had to answer does not matter any more.
LEMMA AnswersOfOthersStay ==
  ASSUME Inv, NEW c \in Clients, closed' = [closed EXCEPT ![c] = TRUE],
         UNCHANGED <<peer, sent, got, inbox, wire, out>>,
         \A d \in Clients \ {c} : Held(d)' = Held(d) /\ Cut(d)' = Cut(d)
  PROVE  AnswerInv'
  <1>1. \A d \in Clients : Answered(d)' = Answered(d) BY DEF Answered
  <1>2. closed'[c] = TRUE /\ \A d \in Clients \ {c} : closed'[d] = closed[d]
    BY DEF Inv, TypeOK
  <1>3. InOrder(Answered(c), Held(c)', inbox[c], sent[c], TRUE, Cut(c)') BY Ordered, Zenon
  <1>4. ASSUME NEW d \in Clients
        PROVE  InOrder(Answered(d)', Held(d)', inbox'[d], sent'[d], closed'[d], Cut(d)')
    <2>1. CASE d = c BY <2>1, <1>1, <1>2, <1>3
    <2>2. CASE d # c BY <2>2, <1>1, <1>2 DEF Inv, AnswerInv
    <2> QED BY <2>1, <2>2
  <1> QED BY <1>4 DEF AnswerInv

\* CloseInLoop, at the end of a callback or instead of one, as far as the tables go.
LEMMA CloseKeeps ==
  ASSUME Inv, NEW c \in Clients, fd[c] # 0, CloseInLoop(c), loop \notin {"stop", "killed"},
         loop = "write" => cur.who = c /\ loop' = "dispatch",
         loop' # "killed",
         loop' = "write" => cur'.who = c,
         UNCHANGED <<fd, out, backlog, peer, inbox>>
  PROVE  /\ closed' = [closed EXCEPT ![c] = TRUE] /\ closed' \in [Clients -> BOOLEAN]
         /\ table' \in [Fds -> Clients \cup {Nobody}]
         /\ channels' \in [Fds -> Clients \cup {Nobody}]
         /\ interest' \in [Fds -> SUBSET {"read", "write"}]
         /\ woken' \in BOOLEAN /\ tasks' \subseteq Clients \cup {"start"}
         /\ QueueInv' /\ MapsInv' /\ WatchInv'
  <1>1. /\ closed' = [closed EXCEPT ![c] = TRUE] /\ closed' \in [Clients -> BOOLEAN]
        /\ table' \in [Fds -> Clients \cup {Nobody}]
        /\ channels' \in [Fds -> Clients \cup {Nobody}]
        /\ interest' \in [Fds -> SUBSET {"read", "write"}]
        /\ woken' \in BOOLEAN /\ tasks' \subseteq Clients \cup {"start"}
        /\ MapsInv'
        /\ \A d \in Clients : Open(d) /\ d # c => interest'[fd[d]] = interest[fd[d]]
    BY CloseFacts DEF Inv
  <1>2. closed'[c] /\ \A d \in Clients : d # c => closed'[d] = closed[d]
    BY <1>1 DEF Inv, TypeOK
  <1>3. QueueInv' BY <1>2 DEF Inv, QueueInv
  <1>4. WatchInv'
    <2>1. ASSUME NEW d \in Clients, Open(d)', loop' = "write" => cur'.who # d
          PROVE  interest'[fd[d]] = IF out[d] = <<>> THEN {"read"} ELSE {"read", "write"}
      <3>1. d # c /\ Open(d) BY <2>1, <1>2 DEF Open
      <3> QED BY <3>1, <1>1 DEF Inv, WatchInv
    <2> QED BY <2>1 DEF WatchInv
  <1> QED BY <1>1, <1>3, <1>4

\* After the frames of a read: the next read, or the close.
LEMMA FramesDoneKeeps ==
  ASSUME Inv, FramesDone PROVE Inv'
  <1>1. PICK c \in Clients : c = cur.who /\ fd[c] # 0
    BY DEF Inv, LoopInv, Busy, Reading, FramesDone
  <1>2. /\ UNCHANGED <<peer, sent, got, inbox, wire, backlog, batch, cur, frames, quit, started,
                       fd, out>>
        /\ loop = "frames" /\ frames = <<>> /\ over' = FALSE
    BY DEF FramesDone, client, kernel
  <1>3. CASE ~over
    <2>1. loop' = "read" /\ UNCHANGED <<table, poller, closed, wakeup, over>>
      BY <1>3, <1>2 DEF FramesDone, Inv, TypeOK
    <2>2. TypeOK' BY <1>2, <2>1 DEF Inv, TypeOK, poller, wakeup
    <2>3. LoopInv' BY <1>2, <2>1 DEF Inv, LoopInv, Busy, Reading, poller
    <2>4. BatchInv' BY <1>2, <2>1 DEF Inv, BatchInv, Busy, Reading
    <2>5. QueueInv' BY <1>2, <2>1 DEF Inv, QueueInv
    <2>6. MapsInv' BY <1>2, <2>1 DEF Inv, MapsInv, Open, poller
    <2>7. WatchInv' BY <1>2, <2>1 DEF Inv, WatchInv, Open, poller
    <2>8. AnswerInv' BY <1>2, <2>1, AnswersStay DEF Inv
    <2> QED BY <2>2, <2>3, <2>4, <2>5, <2>6, <2>7, <2>8 DEF Inv
  <1>4. CASE over
    <2>1. CloseInLoop(c) /\ loop' = AfterRead BY <1>1, <1>4 DEF FramesDone
    <2>2. /\ closed' = [closed EXCEPT ![c] = TRUE] /\ closed' \in [Clients -> BOOLEAN]
          /\ table' \in [Fds -> Clients \cup {Nobody}]
          /\ channels' \in [Fds -> Clients \cup {Nobody}]
          /\ interest' \in [Fds -> SUBSET {"read", "write"}]
          /\ woken' \in BOOLEAN /\ tasks' \subseteq Clients \cup {"start"}
          /\ QueueInv' /\ MapsInv' /\ WatchInv'
      BY <1>1, <1>2, <2>1, CloseKeeps DEF AfterRead
    <2>3. loop' \in {"write", "dispatch"} /\ (loop' = "write" <=> cur.write)
      BY <2>1 DEF AfterRead
    <2>4. closed'[c] BY <2>2 DEF Inv, TypeOK
    <2>5. TypeOK' BY <1>2, <2>2, <2>3 DEF Inv, TypeOK
    <2>6. LoopInv' BY <1>1, <1>2, <2>3, <2>4 DEF Inv, LoopInv, Busy, Reading
    <2>7. BatchInv' BY <1>2, <2>3 DEF Inv, BatchInv, Busy, Reading
    <2>8. AnswerInv'
      <3>1. \A d \in Clients \ {c} : Held(d)' = Held(d) /\ Cut(d)' = Cut(d)
        BY <1>1, <1>2 DEF Held, Cut
      <3> QED BY <1>2, <2>2, <3>1, AnswersOfOthersStay
    <2> QED BY <2>2, <2>5, <2>6, <2>7, <2>8 DEF Inv
  <1> QED BY <1>3, <1>4
\* A channel is called back, the rest of the batch waits.
LEMMA DispatchKeeps ==
  ASSUME Inv, NEW e \in batch, Dispatch(e) PROVE Inv'
  <1>1. /\ UNCHANGED <<peer, sent, got, inbox, wire, backlog, frames, over, quit, started, fd, out>>
        /\ loop = "dispatch" /\ batch' = batch \ {e} /\ cur' = e
    BY DEF Dispatch, client, kernel
  <1>2. /\ e \in EventType /\ batch \subseteq EventType /\ frames = <<>> /\ ~over
        /\ e.who # Nobody /\ \A d \in batch' : d.who # e.who
    BY <1>1 DEF Inv, TypeOK, LoopInv, BatchInv, Busy, Reading
  <1>3. ASSUME e.who \in {"accept", "wakeup"}, woken' \in BOOLEAN, tasks' = tasks,
               loop' \in {"dispatch", "accept"}, UNCHANGED <<table, poller, closed>>
        PROVE  Inv'
    <2>1. TypeOK' BY <1>1, <1>2, <1>3 DEF Inv, TypeOK, poller
    <2>2. LoopInv' BY <1>1, <1>2, <1>3 DEF LoopInv, Busy, Reading
    <2>3. BatchInv' BY <1>1, <1>2, <1>3 DEF Inv, BatchInv, Busy, Reading
    <2>4. QueueInv' BY <1>1, <1>3 DEF Inv, QueueInv
    <2>5. MapsInv' BY <1>1, <1>3 DEF Inv, MapsInv, Open, poller
    <2>6. WatchInv' BY <1>1, <1>3 DEF Inv, WatchInv, Open, poller
    <2>7. AnswerInv' BY <1>1, <1>2, <1>3, AnswersStay DEF Inv
    <2> QED BY <2>1, <2>2, <2>3, <2>4, <2>5, <2>6, <2>7 DEF Inv
  <1>4. CASE e.who = "wakeup" \/ e.who = "accept"
    <2>1. /\ woken' \in BOOLEAN /\ tasks' = tasks /\ loop' \in {"dispatch", "accept"}
          /\ UNCHANGED <<table, poller, closed>>
      BY <1>1, <1>4, Constants DEF Dispatch, wakeup, Inv, TypeOK
    <2> QED BY <1>3, <1>4, <2>1
  <1>5. CASE e.who \in Clients /\ e.error
    <2>1. PICK c \in Clients : c = e.who BY <1>5
    <2>2. CloseInLoop(c) /\ loop' = loop BY <1>5, <2>1, Constants DEF Dispatch
    <2>3. fd[c] # 0 BY <2>1 DEF Inv, BatchInv
    <2>4. /\ closed' = [closed EXCEPT ![c] = TRUE] /\ closed' \in [Clients -> BOOLEAN]
          /\ table' \in [Fds -> Clients \cup {Nobody}]
          /\ channels' \in [Fds -> Clients \cup {Nobody}]
          /\ interest' \in [Fds -> SUBSET {"read", "write"}]
          /\ woken' \in BOOLEAN /\ tasks' \subseteq Clients \cup {"start"}
          /\ QueueInv' /\ MapsInv' /\ WatchInv'
      BY <1>1, <2>2, <2>3, CloseKeeps
    <2>5. TypeOK' BY <1>1, <1>2, <2>2, <2>4 DEF Inv, TypeOK
    <2>6. LoopInv' BY <1>1, <1>2, <2>2 DEF LoopInv, Busy, Reading
    <2>7. BatchInv' BY <1>1, <2>2 DEF Inv, BatchInv, Busy, Reading
    <2>8. AnswerInv'
      <3>1. \A d \in Clients \ {c} : Held(d)' = Held(d) /\ Cut(d)' = Cut(d)
        BY <1>1, <1>2 DEF Held, Cut
      <3> QED BY <1>1, <2>4, <3>1, AnswersOfOthersStay
    <2> QED BY <2>4, <2>5, <2>6, <2>7, <2>8 DEF Inv
  <1>6. CASE e.who \in Clients /\ ~e.error
    <2>1. PICK c \in Clients : c = e.who BY <1>6
    <2>2. /\ loop' = IF e.read THEN "read" ELSE "write"
          /\ UNCHANGED <<wakeup, table, poller, closed>>
      BY <1>6, Constants DEF Dispatch
    <2>3. fd[c] # 0 /\ (e.read \/ e.write) /\ (e.write => out[c] # <<>>)
      BY <2>1 DEF Inv, BatchInv
    <2>4. ~closed[c] /\ out[c] # <<>> => interest[fd[c]] = {"read", "write"}
      BY <1>1, <2>1, <2>3 DEF Inv, WatchInv, Open
    <2>5. TypeOK' BY <1>1, <1>2, <2>2 DEF Inv, TypeOK, poller, wakeup
    <2>6. LoopInv' BY <1>1, <1>2, <2>1, <2>2, <2>3, <2>4 DEF LoopInv, Busy, Reading, poller
    <2>7. BatchInv' BY <1>1, <1>2, <2>2 DEF Inv, BatchInv, Busy, Reading
    <2>8. QueueInv' BY <1>1, <2>2 DEF Inv, QueueInv
    <2>9. MapsInv' BY <1>1, <2>2 DEF Inv, MapsInv, Open, poller
    <2>10. WatchInv' BY <1>1, <2>2 DEF Inv, WatchInv, Open, poller
    <2>11. AnswerInv' BY <1>1, <1>2, <2>2, AnswersStay DEF Inv
    <2> QED BY <2>5, <2>6, <2>7, <2>8, <2>9, <2>10, <2>11 DEF Inv
  <1> QED BY <1>4, <1>5, <1>6 DEF Dispatch

\* A read takes all the frames, or those before a line that is too long.
LEMMA ReadKeeps ==
  ASSUME Inv, Read PROVE Inv'
  <1>1. PICK c \in Clients : c = cur.who /\ fd[c] # 0
    BY DEF Inv, LoopInv, Busy, Reading, Read
  <1>2. /\ UNCHANGED <<peer, sent, got, wire, backlog, batch, cur, quit, started, fd, out>>
        /\ loop = "read" /\ frames = <<>> /\ ~over
    BY DEF Read, client, conns, Inv, LoopInv
  <1>3. /\ inbox \in [Clients -> Frames] /\ inbox[c] \in Frames /\ <<>> \in Frames
    <2>1. <<>> \in Frames BY DEF Frames
    <2> QED BY <2>1 DEF Inv, TypeOK
  <1> DEFINE long == {i \in DOMAIN inbox[c] : inbox[c][i].kind = "huge"}
  <1>4. CASE /\ ~closed[c] /\ inbox[c] # <<>> /\ over' = (long # {})
             /\ \/ long = {} /\ frames' = inbox[c]
                \/ \E i \in long : (\A j \in long : i <= j) /\ frames' = SubSeq(inbox[c], 1, i - 1)
             /\ inbox' = [inbox EXCEPT ![c] = <<>>]
             /\ loop' = "frames" /\ UNCHANGED <<wakeup, conns>>
    <2>1. /\ UNCHANGED <<wakeup, table, channels, interest, closed>>
          /\ inbox' \in [Clients -> Frames] /\ inbox'[c] = <<>> /\ over' \in BOOLEAN
          /\ \A d \in Clients : d # c => inbox'[d] = inbox[d]
      BY <1>3, <1>4 DEF conns, poller
    <2>2. \/ long = {} /\ frames' = inbox[c] /\ over' = FALSE
          \/ \E i \in DOMAIN inbox[c] : frames' = SubSeq(inbox[c], 1, i - 1) /\ over' = TRUE
      BY <1>4
    <2>3. frames' \in Frames
      <3>1. ASSUME NEW i \in DOMAIN inbox[c] PROVE SubSeq(inbox[c], 1, i - 1) \in Frames
        <4> DEFINE S == [n : Nat, kind : Kinds]
        <4>1. inbox[c] \in Seq(S) BY <1>3 DEF Frames
        <4> HIDE DEF S
        <4>2. SubSeq(inbox[c], 1, i - 1) \in Seq(S) BY <3>1, <4>1
        <4> QED BY <4>2 DEF Frames, S
      <3> QED BY <2>2, <3>1, <1>3
    <2>4. TypeOK' BY <1>2, <1>4, <2>1, <2>3 DEF Inv, TypeOK, wakeup
    <2>5. LoopInv' BY <1>1, <1>2, <1>4, <2>1 DEF Inv, LoopInv, Busy, Reading
    <2>6. BatchInv' BY <1>2, <1>4, <2>1 DEF Inv, BatchInv, Busy, Reading
    <2>7. QueueInv' BY <1>2, <2>1 DEF Inv, QueueInv
    <2>8. MapsInv' BY <1>2, <2>1 DEF Inv, MapsInv, Open
    <2>9. WatchInv' BY <1>2, <1>4, <2>1 DEF Inv, WatchInv, Open
    <2>10. AnswerInv'
      <3>1. ~Cut(c) /\ Held(c) = <<>> BY <1>1, <1>2, <1>4 DEF Cut, Held, Inv, QueueInv
      <3>2. InOrder(Answered(c), Held(c)', <<>>, sent[c], closed[c], Cut(c)')
        <4>1. CASE frames' = inbox[c] /\ over' = FALSE
          <5>1. Held(c)' = inbox[c] /\ Cut(c)' = Cut(c) BY <4>1, <1>1, <1>2 DEF Held, Cut
          <5>2. InOrder(Answered(c), inbox[c], <<>>, sent[c], closed[c], Cut(c))
            BY <3>1, Ordered, Zenon
          <5> QED BY <5>1, <5>2
        <4>2. CASE \E i \in DOMAIN inbox[c] : frames' = SubSeq(inbox[c], 1, i - 1) /\ over' = TRUE
          <5>1. PICK i \in DOMAIN inbox[c] : frames' = SubSeq(inbox[c], 1, i - 1) /\ over' = TRUE
            BY <4>2
          <5>2. Held(c)' = SubSeq(inbox[c], 1, i - 1) /\ Cut(c)' = TRUE
            BY <5>1, <1>1, <1>2 DEF Held, Cut
          <5>3. InOrder(Answered(c), SubSeq(inbox[c], 1, i - 1), <<>>, sent[c], closed[c], TRUE)
            BY <3>1, Ordered, Zenon
          <5> QED BY <5>2, <5>3
        <4> QED BY <4>1, <4>2, <2>2
      <3>3. ASSUME NEW d \in Clients
            PROVE  Answered(d)' = Answered(d) /\ closed'[d] = closed[d] /\ sent'[d] = sent[d]
        BY <1>2, <2>1 DEF Answered
      <3>4. ASSUME NEW d \in Clients, d # c
            PROVE  Held(d)' = Held(d) /\ Cut(d)' = Cut(d) /\ inbox'[d] = inbox[d]
        BY <3>4, <1>1, <1>2, <2>1 DEF Held, Cut
      <3>5. ASSUME NEW d \in Clients
            PROVE  InOrder(Answered(d), Held(d), inbox[d], sent[d], closed[d], Cut(d))'
        <4>1. CASE d = c BY <4>1, <3>2, <3>3, <2>1
        <4>2. CASE d # c BY <4>2, <3>3, <3>4 DEF Inv, AnswerInv
        <4> QED BY <4>1, <4>2
      <3> QED BY <3>5 DEF AnswerInv
    <2> QED BY <2>4, <2>5, <2>6, <2>7, <2>8, <2>9, <2>10 DEF Inv
  <1>5. CASE /\ loop' = AfterRead /\ UNCHANGED <<frames, over, inbox>>
             /\ IF peer[c] \in {"shut", "reset"} THEN CloseInLoop(c)
                                               ELSE UNCHANGED <<table, poller, closed, wakeup>>
             /\ UNCHANGED <<fd, out>>
    <2>1. loop' \in {"write", "dispatch"} /\ (loop' = "write" <=> cur.write)
      BY <1>5 DEF AfterRead
    <2>2. loop' = "write" => out[c] # <<>>
      BY <1>1, <1>2, <2>1 DEF Inv, LoopInv, Reading
    <2>3. CASE CloseInLoop(c)
      <3>1. /\ closed' = [closed EXCEPT ![c] = TRUE] /\ closed' \in [Clients -> BOOLEAN]
            /\ table' \in [Fds -> Clients \cup {Nobody}]
            /\ channels' \in [Fds -> Clients \cup {Nobody}]
            /\ interest' \in [Fds -> SUBSET {"read", "write"}]
            /\ woken' \in BOOLEAN /\ tasks' \subseteq Clients \cup {"start"}
            /\ QueueInv' /\ MapsInv' /\ WatchInv'
        BY <1>1, <1>2, <1>5, <2>1, <2>3, CloseKeeps
      <3>2. closed'[c] BY <3>1 DEF Inv, TypeOK
      <3>3. TypeOK' BY <1>2, <1>5, <2>1, <3>1 DEF Inv, TypeOK
      <3>4. LoopInv' BY <1>1, <1>2, <1>5, <2>1, <2>2, <3>2 DEF Inv, LoopInv, Busy, Reading
      <3>5. BatchInv' BY <1>2, <2>1 DEF Inv, BatchInv, Busy, Reading
      <3>6. AnswerInv'
        <4>1. \A d \in Clients \ {c} : Held(d)' = Held(d) /\ Cut(d)' = Cut(d)
          BY <1>2, <1>5 DEF Held, Cut
        <4> QED BY <1>2, <1>5, <3>1, <4>1, AnswersOfOthersStay
      <3> QED BY <3>1, <3>3, <3>4, <3>5, <3>6 DEF Inv
    <2>4. CASE UNCHANGED <<table, poller, closed, wakeup>>
      <3>1. ~closed[c] /\ out[c] # <<>> => interest[fd[c]] = {"read", "write"}
        BY <1>1, <1>2 DEF Inv, WatchInv, Open
      <3>2. TypeOK' BY <1>2, <1>5, <2>1, <2>4 DEF Inv, TypeOK, poller, wakeup
      <3>3. LoopInv' BY <1>1, <1>2, <1>5, <2>1, <2>2, <2>4, <3>1 DEF LoopInv, Busy, Reading, poller
      <3>4. BatchInv' BY <1>2, <2>1 DEF Inv, BatchInv, Busy, Reading
      <3>5. QueueInv' BY <1>2, <1>5, <2>4 DEF Inv, QueueInv
      <3>6. MapsInv' BY <1>2, <2>4 DEF Inv, MapsInv, Open, poller
      <3>7. WatchInv' BY <1>2, <2>4 DEF Inv, WatchInv, Open, poller
      <3>8. AnswerInv' BY <1>2, <1>5, <2>4, AnswersStay DEF Inv
      <3> QED BY <3>2, <3>3, <3>4, <3>5, <3>6, <3>7, <3>8 DEF Inv
    <2> QED BY <2>3, <2>4, <1>5
  <1> QED BY <1>1, <1>4, <1>5 DEF Read
\* handle_write, its five cases.
LEMMA WriteKeeps ==
  ASSUME Inv, Write PROVE Inv'
  <1>1. PICK c \in Clients : c = cur.who /\ fd[c] # 0
    BY DEF Inv, LoopInv, Busy, Reading, Write
  <1>2. /\ UNCHANGED <<peer, sent, got, inbox, backlog, batch, cur, frames, over, quit>>
        /\ UNCHANGED <<started, fd>>
        /\ loop = "write" /\ frames = <<>> /\ ~over
    <2>1. UNCHANGED <<client, inbox, backlog, control, started, fd>> /\ loop = "write"
      BY DEF Write, Die, conns
    <2> QED BY <2>1 DEF client, control, Inv, LoopInv
  <1>3. ~closed[c] => interest[fd[c]] = {"read", "write"}
    BY <1>1, <1>2 DEF Inv, LoopInv
  <1>4. ASSUME loop' \in {"write", "dispatch"}, loop' = "write" => UNCHANGED <<interest, closed>>,
               UNCHANGED <<wire, out, woken, tasks, table, channels, closed>>,
               interest' \in [Fds -> SUBSET {"read", "write"}],
               loop' = "write" /\ closed[c] => out[c] # <<>>,
               \A d \in Clients : Open(d) /\ (loop' = "write" => d # c) =>
                 interest'[fd[d]] = IF out[d] = <<>> THEN {"read"} ELSE {"read", "write"}
        PROVE  Inv'
    <2>1. TypeOK' BY <1>2, <1>4 DEF Inv, TypeOK
    <2>2. LoopInv' BY <1>1, <1>2, <1>4 DEF Inv, LoopInv, Busy, Reading
    <2>3. BatchInv' BY <1>2, <1>4 DEF Inv, BatchInv, Busy, Reading
    <2>4. QueueInv' BY <1>2, <1>4 DEF Inv, QueueInv
    <2>5. MapsInv' BY <1>2, <1>4 DEF Inv, MapsInv, Open
    <2>6. WatchInv' BY <1>1, <1>2, <1>4 DEF WatchInv, Open
    <2>7. AnswerInv' BY <1>2, <1>4, AnswersStay DEF Inv
    <2> QED BY <2>1, <2>2, <2>3, <2>4, <2>5, <2>6, <2>7 DEF Inv
  <1>5. CASE closed[c] /\ loop' = (IF out[c] = <<>> THEN "thrown" ELSE "dispatch")
             /\ UNCHANGED <<wire, wakeup, conns>>
    <2>1. loop' = "dispatch" BY <1>1, <1>2, <1>5 DEF Inv, LoopInv
    <2>2. UNCHANGED <<wire, out, woken, tasks, table, channels, closed, interest>>
      BY <1>5 DEF wakeup, conns, poller
    <2>3. interest \in [Fds -> SUBSET {"read", "write"}] BY DEF Inv, TypeOK
    <2>4. \A d \in Clients : Open(d) =>
            interest[fd[d]] = IF out[d] = <<>> THEN {"read"} ELSE {"read", "write"}
      BY <1>1, <1>5 DEF Inv, WatchInv, Open
    <2> QED BY <1>4, <2>1, <2>2, <2>3, <2>4
  <1>6. CASE /\ ~closed[c] /\ out[c] # <<>> /\ peer[c] # "reset"
             /\ loop' = "dispatch" /\ UNCHANGED <<wire, wakeup, conns>>
    <2>1. UNCHANGED <<wire, out, woken, tasks, table, channels, closed, interest>>
      BY <1>6 DEF wakeup, conns, poller
    <2>2. interest \in [Fds -> SUBSET {"read", "write"}] BY DEF Inv, TypeOK
    <2>3. \A d \in Clients : Open(d) =>
            interest[fd[d]] = IF out[d] = <<>> THEN {"read"} ELSE {"read", "write"}
      BY <1>1, <1>3, <1>6 DEF Inv, WatchInv
    <2> QED BY <1>4, <1>6, <2>1, <2>2, <2>3
  <1>7. CASE /\ ~closed[c] /\ out[c] = <<>>
             /\ interest' = [interest EXCEPT ![fd[c]] = @ \ {"write"}]
             /\ loop' = "dispatch" /\ UNCHANGED <<wire, wakeup, table, channels, fd, closed, out>>
    <2>1. /\ interest \in [Fds -> SUBSET {"read", "write"}] /\ fd \in [Clients -> Fds \cup {0}]
          /\ fd[c] \in Fds
      BY <1>1 DEF Inv, TypeOK
    <2>2. interest' \in [Fds -> SUBSET {"read", "write"}] /\ interest'[fd[c]] = {"read"}
      BY <1>3, <1>7, <2>1
    <2>3. ASSUME NEW d \in Clients, Open(d)
          PROVE  interest'[fd[d]] = IF out[d] = <<>> THEN {"read"} ELSE {"read", "write"}
      <3>1. CASE d = c BY <3>1, <1>7, <2>2
      <3>2. CASE d # c
        <4>1. fd[d] \in Fds /\ table[fd[d]] = d /\ table[fd[c]] = c
          BY <1>1, <1>7, <2>1, <2>3 DEF Inv, MapsInv, Open
        <4>2. interest'[fd[d]] = interest[fd[d]] BY <3>2, <4>1, <1>7, <2>1
        <4> QED BY <4>2, <3>2, <1>1, <2>3 DEF Inv, WatchInv
      <3> QED BY <3>1, <3>2
    <2> QED BY <1>4, <1>7, <2>2, <2>3 DEF wakeup
  <1>8. CASE /\ CloseInLoop(c)
             /\ loop' = "dispatch" /\ UNCHANGED <<wire, fd, out>>
    <2>1. /\ closed' = [closed EXCEPT ![c] = TRUE] /\ closed' \in [Clients -> BOOLEAN]
          /\ table' \in [Fds -> Clients \cup {Nobody}]
          /\ channels' \in [Fds -> Clients \cup {Nobody}]
          /\ interest' \in [Fds -> SUBSET {"read", "write"}]
          /\ woken' \in BOOLEAN /\ tasks' \subseteq Clients \cup {"start"}
          /\ QueueInv' /\ MapsInv' /\ WatchInv'
      BY <1>1, <1>2, <1>8, CloseKeeps
    <2>2. TypeOK' BY <1>2, <1>8, <2>1 DEF Inv, TypeOK
    <2>3. LoopInv' BY <1>2, <1>8 DEF Inv, LoopInv, Busy, Reading
    <2>4. BatchInv' BY <1>2, <1>8 DEF Inv, BatchInv, Busy, Reading
    <2>5. AnswerInv'
      <3>1. \A d \in Clients \ {c} : Held(d)' = Held(d) /\ Cut(d)' = Cut(d)
        BY <1>2 DEF Held, Cut
      <3> QED BY <1>2, <1>8, <2>1, <3>1, AnswersOfOthersStay
    <2> QED BY <2>1, <2>2, <2>3, <2>4, <2>5 DEF Inv
  <1>9. CASE /\ ~closed[c] /\ out[c] # <<>>
             /\ wire' = [wire EXCEPT ![c] = Append(@, Head(out[c]))]
             /\ out' = Written(c)
             /\ UNCHANGED <<loop, wakeup, table, poller, fd, closed>>
    <2>1. /\ UNCHANGED <<loop, woken, tasks, table, channels, interest, closed>>
          /\ out' = [out EXCEPT ![c] = Tail(@)]
      BY <1>9 DEF wakeup, poller, Written
    <2>2. /\ got[c] \in Replies /\ wire[c] \in Replies /\ out[c] \in Replies
          /\ wire \in [Clients -> Replies] /\ out \in [Clients -> Replies]
      BY DEF Inv, TypeOK
    <2>3. Append(wire[c], Head(out[c])) \in Replies /\ Tail(out[c]) \in Replies
      BY <1>9, <2>2 DEF Replies
    <2>4. /\ wire' \in [Clients -> Replies] /\ out' \in [Clients -> Replies]
          /\ wire'[c] = Append(wire[c], Head(out[c])) /\ out'[c] = Tail(out[c])
          /\ \A d \in Clients : d # c => wire'[d] = wire[d] /\ out'[d] = out[d]
      BY <1>9, <2>1, <2>2, <2>3
    <2>5. TypeOK' BY <1>2, <2>1, <2>4 DEF Inv, TypeOK
    <2>6. LoopInv' BY <1>1, <1>2, <1>9, <2>1 DEF Inv, LoopInv, Busy, Reading
    <2>7. BatchInv' BY <1>1, <1>2, <2>1, <2>4 DEF Inv, BatchInv, Busy, Reading
    <2>8. QueueInv' BY <1>1, <1>2, <2>1, <2>4 DEF Inv, QueueInv
    <2>9. MapsInv' BY <1>2, <2>1 DEF Inv, MapsInv, Open
    <2>10. WatchInv' BY <1>1, <1>2, <2>1, <2>4 DEF Inv, WatchInv, Open
    <2>11. AnswerInv'
      <3>1. got[c] \o wire'[c] \o out'[c] = Answered(c) BY <1>9, MovedToWire, <2>4
      <3>2. \A d \in Clients : Answered(d)' = Answered(d) BY <3>1, <2>4, <1>2 DEF Answered
      <3>3. \A d \in Clients : Held(d)' = Held(d) /\ Cut(d)' = Cut(d) BY <1>2 DEF Held, Cut
      <3> QED BY <3>2, <3>3, <1>2, <2>1 DEF Inv, AnswerInv
    <2> QED BY <2>5, <2>6, <2>7, <2>8, <2>9, <2>10, <2>11 DEF Inv
  <1>10. CASE Die /\ UNCHANGED wire
    <2>1. UNCHANGED <<client, kernel, batch, cur, over, quit, started, frames>>
      BY <1>2, <1>10 DEF client, kernel
    <2> QED BY <1>2, <1>10, <2>1, DieKeeps
  <1> QED BY <1>1, <1>5, <1>6, <1>7, <1>8, <1>9, <1>10 DEF Write

\* A descriptor that is free is given to the connection that waited longest.
LEMMA AcceptKeeps ==
  ASSUME Inv, Accept PROVE Inv'
  <1>1. /\ UNCHANGED <<sent, got, inbox, wire, batch, cur, frames, over, quit>>
        /\ UNCHANGED <<woken, tasks, started>>
        /\ loop = "accept"
    BY DEF Accept, control, wakeup
  <1>2. CASE backlog = <<>>
    <2>1. loop' = "dispatch" /\ UNCHANGED <<peer, backlog, conns>> BY <1>2 DEF Accept
    <2>2. TypeOK' BY <1>1, <2>1 DEF Inv, TypeOK, conns, poller
    <2>3. LoopInv' BY <1>1, <2>1 DEF Inv, LoopInv, Busy, Reading
    <2>4. BatchInv' BY <1>1, <2>1 DEF Inv, BatchInv, Busy, Reading, conns
    <2>5. QueueInv' BY <1>1, <2>1 DEF Inv, QueueInv, conns
    <2>6. MapsInv' BY <2>1 DEF Inv, MapsInv, Open, conns, poller
    <2>7. WatchInv' BY <1>1, <2>1 DEF Inv, WatchInv, Open, conns, poller
    <2>8. AnswerInv' BY <1>1, <2>1, AnswersStay DEF Inv, conns
    <2> QED BY <2>2, <2>3, <2>4, <2>5, <2>6, <2>7, <2>8 DEF Inv
  <1>3. CASE backlog # <<>>
    <2>1. /\ backlog \in Seq(Clients) /\ fd \in [Clients -> Fds \cup {0}]
          /\ peer \in [Clients -> {"away", "queued", "open", "shut", "reset"}]
          /\ table \in [Fds -> Clients \cup {Nobody}]
          /\ channels \in [Fds -> Clients \cup {Nobody}]
          /\ interest \in [Fds -> SUBSET {"read", "write"}]
      BY DEF Inv, TypeOK
    <2>2. PICK c \in Clients : c = Head(backlog) /\ c = backlog[1] /\ 1 \in DOMAIN backlog
      BY <1>3, <2>1, TailOf
    <2>3. peer[c] = "queued" /\ fd[c] = 0 /\ ~closed[c] /\ out[c] = <<>>
      BY <2>2 DEF Inv, QueueInv
    <2>4. PICK f \in Fds :
               /\ \A d \in Clients : Open(d) => fd[d] # f
               /\ backlog' = Tail(backlog) /\ peer' = [peer EXCEPT ![c] = "open"]
               /\ fd' = [fd EXCEPT ![c] = f]
               /\ channels' = [channels EXCEPT ![f] = c]
               /\ interest' = [interest EXCEPT ![f] = {"read"}]
               /\ table' = [table EXCEPT ![f] = c]
               /\ UNCHANGED <<loop, closed, out>>
      BY <1>3, <2>2 DEF Accept
    <2>5. /\ fd'[c] = f /\ f # 0 /\ \A d \in Clients : d # c => fd'[d] = fd[d]
          /\ peer'[c] = "open" /\ \A d \in Clients : d # c => peer'[d] = peer[d]
          /\ table'[f] = c /\ \A g \in Fds : g # f => table'[g] = table[g]
          /\ interest'[f] = {"read"} /\ \A g \in Fds : g # f => interest'[g] = interest[g]
      BY <2>1, <2>4, Constants
    <2>6. /\ backlog' \in Seq(Clients)
          /\ \A i \in DOMAIN backlog' : backlog'[i] = backlog[i + 1] /\ i + 1 \in DOMAIN backlog
          /\ DOMAIN backlog' = 1..(Len(backlog) - 1) /\ Len(backlog) \in Nat
      BY <1>3, <2>1, <2>4, TailOf
    <2>7. TypeOK'
      <3>1. /\ fd' \in [Clients -> Fds \cup {0}]
            /\ peer' \in [Clients -> {"away", "queued", "open", "shut", "reset"}]
            /\ table' \in [Fds -> Clients \cup {Nobody}]
            /\ channels' \in [Fds -> Clients \cup {Nobody}]
            /\ interest' \in [Fds -> SUBSET {"read", "write"}]
        BY <2>1, <2>4
      <3> QED BY <1>1, <2>4, <2>6, <3>1 DEF Inv, TypeOK
    <2>8. LoopInv' BY <1>1, <2>4 DEF Inv, LoopInv, Busy, Reading
    <2>9. BatchInv' BY <1>1, <2>4, <2>5 DEF Inv, BatchInv, Busy, Reading
    <2>10. QueueInv'
      <3>1. ASSUME NEW i \in DOMAIN backlog'
            PROVE  backlog'[i] \in Clients /\ backlog'[i] # c /\ peer'[backlog'[i]] = "queued"
        <4>1. i \in Nat /\ i # 0 /\ i + 1 \in DOMAIN backlog /\ backlog'[i] = backlog[i + 1]
              /\ i + 1 # 1
          BY <2>6
        <4>2. backlog[i + 1] \in Clients /\ backlog[i + 1] # backlog[1]
          BY <4>1, <2>1, <2>2 DEF Inv, QueueInv
        <4> QED BY <4>1, <4>2, <2>2, <2>5 DEF Inv, QueueInv
      <3>2. ASSUME NEW i \in DOMAIN backlog', NEW j \in DOMAIN backlog', backlog'[i] = backlog'[j]
            PROVE  i = j
        <4>1. i + 1 = j + 1 BY <3>2, <2>6 DEF Inv, QueueInv
        <4> QED BY <4>1, <2>6
      <3>3. ASSUME NEW d \in Clients
            PROVE  /\ peer'[d] \in {"away", "queued"} => fd'[d] = 0
                   /\ fd'[d] = 0 => ~closed'[d] /\ out'[d] = <<>>
                   /\ peer'[d] = "reset" => inbox'[d] = <<>>
        BY <1>1, <2>4, <2>5 DEF Inv, QueueInv
      <3> QED BY <3>1, <3>2, <3>3 DEF QueueInv
    <2>11. MapsInv'
      <3>1. table' = channels' BY <2>4 DEF Inv, MapsInv
      <3>2. ASSUME NEW g \in Fds, NEW d \in Clients
            PROVE  table'[g] = d <=> Open(d)' /\ fd'[d] = g
        <4>1. table[g] = d <=> Open(d) /\ fd[d] = g BY DEF Inv, MapsInv
        <4> QED BY <4>1, <2>3, <2>4, <2>5, Constants DEF Open
      <3> QED BY <3>1, <3>2 DEF MapsInv
    <2>12. WatchInv'
      <3>1. ASSUME NEW d \in Clients, Open(d)'
            PROVE  interest'[fd'[d]] = IF out'[d] = <<>> THEN {"read"} ELSE {"read", "write"}
        <4>1. CASE d = c BY <4>1, <2>3, <2>4, <2>5
        <4>2. CASE d # c
          <5>1. Open(d) /\ fd'[d] = fd[d] /\ fd[d] # f /\ fd[d] \in Fds
            BY <4>2, <3>1, <2>1, <2>4, <2>5 DEF Open
          <5>2. interest[fd[d]] = IF out[d] = <<>> THEN {"read"} ELSE {"read", "write"}
            BY <5>1, <1>1 DEF Inv, WatchInv
          <5> QED BY <5>1, <5>2, <2>4, <2>5
        <4> QED BY <4>1, <4>2
      <3> QED BY <3>1 DEF WatchInv
    <2>13. AnswerInv'
      <3>1. \A d \in Clients : Cut(d)' = Cut(d) BY <1>1, <2>3, <2>5 DEF Cut
      <3>2. \A d \in Clients : Answered(d)' = Answered(d) /\ Held(d)' = Held(d)
        BY <1>1, <2>4 DEF Answered, Held
      <3> QED BY <3>1, <3>2, <1>1, <2>4 DEF Inv, AnswerInv
    <2> QED BY <2>7, <2>8, <2>9, <2>10, <2>11, <2>12, <2>13 DEF Inv
  <1> QED BY <1>2, <1>3

\* stop() after the loop.
LEMMA StopKeeps ==
  ASSUME Inv, Stop PROVE Inv'
  <1>1. /\ UNCHANGED <<peer, sent, got, inbox, wire, backlog, batch, cur, frames, over, quit>>
        /\ UNCHANGED <<fd, out>>
        /\ loop = "stop" /\ loop' = "ended" /\ started' = FALSE
    BY DEF Stop, client, kernel, control
  <1>2. frames = <<>> /\ ~over /\ batch = {} BY <1>1 DEF Inv, LoopInv
  <1>3. LoopInv' BY <1>1, <1>2 DEF LoopInv, Busy, Reading
  <1>4. BatchInv' BY <1>1, <1>2 DEF BatchInv
  <1>5. CASE started
    <2>1. /\ closed' = [c \in Clients |-> closed[c] \/ fd[c] # 0]
          /\ table' = [f \in Fds |-> Nobody] /\ channels' = [f \in Fds |-> Nobody]
          /\ interest' = [f \in Fds |-> {}]
          /\ tasks' = tasks \cup {c \in Clients : Open(c)}
          /\ woken' = (woken \/ \E c \in Clients : Open(c))
      BY <1>5 DEF Stop
    <2>2. /\ closed \in [Clients -> BOOLEAN] /\ closed' \in [Clients -> BOOLEAN]
          /\ \A d \in Clients : closed'[d] = closed[d] \/ closed'[d] = TRUE
          /\ \A d \in Clients : ~(fd[d] # 0 /\ ~closed'[d])
          /\ \A d \in Clients : fd[d] = 0 => closed'[d] = closed[d]
      BY <2>1 DEF Inv, TypeOK
    <2>3. woken' \in BOOLEAN /\ tasks' \subseteq Clients \cup {"start"}
      BY <2>1 DEF Inv, TypeOK
    <2>4. TypeOK' BY <1>1, <2>1, <2>2, <2>3 DEF Inv, TypeOK
    <2>5. QueueInv' BY <1>1, <2>2 DEF Inv, QueueInv
    <2>6. MapsInv' BY <1>1, <2>1, <2>2, Constants DEF MapsInv, Open
    <2>7. WatchInv' BY <1>1, <2>2 DEF WatchInv, Open
    <2>8. AnswerInv'
      <3>1. ASSUME NEW d \in Clients
            PROVE  /\ Answered(d)' = Answered(d) /\ Held(d)' = Held(d) /\ Cut(d)' = Cut(d)
                   /\ InOrder(Answered(d), Held(d), inbox[d], sent[d], TRUE, Cut(d))
        <4>1. Answered(d)' = Answered(d) /\ Held(d)' = Held(d) /\ Cut(d)' = Cut(d)
          BY <1>1 DEF Answered, Held, Cut
        <4> QED BY <4>1, Ordered, Zenon
      <3>2. ASSUME NEW d \in Clients
            PROVE  InOrder(Answered(d), Held(d), inbox[d], sent[d], closed[d], Cut(d))'
        <4>1. CASE closed'[d] = closed[d] BY <4>1, <3>1, <1>1 DEF Inv, AnswerInv
        <4>2. CASE closed'[d] = TRUE BY <4>2, <3>1, <1>1
        <4> QED BY <4>1, <4>2, <2>2
      <3> QED BY <3>2 DEF AnswerInv
    <2> QED BY <1>3, <1>4, <2>4, <2>5, <2>6, <2>7, <2>8 DEF Inv
  <1>6. CASE ~started
    <2>1. UNCHANGED <<closed, table, channels, interest, woken, tasks>>
      BY <1>6 DEF Stop, poller, wakeup
    <2>2. TypeOK' BY <1>1, <2>1 DEF Inv, TypeOK
    <2>3. QueueInv' BY <1>1, <2>1 DEF Inv, QueueInv
    <2>4. MapsInv' BY <1>1, <2>1 DEF Inv, MapsInv, Open
    <2>5. WatchInv' BY <1>1, <2>1 DEF Inv, WatchInv, Open
    <2>6. AnswerInv' BY <1>1, <2>1, AnswersStay DEF Inv
    <2> QED BY <1>3, <1>4, <2>2, <2>3, <2>4, <2>5, <2>6 DEF Inv
  <1> QED BY <1>5, <1>6

-----------------------------------------------------------------------------
(* The theorems *)

\* The loop, the tables and the answers stay as Inv says, whatever the order of the
\* channels of a batch and whenever connections close under it.
THEOREM Invariance == Spec => []Inv
  <1>1. Init => Inv BY InitInv
  <1>2. Inv /\ [Next]_vars => Inv'
    <2> SUFFICES ASSUME Inv, [Next]_vars PROVE Inv' OBVIOUS
    <2>1. CASE Loop
      <3>1. CASE CheckQuit \/ RunPendingTasks BY <3>1, BetweenBatches
      <3>2. CASE Poll BY <3>2, PollKeeps
      <3>3. CASE Accept BY <3>3, AcceptKeeps
      <3>4. CASE Stop BY <3>4, StopKeeps
      <3>5. CASE Read BY <3>5, ReadKeeps
      <3>6. CASE HandleMessage \/ Forwarded BY <3>6, HandleMessageKeeps, ForwardedKeeps
      <3>7. CASE FramesDone BY <3>7, FramesDoneKeeps
      <3>8. CASE Write BY <3>8, WriteKeeps
      <3>9. CASE \E e \in batch : Dispatch(e) BY <3>9, DispatchKeeps
      <3> QED BY <2>1, <3>1, <3>2, <3>3, <3>4, <3>5, <3>6, <3>7, <3>8, <3>9 DEF Loop
    <2>2. CASE Signal \/ Interrupted BY <2>2, BetweenBatches
    <2>3. CASE \E c \in Clients : Connect(c) BY <2>3, ConnectKeeps
    <2>4. CASE \E c \in Clients : Receive(c) BY <2>4, ReceiveKeeps
    <2>5. CASE \E c \in Clients, kind \in Kinds : Submit(c, kind) BY <2>5, SubmitKeeps
    <2>6. CASE \E c \in Clients, how \in {"shut", "reset"} : Leave(c, how) BY <2>6, LeaveKeeps
    <2>7. CASE UNCHANGED vars
      <3>1. /\ UNCHANGED <<peer, sent, got, inbox, wire, backlog, loop, batch, cur, frames, over>>
            /\ UNCHANGED <<quit, woken, tasks, started, table, channels, interest, fd, closed, out>>
        BY <2>7 DEF vars, client, kernel, control, wakeup, conns, poller
      <3>2. TypeOK' BY <3>1 DEF Inv, TypeOK
      <3>3. LoopInv' BY <3>1 DEF Inv, LoopInv
      <3>4. BatchInv' BY <3>1 DEF Inv, BatchInv
      <3>5. QueueInv' BY <3>1 DEF Inv, QueueInv
      <3>6. MapsInv' BY <3>1 DEF Inv, MapsInv, Open
      <3>7. WatchInv' BY <3>1 DEF Inv, WatchInv, Open
      <3>8. AnswerInv' BY <3>1, AnswersStay DEF Inv
      <3> QED BY <3>2, <3>3, <3>4, <3>5, <3>6, <3>7, <3>8 DEF Inv
    <2> QED BY <2>1, <2>2, <2>3, <2>4, <2>5, <2>6, <2>7 DEF Next
  <1> QED BY <1>1, <1>2, PTL DEF Spec

\* The server's connections, the poller's map and epoll's interest never disagree, so that
\* no callback reaches a descriptor that is another connection's by then.
THEOREM TablesStayInStep == Spec => []TablesAgree
  <1>1. Inv => TablesAgree
    BY DEF Inv, LoopInv, MapsInv, WatchInv, TablesAgree
  <1> QED BY <1>1, Invariance, PTL

\* Every frame is answered once, in the order of the frames, and none is lost on the way.
THEOREM RepliesStayInOrder == Spec => []RepliesInOrder
  <1>1. ASSUME Inv PROVE RepliesInOrder
    <2>1. ASSUME NEW c \in Clients
          PROVE  LET answered == got[c] \o wire[c] \o out[c]
                     rest == (IF cur.who = c THEN frames ELSE <<>>) \o inbox[c]
                 IN /\ \A i \in DOMAIN answered : answered[i] = i
                    /\ ~closed[c] /\ peer[c] # "reset" /\ ~(over /\ cur.who = c) =>
                         /\ Len(answered) + Len(rest) = sent[c]
                         /\ \A i \in DOMAIN rest : rest[i].n = Len(answered) + i
      <3> DEFINE a == Answered(c)
                 h == Held(c)
                 b == inbox[c]
      <3>1. /\ a \in Seq(Nat) /\ h \in Frames /\ b \in Frames /\ sent[c] \in Nat
            /\ InOrder(a, h, b, sent[c], closed[c], Cut(c))
        BY <1>1, AnswerTypes
      <3>2. \A i \in DOMAIN a : a[i] = i BY <3>1 DEF InOrder
      <3>3. ASSUME ~closed[c], ~Cut(c)
            PROVE  /\ Len(a) + Len(h \o b) = sent[c]
                   /\ \A i \in DOMAIN (h \o b) : (h \o b)[i].n = Len(a) + i
        <4> HIDE DEF a, h, b
        <4>1. /\ Len(a) + Len(h) + Len(b) = sent[c]
              /\ \A i \in DOMAIN h : h[i].n = Len(a) + i
              /\ \A i \in DOMAIN b : b[i].n = Len(a) + Len(h) + i
          BY <3>1, <3>3 DEF InOrder
        <4>2. /\ Len(h \o b) = Len(h) + Len(b) /\ Len(a) \in Nat
              /\ Len(h) \in Nat /\ Len(b) \in Nat
              /\ DOMAIN h = 1..Len(h) /\ DOMAIN b = 1..Len(b)
              /\ DOMAIN (h \o b) = 1..(Len(h) + Len(b))
              /\ \A i \in 1..(Len(h) + Len(b)) :
                   (h \o b)[i] = IF i <= Len(h) THEN h[i] ELSE b[i - Len(h)]
          BY <3>1, Joined DEF Frames
        <4>3. ASSUME NEW i \in DOMAIN (h \o b) PROVE (h \o b)[i].n = Len(a) + i
          <5>1. i \in Nat /\ 1 <= i /\ i <= Len(h) + Len(b) BY <4>2
          <5>2. CASE i <= Len(h)
            <6>1. i \in DOMAIN h BY <5>1, <5>2, <4>2
            <6>2. (h \o b)[i] = h[i] BY <5>2, <4>2
            <6> QED BY <6>1, <6>2, <4>1
          <5>3. CASE ~(i <= Len(h))
            <6>1. i - Len(h) \in DOMAIN b BY <5>1, <5>3, <4>2
            <6>2. (h \o b)[i] = b[i - Len(h)] BY <5>3, <4>2
            <6>3. b[i - Len(h)].n = Len(a) + Len(h) + (i - Len(h)) BY <6>1, <4>1
            <6>4. Len(a) + Len(h) + (i - Len(h)) = Len(a) + i BY <5>1, <4>2
            <6> QED BY <6>2, <6>3, <6>4
          <5> QED BY <5>2, <5>3
        <4>4. Len(a) + Len(h \o b) = sent[c] BY <4>1, <4>2
        <4> QED BY <4>3, <4>4
      <3> QED BY <3>2, <3>3 DEF Answered, Held, Cut
    <2> QED BY <2>1 DEF RepliesInOrder
  <1>2. Inv => RepliesInOrder BY <1>1
  <1> QED BY <1>2, Invariance, PTL
=============================================================================
