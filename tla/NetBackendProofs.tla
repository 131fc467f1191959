-------------------------- MODULE NetBackendProofs --------------------------
(***************************************************************************)
(* The remote backend: its sockets are used in step, a session whose setup *)
(* was acknowledged has its task, and an inference that returns its text   *)
(* heard its events, for any number of sessions, events and calls.         *)
(***************************************************************************)
EXTENDS NetBackend, SequenceTheorems, TLAPS

USE NetBackendAssumption

Used == {"ready", "released"}

\* Its destructor has not ended either.
Held == Used \cup {"leaving", "quitting"}

\* What is under way: the requests not yet taken, and the inference in execution.
UnderWay == requests \cup (IF serving = NoRequest THEN {} ELSE {serving})

SeqInv == \A s \in Sessions : seq[s] <= ops

ServingInv == serving # NoRequest => serving.kind = "inference"

SockInv ==
  \A s \in Sessions :
    /\ sock[s]["rpc"] # "broken"
    /\ sock[s]["ctl"] = "broken" => s \in interrupted
    /\ life[s] \in {"unborn", "setup", "failed", "gone"} => sock[s]["ctl"] = "idle"
    /\ life[s] = "unborn" => sock[s]["rpc"] = "idle" /\ inbox[s]["rpc"] = "none"
    /\ life[s] \in Used /\ ~pending[s] => sock[s]["rpc"] = "idle"
    /\ drv[s] = "polling" => life[s] \in Used

\* Only a call that a signal ended leaves ctl unable to send.
UnsentInv == unsent \subseteq interrupted

\* Which requests of a session can be under way.
KindInv ==
  \A r \in UnderWay :
    /\ life[r.sess] # "unborn"
    /\ r.kind = "inference" => life[r.sess] # "setup"
    /\ r.kind = "exit" => life[r.sess] \in {"quitting", "gone"}
    /\ r.via = "ctl" <=> r.kind = "exit"

\* The one exit a session sends finds the task of the session, and the one setup no
\* task at all, or is refused.
TaskInv ==
  ~restarted /\ ~refused =>
    /\ \A r \in requests : r.kind = "exit" => task = r.sess
    /\ \A r, q \in requests : r.kind = q.kind /\ r.sess = q.sess => r.kind = "inference" \/ r = q
    /\ \A r \in requests : r.kind = "setup" =>
         r.live /\ life[r.sess] = "setup" /\ inbox[r.sess]["rpc"] = "none"
    /\ \A s \in Sessions :
         /\ life[s] = "setup" /\ inbox[s]["rpc"] = "ok" => task = s
         /\ life[s] \in Used \cup {"leaving"} => task = s
         /\ life[s] # "failed"

Inv == TypeOK /\ SeqInv /\ ServingInv /\ SockInv /\ UnsentInv /\ KindInv /\ TaskInv

-----------------------------------------------------------------------------
(* Lemmas *)

LEMMA Constants ==
  /\ Nobody \notin Sessions /\ Vias = {"rpc", "ctl"}
  /\ SessionCount \in Nat \ {0} /\ Events \in Nat \ {0} /\ MaxOps \in Nat
  BY DEF Nobody, Sessions, Vias

LEMMA RequestMade ==
  ASSUME NEW s \in Sessions, NEW via \in Vias, NEW rid \in 0..MaxOps,
         NEW kind \in {"setup", "inference", "exit"}
  PROVE  /\ Request(s, via, kind, rid) \in RequestType
         /\ Request(s, via, kind, rid).sess = s /\ Request(s, via, kind, rid).via = via
         /\ Request(s, via, kind, rid).kind = kind /\ Request(s, via, kind, rid).live
         /\ Request(s, via, kind, rid).rid = rid
  BY DEF Request, RequestType

\* A request left behind is still the same request.
LEMMA LeftBehindKeeps ==
  ASSUME NEW r \in RequestType \cup {NoRequest}, NEW s \in Sessions, NEW via \in Vias
  PROVE  /\ LeftBehind(r, s, via) \in RequestType \cup {NoRequest}
         /\ r = NoRequest => LeftBehind(r, s, via) = NoRequest
         /\ r \in RequestType /\ r # NoRequest =>
              /\ LeftBehind(r, s, via) \in RequestType
              /\ LeftBehind(r, s, via).sess = r.sess /\ LeftBehind(r, s, via).via = r.via
              /\ LeftBehind(r, s, via).kind = r.kind
  <1>1. CASE r = NoRequest BY <1>1 DEF LeftBehind, IsFrom
  <1>2. CASE r \in RequestType /\ r # NoRequest
    BY <1>2 DEF LeftBehind, IsFrom, RequestType
  <1> QED BY <1>1, <1>2

LEMMA OrphansKeep ==
  ASSUME requests \subseteq RequestType, NEW s \in Sessions, NEW vias \in SUBSET Vias,
         NEW R \in Orphans(s, vias)
  PROVE  /\ R \subseteq RequestType
         /\ \A q \in R : \E r \in requests :
              /\ q.sess = r.sess /\ q.kind = r.kind /\ q.via = r.via
              /\ q = IF r.sess = s /\ r.via \in vias THEN [r EXCEPT !.live = FALSE] ELSE r
  <1> SUFFICES ASSUME NEW q \in R
               PROVE  /\ q \in RequestType
                      /\ \E r \in requests :
                           /\ q.sess = r.sess /\ q.kind = r.kind /\ q.via = r.via
                           /\ q = IF r.sess = s /\ r.via \in vias
                                  THEN [r EXCEPT !.live = FALSE] ELSE r
    OBVIOUS
  <1>1. PICK r \in requests :
          q = IF r.sess = s /\ r.via \in vias THEN [r EXCEPT !.live = FALSE] ELSE r
    <2>1. PICK r \in requests :
            \/ q = r /\ ~(r.sess = s /\ r.via \in vias /\ r.live)
            \/ q = [r EXCEPT !.live = FALSE] /\ r.sess = s /\ r.via \in vias
      BY DEF Orphans
    <2>2. r \in RequestType OBVIOUS
    <2>3. CASE r.sess = s /\ r.via \in vias /\ ~r.live
      <3>1. [r EXCEPT !.live = FALSE] = r BY <2>2, <2>3 DEF RequestType
      <3> QED BY <2>1, <2>3, <3>1
    <2> QED BY <2>1, <2>3
  <1>2. r \in RequestType OBVIOUS
  <1>3. q \in RequestType /\ q.sess = r.sess /\ q.kind = r.kind /\ q.via = r.via
    BY <1>1, <1>2 DEF RequestType
  <1> QED BY <1>1, <1>3

\* The sockets vias of s are destroyed.
LEMMA Leaves ==
  ASSUME TypeOK, NEW s \in Sessions, NEW vias \in SUBSET Vias,
         NEW R, R \in Orphans(s, vias), serving' = LeftBehind(serving, s, "rpc")
  PROVE  /\ R \subseteq RequestType
         /\ \A q \in R : \E r \in requests :
               /\ q.sess = r.sess /\ q.kind = r.kind /\ q.via = r.via
               /\ q = IF r.sess = s /\ r.via \in vias THEN [r EXCEPT !.live = FALSE] ELSE r
         /\ serving' \in RequestType \cup {NoRequest}
         /\ \A q \in R \cup (IF serving' = NoRequest THEN {} ELSE {serving'}) :
              \E r \in UnderWay : q.sess = r.sess /\ q.kind = r.kind /\ q.via = r.via
         /\ ServingInv => ServingInv'
  <1>1. requests \subseteq RequestType /\ serving \in RequestType \cup {NoRequest}
    BY DEF TypeOK
  <1>2. /\ R \subseteq RequestType
        /\ \A q \in R : \E r \in requests :
              /\ q.sess = r.sess /\ q.kind = r.kind /\ q.via = r.via
              /\ q = IF r.sess = s /\ r.via \in vias THEN [r EXCEPT !.live = FALSE] ELSE r
    BY <1>1, OrphansKeep
  <1>3. "rpc" \in Vias BY DEF Vias
  <1>4. /\ serving' \in RequestType \cup {NoRequest}
        /\ serving = NoRequest => serving' = NoRequest
        /\ serving \in RequestType /\ serving # NoRequest =>
             /\ serving'.sess = serving.sess /\ serving'.via = serving.via
             /\ serving'.kind = serving.kind
    BY <1>1, <1>3, LeftBehindKeeps
  <1>5. ASSUME NEW q \in R \cup (IF serving' = NoRequest THEN {} ELSE {serving'})
        PROVE  \E r \in UnderWay : q.sess = r.sess /\ q.kind = r.kind /\ q.via = r.via
    <2>1. CASE q \in R BY <2>1, <1>2 DEF UnderWay
    <2>2. CASE q \notin R
      <3>1. q = serving' /\ serving' # NoRequest BY <2>2, <1>5
      <3>2. serving # NoRequest /\ serving \in RequestType BY <3>1, <1>1, <1>4
      <3>3. serving \in UnderWay BY <3>2 DEF UnderWay
      <3> QED BY <3>1, <3>2, <3>3, <1>4
    <2> QED BY <2>1, <2>2
  <1>6. ServingInv => ServingInv' BY <1>1, <1>4 DEF ServingInv
  <1> QED BY <1>2, <1>4, <1>5, <1>6

\* Requests under way after some of them have been left behind.
LEMMA KindsKept ==
  ASSUME Inv,
         \A q \in UnderWay' : \E r \in UnderWay :
           q.sess = r.sess /\ q.kind = r.kind /\ q.via = r.via,
         \A s \in Sessions :
           /\ life[s] # "unborn" => life'[s] # "unborn"
           /\ life[s] # "unborn" /\ life[s] # "setup" => life'[s] # "setup"
           /\ life[s] \in {"quitting", "gone"} => life'[s] \in {"quitting", "gone"}
  PROVE  KindInv'
  <1>1. \A r \in UnderWay : r.sess \in Sessions
    BY DEF Inv, TypeOK, UnderWay, RequestType
  <1> QED BY <1>1 DEF Inv, KindInv

LEMMA InitOK == Init => Inv
  <1> SUFFICES ASSUME Init PROVE Inv OBVIOUS
  <1>1. TypeOK
    <2>1. /\ 0 \in 0..MaxOps /\ 0 \in 0..Events
          /\ <<>> \in Seq(EventType)
      BY Constants
    <2>2. /\ sock \in [Sessions -> [Vias -> {"idle", "waiting", "broken"}]]
          /\ inbox \in [Sessions -> [Vias -> {"none", "ok", "error"}]]
      BY DEF Init
    <2>3. /\ life \in [Sessions -> Lives] /\ drv \in [Sessions -> {"idle", "polling"}]
          /\ outcome \in [Sessions -> {"none", "ok", "cancelled", "timeout", "error"}]
          /\ line \in [Sessions -> Seq(EventType)] /\ heard \in [Sessions -> Seq(EventType)]
      BY <2>1 DEF Init, Lives
    <2>4. /\ cancelled \in [Sessions -> BOOLEAN] /\ pending \in [Sessions -> BOOLEAN]
          /\ acked \in [Sessions -> BOOLEAN] /\ ended \in [Sessions -> BOOLEAN]
          /\ seq \in [Sessions -> 0..MaxOps] /\ spread \in [Sessions -> 0..MaxOps]
          /\ ops \in 0..MaxOps /\ made \in 0..Events
      BY <2>1 DEF Init
    <2>5. /\ restarted \in BOOLEAN /\ refused \in BOOLEAN
          /\ requests = {} /\ serving = NoRequest /\ task = Nobody
          /\ abandoned = {} /\ asked = {} /\ admitted = {} /\ missed = {}
          /\ interrupted = {} /\ unsent = {} /\ dropped = {}
      BY DEF Init
    <2> QED BY <2>2, <2>3, <2>4, <2>5 DEF TypeOK
  <1>2. SeqInv /\ ServingInv /\ SockInv /\ UnsentInv
    BY DEF Init, SeqInv, ServingInv, SockInv, UnsentInv, Vias, Used
  <1>3. KindInv /\ TaskInv BY DEF Init, KindInv, TaskInv, UnderWay, Used
  <1> QED BY <1>1, <1>2, <1>3 DEF Inv

-----------------------------------------------------------------------------
(* The sockets *)

SockType == [Sessions -> [Vias -> {"idle", "waiting", "broken"}]]
InboxType == [Sessions -> [Vias -> {"none", "ok", "error"}]]

LEMMA Sends ==
  ASSUME TypeOK, NEW s \in Sessions, NEW via \in Vias, NEW rid \in 0..MaxOps,
         NEW kind \in {"setup", "inference", "exit"},
         Send(s, via, kind, rid), sock[s][via] = "idle"
  PROVE  /\ requests' = requests \cup {Request(s, via, kind, rid)}
         /\ requests' \subseteq RequestType /\ inbox' = inbox
         /\ sock' \in SockType /\ sock'[s][via] = "waiting"
         /\ \A t \in Sessions, v \in Vias : t # s \/ v # via => sock'[t][v] = sock[t][v]
  <1>1. sock \in SockType /\ requests \subseteq RequestType BY DEF TypeOK, SockType
  <1>2. sock' = [sock EXCEPT ![s][via] = "waiting"] BY <1>1 DEF Send, SockType
  <1>3. requests' = requests \cup {Request(s, via, kind, rid)} /\ inbox' = inbox BY DEF Send
  <1>4. /\ sock'[s] = [sock[s] EXCEPT ![via] = "waiting"]
        /\ \A t \in Sessions : t # s => sock'[t] = sock[t]
        /\ sock[s] \in [Vias -> {"idle", "waiting", "broken"}]
    BY <1>1, <1>2 DEF SockType
  <1>5. /\ sock'[s] \in [Vias -> {"idle", "waiting", "broken"}]
        /\ sock'[s][via] = "waiting" /\ \A v \in Vias : v # via => sock'[s][v] = sock[s][v]
    BY <1>4
  <1>6. sock' \in SockType BY <1>1, <1>2, <1>4, <1>5 DEF SockType
  <1> QED BY <1>1, <1>3, <1>4, <1>5, <1>6, RequestMade

\* A socket freed of its request: its reply received, or made anew.
LEMMA Frees ==
  ASSUME TypeOK, NEW s \in Sessions, NEW via \in Vias,
         sock' = [sock EXCEPT ![s][via] = "idle"], inbox' = [inbox EXCEPT ![s][via] = "none"]
  PROVE  /\ sock' \in SockType /\ inbox' \in InboxType
         /\ sock'[s][via] = "idle" /\ inbox'[s][via] = "none"
         /\ \A t \in Sessions, v \in Vias : t # s \/ v # via =>
              sock'[t][v] = sock[t][v] /\ inbox'[t][v] = inbox[t][v]
  <1>1. sock \in SockType /\ inbox \in InboxType BY DEF TypeOK, SockType, InboxType
  <1>2. /\ sock'[s] = [sock[s] EXCEPT ![via] = "idle"]
        /\ inbox'[s] = [inbox[s] EXCEPT ![via] = "none"]
        /\ \A t \in Sessions : t # s => sock'[t] = sock[t] /\ inbox'[t] = inbox[t]
        /\ sock[s] \in [Vias -> {"idle", "waiting", "broken"}]
        /\ inbox[s] \in [Vias -> {"none", "ok", "error"}]
    BY <1>1 DEF SockType, InboxType
  <1>3. /\ sock'[s] \in [Vias -> {"idle", "waiting", "broken"}]
        /\ inbox'[s] \in [Vias -> {"none", "ok", "error"}]
        /\ sock'[s][via] = "idle" /\ inbox'[s][via] = "none"
        /\ \A v \in Vias : v # via => sock'[s][v] = sock[s][v] /\ inbox'[s][v] = inbox[s][v]
    BY <1>2
  <1>4. sock' \in SockType BY <1>1, <1>2, <1>3 DEF SockType
  <1>5. inbox' \in InboxType BY <1>1, <1>2, <1>3 DEF InboxType
  <1> QED BY <1>2, <1>3, <1>4, <1>5

LEMMA Answers ==
  ASSUME TypeOK, NEW r \in RequestType, NEW reply \in {"ok", "error"}, Answer(r, reply)
  PROVE  /\ inbox' \in InboxType
         /\ r.live => inbox'[r.sess][r.via] = reply
         /\ \A t \in Sessions, v \in Vias : t # r.sess \/ v # r.via \/ ~r.live =>
              inbox'[t][v] = inbox[t][v]
  <1>1. inbox \in InboxType BY DEF TypeOK, InboxType
  <1>2. r.sess \in Sessions /\ r.via \in Vias /\ r.live \in BOOLEAN BY DEF RequestType
  <1>3. CASE ~r.live BY <1>1, <1>3 DEF Answer
  <1>4. CASE r.live
    <2> DEFINE s == r.sess
               via == r.via
    <2>1. inbox' = [inbox EXCEPT ![s][via] = reply] BY <1>4 DEF Answer
    <2> HIDE DEF s, via
    <2>2. s \in Sessions /\ via \in Vias BY <1>2 DEF s, via
    <2>3. /\ inbox'[s] = [inbox[s] EXCEPT ![via] = reply]
          /\ \A t \in Sessions : t # s => inbox'[t] = inbox[t]
          /\ inbox[s] \in [Vias -> {"none", "ok", "error"}]
      BY <1>1, <2>1, <2>2 DEF InboxType
    <2>4. /\ inbox'[s] \in [Vias -> {"none", "ok", "error"}] /\ inbox'[s][via] = reply
          /\ \A v \in Vias : v # via => inbox'[s][v] = inbox[s][v]
      BY <2>2, <2>3
    <2>5. inbox' \in InboxType BY <1>1, <2>1, <2>3, <2>4 DEF InboxType
    <2> QED BY <1>4, <2>3, <2>4, <2>5 DEF s, via
  <1> QED BY <1>2, <1>3, <1>4

-----------------------------------------------------------------------------
(* The life of a session *)

LEMMA ConnectKeeps ==
  ASSUME Inv, NEW s \in Sessions, Connect(s)
  PROVE  Inv'
  <1> USE Constants
  <1>0. TypeOK /\ 0 \in 0..MaxOps BY DEF Inv
  <1>1. /\ life[s] = "unborn" /\ life' = [life EXCEPT ![s] = "setup"]
        /\ Send(s, "rpc", "setup", 0)
        /\ UNCHANGED <<drv, cancelled, seq, pending, heard, acked, ended, outcome,
                       serving, made, task, restarted, line, spread, ops,
                       refused, abandoned, asked,
                       admitted, missed, interrupted, unsent, dropped>>
    BY DEF Connect, node, history, exits
  <1>2. sock[s]["rpc"] = "idle" /\ inbox[s]["rpc"] = "none" BY <1>1 DEF Inv, SockInv
  <1> DEFINE q == Request(s, "rpc", "setup", 0)
  <1>3. /\ requests' = requests \cup {q} /\ requests' \subseteq RequestType /\ inbox' = inbox
        /\ sock' \in SockType /\ sock'[s]["rpc"] = "waiting"
        /\ \A t \in Sessions, v \in Vias : t # s \/ v # "rpc" => sock'[t][v] = sock[t][v]
        /\ q \in RequestType /\ q.sess = s /\ q.via = "rpc" /\ q.kind = "setup" /\ q.live
    BY <1>0, <1>1, <1>2, Sends, RequestMade
  <1> HIDE DEF q
  <1>4. /\ life' \in [Sessions -> Lives] /\ life'[s] = "setup"
        /\ \A t \in Sessions : t # s => life'[t] = life[t]
    BY <1>0, <1>1 DEF TypeOK, Lives
  <1>5. TypeOK' BY <1>0, <1>1, <1>3, <1>4 DEF TypeOK, SockType
  <1>6. SeqInv' BY <1>1 DEF Inv, SeqInv
  <1>7. SockInv' BY <1>1, <1>2, <1>3, <1>4 DEF Inv, SockInv, Used
  <1>8. KindInv'
    <2> SUFFICES ASSUME NEW r \in UnderWay'
                 PROVE  /\ life'[r.sess] # "unborn"
                        /\ r.kind = "inference" => life'[r.sess] # "setup"
                        /\ r.kind = "exit" => life'[r.sess] \in {"quitting", "gone"}
                        /\ r.via = "ctl" <=> r.kind = "exit"
      BY DEF KindInv
    <2>1. CASE r = q BY <2>1, <1>3, <1>4
    <2>2. CASE r # q
      <3>1. r \in UnderWay BY <2>2, <1>1, <1>3 DEF UnderWay
      <3>2. r \in RequestType BY <3>1, <1>0 DEF TypeOK, UnderWay
      <3>3. r.sess \in Sessions /\ r.sess # s
        BY <3>1, <3>2, <1>1 DEF Inv, KindInv, RequestType
      <3> QED BY <3>1, <3>3, <1>4 DEF Inv, KindInv
    <2> QED BY <2>1, <2>2
  <1>9. TaskInv'
    <2> SUFFICES ASSUME ~restarted, ~refused
                 PROVE  TaskInv'
      BY <1>1 DEF TaskInv
    <2>1. \A r \in requests : r.sess \in Sessions /\ r.sess # s
      BY <1>0, <1>1 DEF Inv, TypeOK, KindInv, UnderWay, RequestType
    <2> QED BY <2>1, <1>1, <1>2, <1>3, <1>4 DEF Inv, TaskInv, Used
  <1>10. ServingInv' /\ UnsentInv' BY <1>1 DEF Inv, ServingInv, UnsentInv
  <1> QED BY <1>5, <1>6, <1>7, <1>8, <1>9, <1>10 DEF Inv

LEMMA SetupEndsKeeps ==
  ASSUME Inv, NEW s \in Sessions, SetupEnds(s)
  PROVE  Inv'
  <1> USE Constants
  <1> DEFINE ok == inbox[s]["rpc"] = "ok"
  <1>0. TypeOK BY DEF Inv
  <1>1. /\ life[s] = "setup"
        /\ life' = [life EXCEPT ![s] = IF ok THEN "ready" ELSE "failed"]
        /\ refused' = (refused \/ ~ok)
        /\ admitted' = IF ok THEN admitted \cup {s} ELSE admitted
        /\ UNCHANGED <<drv, cancelled, seq, pending, heard, acked, ended, outcome,
                       made, task, restarted, line, spread, ops, abandoned, asked,
                       missed, interrupted, unsent, dropped>>
    BY DEF SetupEnds, exits
  <1>2. /\ sock' = [sock EXCEPT ![s]["rpc"] = "idle"]
        /\ inbox' = [inbox EXCEPT ![s]["rpc"] = "none"]
        /\ \/ UNCHANGED <<requests, serving>>
           \/ /\ ~ok /\ requests' \in Orphans(s, {"rpc"})
              /\ serving' = LeftBehind(serving, s, "rpc")
    BY DEF SetupEnds, Receive, Reconnect
  <1>3. /\ sock' \in SockType /\ inbox' \in InboxType
        /\ sock'[s]["rpc"] = "idle" /\ inbox'[s]["rpc"] = "none"
        /\ \A t \in Sessions, v \in Vias : t # s \/ v # "rpc" =>
             sock'[t][v] = sock[t][v] /\ inbox'[t][v] = inbox[t][v]
    BY <1>0, <1>2, Frees
  <1>4. /\ life' \in [Sessions -> Lives] /\ life'[s] = IF ok THEN "ready" ELSE "failed"
        /\ \A t \in Sessions : t # s => life'[t] = life[t]
    BY <1>0, <1>1 DEF TypeOK, Lives
  <1>5. /\ requests' \subseteq RequestType /\ serving' \in RequestType \cup {NoRequest}
        /\ \A q \in UnderWay' : \E r \in UnderWay :
             q.sess = r.sess /\ q.kind = r.kind /\ q.via = r.via
        /\ ServingInv'
    <2>0. ServingInv BY DEF Inv
    <2>1. CASE UNCHANGED <<requests, serving>>
      BY <1>0, <2>0, <2>1 DEF TypeOK, UnderWay, ServingInv
    <2>2. CASE /\ requests' \in Orphans(s, {"rpc"})
               /\ serving' = LeftBehind(serving, s, "rpc")
      <3>1. {"rpc"} \in SUBSET Vias BY DEF Vias
      <3> QED BY <1>0, <2>0, <2>2, <3>1, Leaves DEF UnderWay
    <2> QED BY <1>2, <2>1, <2>2
  <1>6. TypeOK'
    <2>1. refused' \in BOOLEAN /\ admitted' \subseteq Sessions BY <1>0, <1>1 DEF TypeOK
    <2> QED BY <1>0, <1>1, <1>3, <1>4, <1>5, <2>1 DEF TypeOK, SockType, InboxType
  <1>7. SeqInv' BY <1>1 DEF Inv, SeqInv
  <1>8. SockInv' BY <1>1, <1>3, <1>4 DEF Inv, SockInv, Used
  <1>9. KindInv' BY <1>1, <1>4, <1>5, KindsKept
  <1>10. TaskInv'
    <2> SUFFICES ASSUME ~restarted, ~refused, ok
                 PROVE  TaskInv'
      BY <1>1 DEF TaskInv
    <2>1. UNCHANGED requests BY <1>2
    <2>2. \A r \in requests : r.sess \in Sessions /\ (r.kind = "setup" => r.sess # s)
      BY <1>0, <1>1 DEF Inv, TypeOK, TaskInv, RequestType
    <2> QED BY <2>1, <2>2, <1>1, <1>3, <1>4 DEF Inv, TaskInv, Used
  <1>11. ServingInv' /\ UnsentInv' BY <1>1, <1>5 DEF Inv, UnsentInv
  <1> QED BY <1>6, <1>7, <1>8, <1>9, <1>10, <1>11 DEF Inv

LEMMA FlagRaised ==
  ASSUME TypeOK, NEW s \in Sessions, RaiseFlag(s)
  PROVE  /\ cancelled' \in [Sessions -> BOOLEAN] /\ asked' \subseteq Sessions
         /\ sock' \in SockType
         /\ sock'[s]["ctl"] # "idle"
         /\ sock'[s]["ctl"] = "broken" <=> sock[s]["ctl"] = "broken"
         /\ \A t \in Sessions, v \in Vias : t # s \/ v # "ctl" => sock'[t][v] = sock[t][v]
         /\ UNCHANGED <<drv, seq, pending, heard, acked, ended, outcome, inbox, requests,
                        serving, made, task, restarted, line, spread, refused, abandoned,
                        admitted, missed, interrupted, unsent, dropped>>
  <1>1. /\ cancelled' \in [Sessions -> BOOLEAN] /\ asked' \subseteq Sessions
        /\ UNCHANGED <<drv, seq, pending, heard, acked, ended, outcome, inbox, requests,
                       serving, made, task, restarted, line, spread, refused, abandoned,
                       admitted, missed, interrupted, unsent, dropped>>
    BY DEF RaiseFlag, TypeOK, node, exits
  <1> DEFINE c == IF sock[s]["ctl"] = "idle" THEN "waiting" ELSE sock[s]["ctl"]
  <1>2. sock \in SockType BY DEF TypeOK, SockType
  <1>3. /\ "ctl" \in Vias /\ sock' = [sock EXCEPT ![s]["ctl"] = c]
        /\ sock[s] \in [Vias -> {"idle", "waiting", "broken"}]
    BY <1>2, Constants DEF RaiseFlag, SockType
  <1>4. /\ c \in {"idle", "waiting", "broken"} /\ c # "idle"
        /\ c = "broken" <=> sock[s]["ctl"] = "broken"
    BY <1>3
  <1> HIDE DEF c
  <1>5. /\ sock'[s] = [sock[s] EXCEPT !["ctl"] = c]
        /\ \A t \in Sessions : t # s => sock'[t] = sock[t]
    BY <1>2, <1>3 DEF SockType
  <1>6. /\ sock'[s]["ctl"] = c /\ \A v \in Vias : v # "ctl" => sock'[s][v] = sock[s][v]
        /\ sock'[s] \in [Vias -> {"idle", "waiting", "broken"}]
    BY <1>3, <1>4, <1>5
  <1>7. sock' \in SockType BY <1>2, <1>3, <1>6 DEF SockType
  <1> QED BY <1>1, <1>4, <1>5, <1>6, <1>7

\* A step that calls cancel(): the session goes on as it is, or is given up.
LEMMA FlagKeeps ==
  ASSUME Inv, NEW s \in Sessions, RaiseFlag(s), life[s] \in {"ready", "released", "failed"},
         NEW x \in {"ready", "released", "leaving"}, life' = [life EXCEPT ![s] = x],
         x \in Used => life[s] \in Used, x = "leaving" => drv[s] = "idle",
         ops' \in 0..MaxOps, ops <= ops'
  PROVE  Inv'
  <1> USE Constants
  <1>0. TypeOK BY DEF Inv
  <1>1. /\ cancelled' \in [Sessions -> BOOLEAN] /\ asked' \subseteq Sessions
        /\ UNCHANGED <<drv, seq, pending, heard, acked, ended, outcome, inbox, requests,
                       serving, made, task, restarted, line, spread, refused, abandoned,
                       admitted, missed, interrupted, unsent, dropped>>
    BY <1>0, FlagRaised
  <1>2. /\ sock' \in SockType
        /\ sock'[s]["ctl"] # "idle"
        /\ sock'[s]["ctl"] = "broken" <=> sock[s]["ctl"] = "broken"
        /\ \A t \in Sessions, v \in Vias : t # s \/ v # "ctl" => sock'[t][v] = sock[t][v]
    BY <1>0, FlagRaised
  <1>3. /\ life' \in [Sessions -> Lives] /\ life'[s] = x
        /\ \A t \in Sessions : t # s => life'[t] = life[t]
    BY <1>0 DEF TypeOK, Lives
  <1>4. TypeOK' BY <1>0, <1>1, <1>2, <1>3 DEF TypeOK, SockType
  <1>5. SeqInv'
    <2>1. \A t \in Sessions : seq[t] \in Nat BY <1>0 DEF TypeOK
    <2>2. ops \in Nat /\ ops' \in Nat BY <1>0 DEF TypeOK
    <2> QED BY <1>1, <2>1, <2>2 DEF Inv, SeqInv
  <1>6. SockInv'
    <2> SUFFICES ASSUME NEW t \in Sessions
                 PROVE  /\ sock'[t]["rpc"] # "broken"
                        /\ sock'[t]["ctl"] = "broken" => t \in interrupted
                        /\ life'[t] \in {"unborn", "setup", "failed", "gone"} =>
                             sock'[t]["ctl"] = "idle"
                        /\ life'[t] = "unborn" => sock'[t]["rpc"] = "idle" /\ inbox[t]["rpc"] = "none"
                        /\ life'[t] \in Used /\ ~pending[t] => sock'[t]["rpc"] = "idle"
                        /\ drv[t] = "polling" => life'[t] \in Used
      BY <1>1 DEF SockInv
    <2>1. CASE t = s
      <3>1. drv[s] = "polling" => x # "leaving" OBVIOUS
      <3> QED BY <1>2, <1>3, <2>1, <3>1 DEF Inv, SockInv, Used
    <2>2. CASE t # s BY <1>2, <1>3, <2>2 DEF Inv, SockInv
    <2> QED BY <2>1, <2>2
  <1>7. KindInv'
    <2>1. UnderWay' = UnderWay BY <1>1 DEF UnderWay
    <2> QED BY <1>3, <2>1, KindsKept
  <1>8. TaskInv'
    <2>1. \A r \in requests : r.sess \in Sessions BY <1>0 DEF TypeOK, RequestType
    <2> QED BY <1>1, <1>3, <2>1 DEF Inv, TaskInv, Used
  <1>9. ServingInv' /\ UnsentInv' BY <1>1 DEF Inv, ServingInv, UnsentInv
  <1> QED BY <1>4, <1>5, <1>6, <1>7, <1>8, <1>9 DEF Inv

LEMMA CancelKeeps ==
  ASSUME Inv, NEW s \in Sessions, Cancel(s) \/ Release(s) \/ Destroy(s)
  PROVE  Inv'
  <1>0. /\ ops \in 0..MaxOps /\ life \in [Sessions -> Lives] /\ MaxOps \in Nat
        /\ drv \in [Sessions -> {"idle", "polling"}]
    BY Constants DEF Inv, TypeOK
  <1>1. CASE Cancel(s)
    <2>1. /\ life[s] = "ready" /\ RaiseFlag(s) /\ UNCHANGED life
          /\ ops < MaxOps /\ ops' = ops + 1
      BY <1>1 DEF Cancel
    <2>2. ops' \in 0..MaxOps /\ ops <= ops' BY <1>0, <2>1
    <2>3. life' = [life EXCEPT ![s] = "ready"] BY <1>0, <2>1
    <2> QED BY <2>1, <2>2, <2>3, FlagKeeps DEF Used
  <1>2. CASE Release(s)
    <2>1. ops' \in 0..MaxOps /\ ops <= ops' BY <1>0, <1>2 DEF Release
    <2> QED BY <1>2, <2>1, FlagKeeps DEF Release, Used
  <1>3. CASE Destroy(s)
    <2>1. ops' \in 0..MaxOps /\ ops <= ops' BY <1>0, <1>3 DEF Destroy
    <2> QED BY <1>3, <2>1, FlagKeeps DEF Destroy, Used
  <1> QED BY <1>1, <1>2, <1>3

LEMMA CallEndsKeeps ==
  ASSUME Inv, NEW s \in Sessions, CallEnds(s)
  PROVE  Inv'
  <1> USE Constants
  <1>0. TypeOK BY DEF Inv
  <1>1. /\ sock[s]["ctl"] = "waiting" /\ life[s] # "quitting"
        /\ UNCHANGED <<life, drv, cancelled, seq, pending, heard, acked, ended, outcome,
                       inbox, requests, serving, made, task, restarted, line, spread,
                       refused, abandoned, asked, admitted, missed, unsent, dropped>>
    BY DEF CallEnds, client, node
  <1>2. PICK c \in {"idle", "broken"} :
          /\ sock' = [sock EXCEPT ![s]["ctl"] = c]
          /\ interrupted \subseteq interrupted' /\ interrupted' \subseteq Sessions
          /\ c = "broken" => s \in interrupted'
          /\ ops' \in 0..MaxOps /\ ops <= ops'
    <2>1. ops \in 0..MaxOps /\ interrupted \subseteq Sessions BY <1>0 DEF TypeOK
    <2>2. CASE sock' = [sock EXCEPT ![s]["ctl"] = "idle"] /\ UNCHANGED <<ops, interrupted>>
      BY <2>1, <2>2
    <2>3. CASE /\ sock' = [sock EXCEPT ![s]["ctl"] = "broken"]
               /\ ops < MaxOps /\ ops' = ops + 1 /\ interrupted' = interrupted \cup {s}
      <3>1. ops' \in 0..MaxOps /\ ops <= ops' BY <2>1, <2>3
      <3> QED BY <2>1, <2>3, <3>1
    <2> QED BY <2>2, <2>3 DEF CallEnds
  <1>3. /\ sock' \in SockType /\ sock'[s]["ctl"] = c
        /\ \A t \in Sessions, v \in Vias : t # s \/ v # "ctl" => sock'[t][v] = sock[t][v]
    <2>1. sock \in SockType BY <1>0 DEF TypeOK, SockType
    <2>2. /\ sock'[s] = [sock[s] EXCEPT !["ctl"] = c]
          /\ \A t \in Sessions : t # s => sock'[t] = sock[t]
          /\ sock[s] \in [Vias -> {"idle", "waiting", "broken"}]
      BY <1>2, <2>1 DEF SockType
    <2>3. /\ sock'[s] \in [Vias -> {"idle", "waiting", "broken"}] /\ sock'[s]["ctl"] = c
          /\ \A v \in Vias : v # "ctl" => sock'[s][v] = sock[s][v]
      BY <2>2
    <2>4. sock' \in SockType BY <1>2, <2>1, <2>3 DEF SockType
    <2> QED BY <2>2, <2>3, <2>4
  <1>4. TypeOK' BY <1>0, <1>1, <1>2, <1>3 DEF TypeOK, SockType
  <1>5. SeqInv'
    <2>1. \A t \in Sessions : seq[t] \in Nat BY <1>0 DEF TypeOK
    <2>2. ops \in Nat /\ ops' \in Nat BY <1>0, <1>2 DEF TypeOK
    <2> QED BY <1>1, <1>2, <2>1, <2>2 DEF Inv, SeqInv
  <1>6. SockInv' /\ UnsentInv'
    <2>1. life[s] \notin {"unborn", "setup", "failed", "gone"} BY <1>1 DEF Inv, SockInv
    <2> QED BY <1>1, <1>2, <1>3, <2>1 DEF Inv, SockInv, UnsentInv
  <1>7. KindInv' /\ TaskInv' /\ ServingInv'
    BY <1>1 DEF Inv, KindInv, TaskInv, ServingInv, UnderWay
  <1> QED BY <1>4, <1>5, <1>6, <1>7 DEF Inv

LEMMA LeaveKeeps ==
  ASSUME Inv, NEW s \in Sessions, Leave(s)
  PROVE  Inv'
  <1> USE Constants
  <1>0. TypeOK /\ 0 \in 0..MaxOps BY DEF Inv
  <1>1. /\ life[s] = "leaving" /\ life' = [life EXCEPT ![s] = "quitting"]
        /\ sock[s]["ctl"] # "waiting"
        /\ UNCHANGED <<drv, cancelled, seq, pending, heard, acked, ended, outcome,
                       serving, made, task, restarted, line, spread, ops,
                       refused, abandoned, asked, admitted, missed, interrupted, dropped>>
    BY DEF Leave, node
  <1>2. /\ life' \in [Sessions -> Lives] /\ life'[s] = "quitting"
        /\ \A t \in Sessions : t # s => life'[t] = life[t]
    BY <1>0, <1>1 DEF TypeOK, Lives
  <1>3. SeqInv' /\ ServingInv' BY <1>1 DEF Inv, SeqInv, ServingInv
  <1> DEFINE q == Request(s, "ctl", "exit", 0)
  <1>4. CASE sock[s]["ctl"] = "idle"
    <2>1. /\ requests' = requests \cup {q} /\ requests' \subseteq RequestType /\ inbox' = inbox
          /\ sock' \in SockType /\ sock'[s]["ctl"] = "waiting"
          /\ \A t \in Sessions, v \in Vias : t # s \/ v # "ctl" => sock'[t][v] = sock[t][v]
          /\ q \in RequestType /\ q.sess = s /\ q.via = "ctl" /\ q.kind = "exit"
          /\ UNCHANGED unsent
      BY <1>0, <1>4, Sends, RequestMade DEF Leave
    <2> HIDE DEF q
    <2>2. TypeOK' BY <1>0, <1>1, <1>2, <2>1 DEF TypeOK, SockType
    <2>3. SockInv' BY <1>1, <1>2, <2>1 DEF Inv, SockInv, Used
    <2>4. KindInv'
      <3> SUFFICES ASSUME NEW r \in UnderWay'
                   PROVE  /\ life'[r.sess] # "unborn"
                          /\ r.kind = "inference" => life'[r.sess] # "setup"
                          /\ r.kind = "exit" => life'[r.sess] \in {"quitting", "gone"}
                          /\ r.via = "ctl" <=> r.kind = "exit"
        BY DEF KindInv
      <3>1. CASE r = q BY <3>1, <2>1, <1>2
      <3>2. CASE r # q
        <4>1. r \in UnderWay BY <3>2, <1>1, <2>1 DEF UnderWay
        <4>2. r.sess \in Sessions BY <4>1, <1>0 DEF TypeOK, UnderWay, RequestType
        <4> QED BY <4>1, <4>2, <1>1, <1>2 DEF Inv, KindInv
      <3> QED BY <3>1, <3>2
    <2>5. TaskInv'
      <3> SUFFICES ASSUME ~restarted, ~refused
                   PROVE  TaskInv'
        BY <1>1 DEF TaskInv
      <3>1. task = s BY <1>1 DEF Inv, TaskInv
      <3>2. \A r \in requests : r.sess \in Sessions /\ (r.kind # "inference" => r.sess # s)
        <4> SUFFICES ASSUME NEW r \in requests, r.kind # "inference"
                     PROVE  r.sess # s
          BY <1>0 DEF TypeOK, RequestType
        <4>1. r.kind \in {"setup", "exit"} BY <1>0 DEF TypeOK, RequestType
        <4> QED BY <1>1, <4>1 DEF Inv, KindInv, TaskInv, UnderWay
      <3> QED BY <3>1, <3>2, <1>1, <1>2, <2>1 DEF Inv, TaskInv, Used
    <2>6. UnsentInv' BY <1>1, <2>1 DEF Inv, UnsentInv
    <2> QED BY <1>3, <2>2, <2>3, <2>4, <2>5, <2>6 DEF Inv
  <1>5. CASE sock[s]["ctl"] # "idle"
    <2>1. UNCHANGED <<sock, inbox, requests>> /\ unsent' = unsent \cup {s}
      BY <1>5 DEF Leave, wires
    <2>2. TypeOK' BY <1>0, <1>1, <1>2, <2>1 DEF TypeOK
    <2>3. sock[s]["ctl"] = "broken" BY <1>0, <1>1, <1>5 DEF TypeOK
    <2>4. SockInv' /\ UnsentInv'
      BY <1>1, <1>2, <2>1, <2>3 DEF Inv, SockInv, UnsentInv, Used
    <2>5. KindInv'
      <3>1. UnderWay' = UnderWay BY <1>1, <2>1 DEF UnderWay
      <3> QED BY <1>1, <1>2, <3>1, KindsKept
    <2>6. TaskInv'
      <3>1. \A r \in requests : r.sess \in Sessions BY <1>0 DEF TypeOK, RequestType
      <3> QED BY <1>1, <1>2, <2>1, <3>1 DEF Inv, TaskInv, Used
    <2> QED BY <1>3, <2>2, <2>4, <2>5, <2>6 DEF Inv
  <1> QED BY <1>4, <1>5

LEMMA VanishKeeps ==
  ASSUME Inv, NEW s \in Sessions, Vanish(s)
  PROVE  Inv'
  <1> USE Constants
  <1>0. TypeOK /\ 0 \in 0..MaxOps /\ <<>> \in Seq(EventType) BY DEF Inv
  <1>1. /\ life[s] = "quitting" /\ life' = [life EXCEPT ![s] = "gone"]
        /\ requests' \in Orphans(s, Vias)
        /\ serving' = LeftBehind(serving, s, "rpc")
        /\ sock' = [sock EXCEPT ![s] = [v \in Vias |-> "idle"]]
        /\ inbox' = [inbox EXCEPT ![s] = [v \in Vias |-> "none"]]
        /\ UNCHANGED <<drv, cancelled, pending, made, task, restarted, ops,
                       refused, abandoned, asked, admitted, missed, interrupted, unsent>>
    BY DEF Vanish
  <1>2. /\ line' = [line EXCEPT ![s] = <<>>] /\ heard' = [heard EXCEPT ![s] = <<>>]
        /\ seq' = [seq EXCEPT ![s] = 0] /\ spread' = [spread EXCEPT ![s] = 0]
        /\ acked' = [acked EXCEPT ![s] = FALSE] /\ ended' = [ended EXCEPT ![s] = FALSE]
        /\ outcome' = [outcome EXCEPT ![s] = "none"]
        /\ dropped' \subseteq Sessions
    BY <1>0 DEF Vanish, TypeOK
  <1>3. /\ line' \in [Sessions -> Seq(EventType)] /\ heard' \in [Sessions -> Seq(EventType)]
        /\ seq' \in [Sessions -> 0..MaxOps] /\ spread' \in [Sessions -> 0..MaxOps]
        /\ acked' \in [Sessions -> BOOLEAN] /\ ended' \in [Sessions -> BOOLEAN]
        /\ outcome' \in [Sessions -> {"none", "ok", "cancelled", "timeout", "error"}]
    BY <1>0, <1>2 DEF TypeOK
  <1>4. /\ life' \in [Sessions -> Lives] /\ life'[s] = "gone"
        /\ \A t \in Sessions : t # s => life'[t] = life[t]
    BY <1>0, <1>1 DEF TypeOK, Lives
  <1>5. /\ sock' \in SockType /\ inbox' \in InboxType
        /\ sock'[s] = [v \in Vias |-> "idle"]
        /\ \A t \in Sessions : t # s => sock'[t] = sock[t] /\ inbox'[t] = inbox[t]
    BY <1>0, <1>1 DEF TypeOK, SockType, InboxType
  <1>6. /\ requests' \subseteq RequestType
        /\ \A q \in requests' : \E r \in requests :
              /\ q.sess = r.sess /\ q.kind = r.kind /\ q.via = r.via
              /\ q = IF r.sess = s /\ r.via \in Vias THEN [r EXCEPT !.live = FALSE] ELSE r
        /\ serving' \in RequestType \cup {NoRequest}
        /\ \A q \in UnderWay' : \E r \in UnderWay :
             q.sess = r.sess /\ q.kind = r.kind /\ q.via = r.via
        /\ ServingInv'
    <2>1. Vias \in SUBSET Vias /\ ServingInv BY DEF Inv
    <2> QED BY <1>0, <1>1, <2>1, Leaves DEF UnderWay
  <1>7. TypeOK' BY <1>0, <1>1, <1>2, <1>3, <1>4, <1>5, <1>6 DEF TypeOK, SockType, InboxType
  <1>8. SeqInv'
    <2> SUFFICES ASSUME NEW t \in Sessions PROVE seq'[t] <= ops BY <1>1 DEF SeqInv
    <2>1. CASE t = s BY <2>1, <1>0, <1>2 DEF TypeOK
    <2>2. CASE t # s BY <2>2, <1>0, <1>2 DEF TypeOK, Inv, SeqInv
    <2> QED BY <2>1, <2>2
  <1>9. SockInv'
    <2>1. drv[s] # "polling" BY <1>1 DEF Inv, SockInv, Used
    <2> QED BY <2>1, <1>1, <1>4, <1>5 DEF Inv, SockInv, Used
  <1>10. KindInv' BY <1>1, <1>4, <1>6, KindsKept
  <1>11. TaskInv'
    <2> SUFFICES ASSUME ~restarted, ~refused
                 PROVE  TaskInv'
      BY <1>1 DEF TaskInv
    <2>1. \A r \in requests : r.sess \in Sessions /\ (r.kind = "setup" => r.sess # s)
      BY <1>0, <1>1 DEF Inv, TypeOK, TaskInv, RequestType
    <2>2. \A q \in requests' : q.kind = "exit" => task = q.sess
      BY <1>6 DEF Inv, TaskInv
    <2>3. \A r, q \in requests' :
            r.kind = q.kind /\ r.sess = q.sess => r.kind = "inference" \/ r = q
      <3> SUFFICES ASSUME NEW a \in requests', NEW b \in requests',
                          a.kind = b.kind, a.sess = b.sess, a.kind # "inference"
                   PROVE  a = b
        OBVIOUS
      <3>1. PICK r \in requests :
              /\ a.sess = r.sess /\ a.kind = r.kind
              /\ a = IF r.sess = s /\ r.via \in Vias THEN [r EXCEPT !.live = FALSE] ELSE r
        BY <1>6
      <3>2. PICK q \in requests :
              /\ b.sess = q.sess /\ b.kind = q.kind
              /\ b = IF q.sess = s /\ q.via \in Vias THEN [q EXCEPT !.live = FALSE] ELSE q
        BY <1>6
      <3>3. r = q BY SMTT(20), ZenonT(30), <3>1, <3>2 DEF Inv, TaskInv
      <3> QED BY <3>1, <3>2, <3>3
    <2>4. \A q \in requests' : q.kind = "setup" =>
            q.live /\ life'[q.sess] = "setup" /\ inbox'[q.sess]["rpc"] = "none"
      <3> SUFFICES ASSUME NEW q \in requests', q.kind = "setup"
                   PROVE  q.live /\ life'[q.sess] = "setup" /\ inbox'[q.sess]["rpc"] = "none"
        OBVIOUS
      <3>1. PICK r \in requests :
              /\ q.sess = r.sess /\ q.kind = r.kind
              /\ q = IF r.sess = s /\ r.via \in Vias THEN [r EXCEPT !.live = FALSE] ELSE r
        BY <1>6
      <3>2. r.sess # s /\ r.sess \in Sessions /\ q = r BY <2>1, <3>1
      <3> QED BY <3>2, <1>4, <1>5 DEF Inv, TaskInv
    <2> QED BY <2>2, <2>3, <2>4, <1>1, <1>4, <1>5 DEF Inv, TaskInv, Used
  <1>12. ServingInv' /\ UnsentInv' BY <1>1, <1>6 DEF Inv, UnsentInv
  <1> QED BY <1>7, <1>8, <1>9, <1>10, <1>11, <1>12 DEF Inv

-----------------------------------------------------------------------------
(* drive_inference *)

\* Steps that touch no socket, no request and no task.
LEMMA Aside ==
  ASSUME Inv, TypeOK',
         UNCHANGED <<life, pending, seq, sock, inbox, requests, serving, task,
                     restarted, refused, interrupted, unsent>>,
         ops <= ops',
         \A s \in Sessions : drv'[s] = "polling" => drv[s] = "polling"
  PROVE  Inv'
  <1>0. /\ \A t \in Sessions : seq[t] \in Nat
        /\ ops \in Nat /\ ops' \in Nat
    BY Constants DEF Inv, TypeOK
  <1>1. SeqInv' /\ ServingInv' BY <1>0 DEF Inv, SeqInv, ServingInv
  <1>2. SockInv' /\ UnsentInv' BY DEF Inv, SockInv, UnsentInv
  <1>3. KindInv' BY DEF Inv, KindInv, UnderWay
  <1>4. TaskInv' BY DEF Inv, TaskInv
  <1> QED BY <1>1, <1>2, <1>3, <1>4 DEF Inv

LEMMA HearKeeps ==
  ASSUME Inv, NEW s \in Sessions, Hear(s)
  PROVE  Inv'
  <1>0. TypeOK BY DEF Inv
  <1> DEFINE e == Head(line[s])
             mine == e.rid = seq[s] - 1
  <1>1. /\ line[s] # <<>>
        /\ heard' = IF mine THEN [heard EXCEPT ![s] = Append(@, e)] ELSE heard
        /\ ended' = [ended EXCEPT ![s] = @ \/ (mine /\ e.n = Events)]
        /\ line' = [line EXCEPT ![s] = Tail(@)]
        /\ UNCHANGED <<life, drv, cancelled, seq, pending, acked, outcome, sock, inbox,
                       requests, serving, made, task, restarted, spread, ops,
                       refused, abandoned, asked,
                       admitted, missed, interrupted, unsent, dropped>>
    BY DEF Hear, wires, node, history, exits
  <1>2. line[s] \in Seq(EventType) /\ heard[s] \in Seq(EventType) BY <1>0 DEF TypeOK
  <1>3. e \in EventType /\ Tail(line[s]) \in Seq(EventType) BY <1>1, <1>2
  <1>4. Append(heard[s], e) \in Seq(EventType) BY <1>2, <1>3
  <1> HIDE DEF e
  <1>5. line' \in [Sessions -> Seq(EventType)] /\ heard' \in [Sessions -> Seq(EventType)]
    BY <1>0, <1>1, <1>3, <1>4 DEF TypeOK
  <1>6. ended' \in [Sessions -> BOOLEAN]
    <2> DEFINE b == ended[s] \/ (mine /\ e.n = Events)
    <2>1. ended' = [ended EXCEPT ![s] = b] /\ b \in BOOLEAN BY <1>0, <1>1 DEF TypeOK
    <2> HIDE DEF b
    <2> QED BY <1>0, <2>1 DEF TypeOK
  <1>7. TypeOK' BY <1>0, <1>1, <1>5, <1>6 DEF TypeOK
  <1>8. ops <= ops' BY <1>0, <1>1 DEF TypeOK
  <1> QED BY <1>1, <1>7, <1>8, Aside

LEMMA EndsKeep ==
  ASSUME Inv, NEW s \in Sessions, Complete(s) \/ GiveUp(s)
  PROVE  Inv'
  <1>0. TypeOK BY DEF Inv
  <1>1. PICK how \in {"ok", "cancelled", "timeout"} :
          /\ drv' = [drv EXCEPT ![s] = "idle"] /\ outcome' = [outcome EXCEPT ![s] = how]
    BY DEF Complete, GiveUp, Returns
  <1>2. UNCHANGED <<life, cancelled, seq, pending, heard, acked, ended, sock, inbox, requests,
                    serving, made, task, restarted, line, spread, ops, refused, asked,
                    admitted, missed, interrupted, unsent, dropped>>
    BY DEF Complete, GiveUp, wires, node, history, exits
  <1>3. abandoned' \subseteq Sessions
    BY <1>0 DEF Complete, GiveUp, history, exits, TypeOK
  <1>4. /\ drv' \in [Sessions -> {"idle", "polling"}]
        /\ outcome' \in [Sessions -> {"none", "ok", "cancelled", "timeout", "error"}]
        /\ \A t \in Sessions : drv'[t] = "polling" => drv[t] = "polling"
    BY <1>0, <1>1 DEF TypeOK
  <1>5. TypeOK' BY <1>0, <1>2, <1>3, <1>4 DEF TypeOK
  <1>6. ops <= ops' BY <1>0, <1>2, Constants DEF TypeOK
  <1> QED BY <1>2, <1>4, <1>5, <1>6, Aside

LEMMA TakeReplyKeeps ==
  ASSUME Inv, NEW s \in Sessions, TakeReply(s)
  PROVE  Inv'
  <1> USE Constants
  <1>0. TypeOK BY DEF Inv
  <1>1. /\ drv[s] = "polling" /\ Receive(s, "rpc")
        /\ pending' = [pending EXCEPT ![s] = FALSE]
        /\ UNCHANGED <<life, cancelled, seq, heard, ended, serving, made, task, restarted,
                       line, spread, ops, refused, abandoned, asked,
                       admitted, missed, interrupted, unsent, dropped>>
    BY DEF TakeReply, node, history, exits
  <1>2. /\ sock' = [sock EXCEPT ![s]["rpc"] = "idle"]
        /\ inbox' = [inbox EXCEPT ![s]["rpc"] = "none"] /\ UNCHANGED requests
    BY <1>1 DEF Receive
  <1>3. /\ sock' \in SockType /\ inbox' \in InboxType
        /\ sock'[s]["rpc"] = "idle" /\ inbox'[s]["rpc"] = "none"
        /\ \A t \in Sessions, v \in Vias : t # s \/ v # "rpc" =>
             sock'[t][v] = sock[t][v] /\ inbox'[t][v] = inbox[t][v]
    BY <1>0, <1>2, Frees
  <1>4. life[s] \in Used BY <1>1 DEF Inv, SockInv
  <1>5. /\ drv' \in [Sessions -> {"idle", "polling"}] /\ acked' \in [Sessions -> BOOLEAN]
        /\ outcome' \in [Sessions -> {"none", "ok", "cancelled", "timeout", "error"}]
        /\ \A t \in Sessions : drv'[t] = "polling" => drv[t] = "polling"
    <2>1. CASE acked' = [acked EXCEPT ![s] = TRUE] /\ UNCHANGED <<drv, outcome>>
      BY <1>0, <2>1 DEF TypeOK
    <2>2. CASE Returns(s, "error") /\ UNCHANGED acked BY <1>0, <2>2 DEF TypeOK, Returns
    <2> QED BY <2>1, <2>2 DEF TakeReply
  <1>6. TypeOK' BY <1>0, <1>1, <1>2, <1>3, <1>5 DEF TypeOK, SockType, InboxType
  <1>7. SeqInv' BY <1>1 DEF Inv, SeqInv
  <1>8. SockInv'
    <2>1. \A t \in Sessions : t # s => pending'[t] = pending[t] BY <1>0, <1>1 DEF TypeOK
    <2> QED BY <2>1, <1>1, <1>3, <1>4, <1>5 DEF Inv, SockInv, Used
  <1>9. KindInv' BY <1>1, <1>2 DEF Inv, KindInv, UnderWay
  <1>10. TaskInv'
    <2>1. \A r \in requests : r.sess \in Sessions BY <1>0 DEF TypeOK, RequestType
    <2> QED BY <2>1, <1>1, <1>2, <1>3, <1>4 DEF Inv, TaskInv, Used
  <1>11. ServingInv' /\ UnsentInv' BY <1>1 DEF Inv, ServingInv, UnsentInv
  <1> QED BY <1>6, <1>7, <1>8, <1>9, <1>10, <1>11 DEF Inv

LEMMA StartDriveKeeps ==
  ASSUME Inv, NEW s \in Sessions, StartDrive(s)
  PROVE  Inv'
  <1> USE Constants
  <1>0. TypeOK BY DEF Inv
  <1>1. /\ life[s] \in Used /\ ops < MaxOps /\ ops' = ops + 1
        /\ drv' = [drv EXCEPT ![s] = "polling"] /\ pending' = [pending EXCEPT ![s] = TRUE]
        /\ seq' = [seq EXCEPT ![s] = @ + 1]
        /\ heard' = [heard EXCEPT ![s] = <<>>] /\ outcome' = [outcome EXCEPT ![s] = "none"]
        /\ acked' = [acked EXCEPT ![s] = FALSE] /\ ended' = [ended EXCEPT ![s] = FALSE]
        /\ asked' = asked \ {s} /\ missed' = missed \ {s}
        /\ UNCHANGED <<life, cancelled, made, task, restarted, line, spread, refused, abandoned,
                       admitted, interrupted, unsent, dropped>>
    BY DEF StartDrive, Used, exits
  <1>2. /\ seq[s] \in 0..MaxOps /\ ops \in 0..MaxOps /\ seq[s] <= ops
        /\ \A t \in Sessions : seq[t] \in 0..MaxOps /\ seq[t] <= ops
    BY <1>0 DEF TypeOK, Inv, SeqInv
  <1>3. /\ seq' \in [Sessions -> 0..MaxOps] /\ SeqInv' /\ ops' \in 0..MaxOps
    <2>1. seq[s] + 1 \in 0..MaxOps /\ seq[s] + 1 <= ops + 1 /\ ops + 1 \in 0..MaxOps
      BY <1>1, <1>2
    <2>2. \A t \in Sessions : seq'[t] \in 0..MaxOps /\ seq'[t] <= ops + 1
      BY <1>0, <1>1, <1>2, <2>1 DEF TypeOK
    <2> QED BY <1>0, <1>1, <2>1, <2>2 DEF TypeOK, SeqInv
  <1> DEFINE q == Request(s, "rpc", "inference", seq[s])
  <1>4. /\ q \in RequestType /\ q.sess = s /\ q.via = "rpc" /\ q.kind = "inference"
    BY <1>2, RequestMade
  <1>5. /\ sock' \in SockType /\ sock'[s]["rpc"] = "waiting" /\ inbox' \in InboxType
        /\ \A t \in Sessions, v \in Vias : t # s \/ v # "rpc" =>
             sock'[t][v] = sock[t][v] /\ inbox'[t][v] = inbox[t][v]
        /\ requests' \subseteq RequestType
        /\ \A r \in requests' : r = q \/ \E p \in requests :
             /\ r.sess = p.sess /\ r.kind = p.kind /\ r.via = p.via
             /\ r = p \/ (p.sess = s /\ p.via = "rpc")
        /\ serving' \in RequestType \cup {NoRequest}
        /\ \A r \in UnderWay' : r = q \/ \E p \in UnderWay :
             r.sess = p.sess /\ r.kind = p.kind /\ r.via = p.via
        /\ ServingInv'
    <2>0. ServingInv BY DEF Inv
    <2>1. CASE ~pending[s]
      <3>1. sock[s]["rpc"] = "idle" BY <1>1, <2>1 DEF Inv, SockInv
      <3>2. Send(s, "rpc", "inference", seq[s]) /\ UNCHANGED serving
        BY <2>1 DEF StartDrive
      <3>3. /\ requests' = requests \cup {q} /\ requests' \subseteq RequestType
            /\ inbox' = inbox /\ sock' \in SockType /\ sock'[s]["rpc"] = "waiting"
            /\ \A t \in Sessions, v \in Vias : t # s \/ v # "rpc" => sock'[t][v] = sock[t][v]
        BY <1>0, <1>2, <3>1, <3>2, Sends
      <3> HIDE DEF q
      <3> QED BY <1>0, <2>0, <3>2, <3>3 DEF TypeOK, InboxType, UnderWay, ServingInv
    <2>2. CASE pending[s]
      <3>0. PICK R \in Orphans(s, {"rpc"}) : requests' = R \cup {q} BY <2>2 DEF StartDrive
      <3>1. /\ requests' = R \cup {q}
            /\ serving' = LeftBehind(serving, s, "rpc")
            /\ sock' = [sock EXCEPT ![s]["rpc"] = "waiting"]
            /\ inbox' = [inbox EXCEPT ![s]["rpc"] = "none"]
        BY <2>2, <3>0 DEF StartDrive
      <3>2. /\ sock' \in SockType /\ sock'[s]["rpc"] = "waiting" /\ inbox' \in InboxType
            /\ \A t \in Sessions, v \in Vias : t # s \/ v # "rpc" =>
                 sock'[t][v] = sock[t][v] /\ inbox'[t][v] = inbox[t][v]
        <4>1. sock \in SockType /\ inbox \in InboxType BY <1>0 DEF TypeOK, SockType, InboxType
        <4>2. /\ sock'[s] = [sock[s] EXCEPT !["rpc"] = "waiting"]
              /\ inbox'[s] = [inbox[s] EXCEPT !["rpc"] = "none"]
              /\ \A t \in Sessions : t # s => sock'[t] = sock[t] /\ inbox'[t] = inbox[t]
              /\ sock[s] \in [Vias -> {"idle", "waiting", "broken"}]
              /\ inbox[s] \in [Vias -> {"none", "ok", "error"}]
          BY <3>1, <4>1 DEF SockType, InboxType
        <4>3. /\ sock'[s] \in [Vias -> {"idle", "waiting", "broken"}]
              /\ inbox'[s] \in [Vias -> {"none", "ok", "error"}]
              /\ sock'[s]["rpc"] = "waiting"
              /\ \A v \in Vias : v # "rpc" =>
                   sock'[s][v] = sock[s][v] /\ inbox'[s][v] = inbox[s][v]
          BY <4>2
        <4>4. sock' \in SockType BY <3>1, <4>1, <4>2, <4>3 DEF SockType
        <4>5. inbox' \in InboxType BY <3>1, <4>1, <4>2, <4>3 DEF InboxType
        <4> QED BY <4>2, <4>3, <4>4, <4>5
      <3>3. {"rpc"} \in SUBSET Vias OBVIOUS
      <3>4. /\ R \subseteq RequestType
            /\ \A r \in R : \E p \in requests :
                 /\ r.sess = p.sess /\ r.kind = p.kind /\ r.via = p.via
                 /\ r = IF p.sess = s /\ p.via \in {"rpc"} THEN [p EXCEPT !.live = FALSE] ELSE p
            /\ serving' \in RequestType \cup {NoRequest}
            /\ \A r \in R \cup (IF serving' = NoRequest THEN {} ELSE {serving'}) :
                 \E p \in UnderWay : r.sess = p.sess /\ r.kind = p.kind /\ r.via = p.via
            /\ ServingInv'
        BY <1>0, <2>0, <3>1, <3>3, Leaves
      <3> HIDE DEF q
      <3>5. \A r \in requests' : r = q \/ \E p \in requests :
              /\ r.sess = p.sess /\ r.kind = p.kind /\ r.via = p.via
              /\ r = p \/ (p.sess = s /\ p.via = "rpc")
        BY <3>1, <3>4
      <3>6. \A r \in UnderWay' : r = q \/ \E p \in UnderWay :
              r.sess = p.sess /\ r.kind = p.kind /\ r.via = p.via
        BY <3>1, <3>4 DEF UnderWay
      <3> QED BY <1>4, <3>1, <3>2, <3>4, <3>5, <3>6
    <2> QED BY <2>1, <2>2
  <1> HIDE DEF q
  <1>6. TypeOK'
    <2>1. /\ drv' \in [Sessions -> {"idle", "polling"}] /\ pending' \in [Sessions -> BOOLEAN]
          /\ outcome' \in [Sessions -> {"none", "ok", "cancelled", "timeout", "error"}]
          /\ acked' \in [Sessions -> BOOLEAN] /\ ended' \in [Sessions -> BOOLEAN]
          /\ heard' \in [Sessions -> Seq(EventType)] /\ asked' \subseteq Sessions
          /\ missed' \subseteq Sessions
      BY <1>0, <1>1 DEF TypeOK
    <2> QED BY <1>0, <1>1, <1>3, <1>5, <2>1 DEF TypeOK, SockType, InboxType
  <1>7. SockInv'
    <2>1. \A t \in Sessions : t # s => pending'[t] = pending[t] /\ drv'[t] = drv[t]
      BY <1>0, <1>1 DEF TypeOK
    <2>2. pending'[s] BY <1>0, <1>1 DEF TypeOK
    <2> QED BY <2>1, <2>2, <1>1, <1>5 DEF Inv, SockInv, Used
  <1>8. KindInv'
    <2> SUFFICES ASSUME NEW r \in UnderWay'
                 PROVE  /\ life[r.sess] # "unborn"
                        /\ r.kind = "inference" => life[r.sess] # "setup"
                        /\ r.kind = "exit" => life[r.sess] \in {"quitting", "gone"}
                        /\ r.via = "ctl" <=> r.kind = "exit"
      BY <1>1 DEF KindInv
    <2>1. CASE r = q BY <2>1, <1>1, <1>4 DEF Used
    <2>2. CASE r # q BY <2>2, <1>5 DEF Inv, KindInv
    <2> QED BY <2>1, <2>2
  <1>9. TaskInv'
    <2> SUFFICES ASSUME ~restarted, ~refused
                 PROVE  TaskInv'
      BY <1>1 DEF TaskInv
    <2>1. \A r \in requests' : r.kind # "inference" => r \in requests /\ r.sess # s
      <3> SUFFICES ASSUME NEW r \in requests', r.kind # "inference"
                   PROVE  r \in requests /\ r.sess # s
        OBVIOUS
      <3>1. PICK p \in requests :
              /\ r.sess = p.sess /\ r.kind = p.kind /\ r.via = p.via
              /\ r = p \/ (p.sess = s /\ p.via = "rpc")
        BY <1>4, <1>5
      <3>2. p.kind \in {"setup", "exit"} BY <1>0, <3>1 DEF TypeOK, RequestType
      <3>3. p.sess # s
        BY <1>1, <3>2 DEF Inv, TaskInv, KindInv, UnderWay, Used
      <3> QED BY <3>1, <3>3
    <2>2. \A r \in requests : r.sess \in Sessions BY <1>0 DEF TypeOK, RequestType
    <2> QED BY <2>1, <2>2, <1>1, <1>5 DEF Inv, TaskInv, Used
  <1>10. ServingInv' /\ UnsentInv' BY <1>1, <1>5 DEF Inv, UnsentInv
  <1> QED BY <1>3, <1>6, <1>7, <1>8, <1>9, <1>10 DEF Inv

-----------------------------------------------------------------------------
(* The node *)

LEMMA TakeKeeps ==
  ASSUME Inv, NEW r \in requests, Take(r)
  PROVE  Inv'
  <1> USE Constants
  <1>0. TypeOK /\ r \in RequestType /\ r \in UnderWay BY DEF Inv, TypeOK, UnderWay
  <1>1. /\ serving = NoRequest /\ requests' = requests \ {r}
        /\ UNCHANGED <<life, drv, cancelled, seq, pending, heard, acked, ended, outcome,
                       sock, restarted, line, spread, ops, refused, abandoned, asked,
                       admitted, missed, interrupted, unsent, dropped>>
    BY DEF Take, client, history, exits
  <1>2. r.sess \in Sessions /\ r.via \in Vias /\ r.kind \in {"setup", "inference", "exit"}
    BY <1>0 DEF RequestType
  <1>3. requests' \subseteq RequestType /\ \A q \in requests' : q \in requests /\ q # r
    BY <1>0, <1>1 DEF TypeOK
  <1>4. CASE r.kind = "inference" /\ task # Nobody
    <2>1. serving' = r /\ made' = 0 /\ UNCHANGED <<task, inbox>> BY <1>4 DEF Take
    <2>2. TypeOK' BY <1>0, <1>1, <1>3, <2>1 DEF TypeOK
    <2>3. SeqInv' /\ ServingInv' /\ UnsentInv'
      BY <1>1, <1>4, <2>1 DEF Inv, SeqInv, ServingInv, UnsentInv
    <2>4. SockInv' BY <1>1, <2>1 DEF Inv, SockInv
    <2>5. \A q \in UnderWay' : q \in UnderWay BY <1>0, <1>1, <1>3, <2>1 DEF UnderWay
    <2>6. KindInv' BY <1>1, <2>5 DEF Inv, KindInv
    <2>7. TaskInv' BY <1>1, <1>3, <2>1 DEF Inv, TaskInv
    <2> QED BY <2>2, <2>3, <2>4, <2>6, <2>7 DEF Inv
  <1>5. CASE ~(r.kind = "inference" /\ task # Nobody)
    <2> DEFINE reply == IF (r.kind = "setup") = (task = Nobody) THEN "ok" ELSE "error"
    <2>1. /\ Answer(r, reply) /\ UNCHANGED <<serving, made>>
          /\ task' = CASE r.kind = "setup" /\ task = Nobody -> r.sess
                       [] r.kind = "exit"  -> Nobody
                       [] OTHER            -> task
      BY <1>5 DEF Take
    <2>2. reply \in {"ok", "error"} OBVIOUS
    <2>3. /\ r.kind = "setup" /\ task = Nobody => task' = r.sess
          /\ r.kind = "exit" => task' = Nobody
          /\ r.kind # "exit" /\ ~(r.kind = "setup" /\ task = Nobody) => task' = task
      <3>1. CASE r.kind = "setup" BY <2>1, <3>1
      <3>2. CASE r.kind = "exit" BY <2>1, <3>2
      <3>3. CASE r.kind = "inference" BY <2>1, <3>3
      <3> QED BY <1>2, <3>1, <3>2, <3>3
    <2>4. /\ inbox' \in InboxType
          /\ r.live => inbox'[r.sess][r.via] = reply
          /\ \A t \in Sessions, v \in Vias : t # r.sess \/ v # r.via \/ ~r.live =>
               inbox'[t][v] = inbox[t][v]
      BY <1>0, <2>1, <2>2, Answers
    <2>5. task' \in Sessions \cup {Nobody} BY <1>0, <1>2, <2>3 DEF TypeOK
    <2>6. TypeOK' BY <1>0, <1>1, <1>3, <2>1, <2>4, <2>5 DEF TypeOK, InboxType
    <2>7. SeqInv' /\ ServingInv' /\ UnsentInv'
      BY <1>1, <2>1 DEF Inv, SeqInv, ServingInv, UnsentInv
    <2>8. /\ life[r.sess] # "unborn"
          /\ r.kind = "inference" => life[r.sess] # "setup"
          /\ r.kind = "exit" => life[r.sess] \in {"quitting", "gone"}
          /\ r.via = "ctl" <=> r.kind = "exit"
      BY <1>0 DEF Inv, KindInv
    <2>9. SockInv' BY <1>1, <1>2, <2>4, <2>8 DEF Inv, SockInv
    <2>10. KindInv'
      <3>1. \A q \in UnderWay' : q \in UnderWay BY <1>1, <1>3, <2>1 DEF UnderWay
      <3> QED BY <1>1, <3>1 DEF Inv, KindInv
    <2>11. TaskInv'
      <3> SUFFICES ASSUME ~restarted, ~refused
                   PROVE  TaskInv'
        BY <1>1 DEF TaskInv
      <3> HIDE DEF reply
      <3>1. \A q \in requests' : q.kind = "exit" => task' = q.sess
        <4> SUFFICES ASSUME NEW q \in requests', q.kind = "exit" PROVE task' = q.sess
          OBVIOUS
        <4>1. task = q.sess /\ q.sess \in Sessions
          BY <1>0, <1>3 DEF Inv, TaskInv, TypeOK, RequestType
        <4>2. r.kind # "exit"
          <5> SUFFICES ASSUME r.kind = "exit" PROVE FALSE OBVIOUS
          <5>1. task = r.sess BY DEF Inv, TaskInv
          <5> QED BY <4>1, <5>1, <1>3 DEF Inv, TaskInv
        <4> QED BY <2>3, <4>1, <4>2
      <3>2. \A a, b \in requests' :
              a.kind = b.kind /\ a.sess = b.sess => a.kind = "inference" \/ a = b
        BY <1>3 DEF Inv, TaskInv
      <3>3. \A q \in requests' : q.kind = "setup" =>
              q.live /\ life'[q.sess] = "setup" /\ inbox'[q.sess]["rpc"] = "none"
        <4> SUFFICES ASSUME NEW q \in requests', q.kind = "setup"
                     PROVE  q.live /\ life'[q.sess] = "setup" /\ inbox'[q.sess]["rpc"] = "none"
          OBVIOUS
        <4>1. /\ q \in requests /\ q # r /\ q.live /\ life[q.sess] = "setup"
              /\ inbox[q.sess]["rpc"] = "none" /\ q.sess \in Sessions
          BY <1>0, <1>3 DEF Inv, TaskInv, TypeOK, RequestType
        <4>2. q.sess # r.sess \/ r.via = "ctl"
          <5>1. CASE r.kind = "setup" BY <4>1, <5>1 DEF Inv, TaskInv
          <5>2. CASE r.kind # "setup" BY <1>2, <2>8, <4>1, <5>2
          <5> QED BY <5>1, <5>2
        <4> QED BY <1>1, <2>4, <4>1, <4>2
      <3>4. \A s \in Sessions : life[s] \in Used \cup {"leaving"} => task' = s
        <4> SUFFICES ASSUME NEW s \in Sessions, life[s] \in Used \cup {"leaving"}
                     PROVE  task' = s
          OBVIOUS
        <4>1. task = s BY DEF Inv, TaskInv
        <4>2. r.kind # "exit"
          <5> SUFFICES ASSUME r.kind = "exit" PROVE FALSE OBVIOUS
          <5>1. r.sess = s BY <4>1 DEF Inv, TaskInv
          <5> QED BY <5>1, <2>8 DEF Used
        <4> QED BY <2>3, <4>1, <4>2
      <3>5. \A s \in Sessions : life[s] = "setup" /\ inbox'[s]["rpc"] = "ok" => task' = s
        <4> SUFFICES ASSUME NEW s \in Sessions, life[s] = "setup", inbox'[s]["rpc"] = "ok"
                     PROVE  task' = s
          OBVIOUS
        <4>1. CASE inbox[s]["rpc"] = "ok"
          <5>1. task = s BY <4>1 DEF Inv, TaskInv
          <5>2. r.kind # "exit"
            <6> SUFFICES ASSUME r.kind = "exit" PROVE FALSE OBVIOUS
            <6>1. r.sess = s BY <5>1 DEF Inv, TaskInv
            <6> QED BY <6>1, <2>8
          <5> QED BY <2>3, <5>1, <5>2
        <4>2. CASE inbox[s]["rpc"] # "ok"
          <5>1. r.sess = s /\ r.via = "rpc" /\ r.live BY <4>2, <2>4
          <5>2. r.kind = "setup" BY <5>1, <1>2, <2>8
          <5>3. reply = "ok" BY <5>1, <2>4
          <5>4. task = Nobody BY <5>2, <5>3 DEF reply
          <5> QED BY <5>1, <5>2, <5>4, <2>3
        <4> QED BY <4>1, <4>2
      <3>6. \A s \in Sessions : life[s] # "failed" BY DEF Inv, TaskInv
      <3> QED BY <1>1, <3>1, <3>2, <3>3, <3>4, <3>5, <3>6 DEF TaskInv
    <2> QED BY <2>6, <2>7, <2>9, <2>10, <2>11 DEF Inv
  <1> QED BY <1>4, <1>5

LEMMA PublishKeeps ==
  ASSUME Inv, Publish
  PROVE  Inv'
  <1> USE Constants
  <1>0. TypeOK BY DEF Inv
  <1> DEFINE e == [sess |-> serving.sess, rid |-> serving.rid, n |-> made']
  <1>1. /\ serving # NoRequest /\ made < Events /\ made' = made + 1
        /\ UNCHANGED <<life, drv, cancelled, seq, pending, heard, acked, ended, outcome,
                       sock, inbox, requests, serving, task, restarted, spread,
                       refused, abandoned, asked, admitted, interrupted, unsent, dropped>>
    BY DEF Publish, client, wires, exits
  <1>2. PICK full \in SUBSET Sessions :
          /\ line' = [s \in Sessions |->
               IF spread[s] > serving.rid /\ s \notin full THEN Append(line[s], e) ELSE line[s]]
          /\ missed' = missed \cup {s \in full : Current(s, serving)}
          /\ \/ full = {} /\ UNCHANGED ops
             \/ full # {} /\ ops < MaxOps /\ ops' = ops + 1
    BY DEF Publish
  <1>3. made' \in 0..Events /\ made' \in 1..Events BY <1>0, <1>1 DEF TypeOK
  <1>4. serving \in RequestType BY <1>0, <1>1 DEF TypeOK
  <1>5. e \in EventType BY <1>3, <1>4 DEF RequestType, EventType
  <1> HIDE DEF e
  <1>6. line' \in [Sessions -> Seq(EventType)]
    <2>1. \A s \in Sessions : line[s] \in Seq(EventType) /\ Append(line[s], e) \in Seq(EventType)
      BY <1>0, <1>5 DEF TypeOK
    <2> QED BY <1>2, <2>1
  <1>7. ops' \in 0..MaxOps /\ ops <= ops' BY <1>0, <1>2 DEF TypeOK
  <1>8. missed' \subseteq Sessions BY <1>0, <1>2 DEF TypeOK
  <1>9. TypeOK' BY <1>0, <1>1, <1>3, <1>6, <1>7, <1>8 DEF TypeOK
  <1> QED BY <1>1, <1>7, <1>9, Aside

LEMMA SubscriptionArrivesKeeps ==
  ASSUME Inv, NEW s \in Sessions, SubscriptionArrives(s)
  PROVE  Inv'
  <1> USE Constants
  <1>0. TypeOK BY DEF Inv
  <1>1. /\ spread[s] < seq[s] /\ spread' = [spread EXCEPT ![s] = @ + 1]
        /\ UNCHANGED <<life, drv, cancelled, seq, pending, heard, acked, ended, outcome,
                       sock, inbox, requests, serving, made, task, restarted, line, ops,
                       refused, abandoned, asked,
                       admitted, missed, interrupted, unsent, dropped>>
    BY DEF SubscriptionArrives, client, wires, node, history, exits
  <1>2. spread[s] \in 0..MaxOps /\ seq[s] \in 0..MaxOps BY <1>0 DEF TypeOK
  <1>3. spread[s] + 1 \in 0..MaxOps BY <1>1, <1>2
  <1>4. spread' \in [Sessions -> 0..MaxOps] BY <1>0, <1>1, <1>3 DEF TypeOK
  <1>5. TypeOK' BY <1>0, <1>1, <1>4 DEF TypeOK
  <1>6. ops <= ops' BY <1>0, <1>1 DEF TypeOK
  <1> QED BY <1>1, <1>5, <1>6, Aside

LEMMA FinishInferenceKeeps ==
  ASSUME Inv, FinishInference
  PROVE  Inv'
  <1> USE Constants
  <1>0. TypeOK BY DEF Inv
  <1>1. /\ serving # NoRequest /\ serving' = NoRequest /\ made' = 0
        /\ UNCHANGED <<life, drv, cancelled, seq, pending, heard, acked, ended, outcome,
                       sock, requests, task, restarted, line, spread, ops,
                       refused, abandoned, asked,
                       admitted, missed, interrupted, unsent, dropped>>
    BY DEF FinishInference, client, history, exits
  <1>2. PICK reply \in {"ok", "error"} : Answer(serving, reply) BY DEF FinishInference
  <1> DEFINE r == serving
  <1>3. r \in RequestType /\ r \in UnderWay BY <1>0, <1>1 DEF TypeOK, UnderWay
  <1>4. /\ inbox' \in InboxType
        /\ \A t \in Sessions, v \in Vias : t # r.sess \/ v # r.via \/ ~r.live =>
             inbox'[t][v] = inbox[t][v]
    BY <1>0, <1>2, <1>3, Answers
  <1>5. /\ life[r.sess] # "unborn" /\ r.sess \in Sessions
        /\ r.kind = "inference" => life[r.sess] # "setup"
        /\ r.kind = "exit" => life[r.sess] \in {"quitting", "gone"}
        /\ r.kind \in {"setup", "inference", "exit"}
    BY <1>3 DEF Inv, KindInv, RequestType
  <1>6. TypeOK' BY <1>0, <1>1, <1>4 DEF TypeOK, InboxType
  <1>7. SeqInv' BY <1>1 DEF Inv, SeqInv
  <1>8. SockInv' BY <1>1, <1>4, <1>5 DEF Inv, SockInv
  <1>9. KindInv'
    <2>1. \A q \in UnderWay' : q \in UnderWay BY <1>1 DEF UnderWay
    <2> QED BY <1>1, <2>1 DEF Inv, KindInv
  <1>10. TaskInv'
    <2>1. r.kind = "inference" BY <1>1 DEF Inv, ServingInv
    <2>2. \A t \in Sessions : life[t] = "setup" => inbox'[t]["rpc"] = inbox[t]["rpc"]
      BY <1>4, <1>5, <2>1
    <2>3. \A q \in requests : q.sess \in Sessions BY <1>0 DEF TypeOK, RequestType
    <2> QED BY <1>1, <2>2, <2>3 DEF Inv, TaskInv
  <1>11. ServingInv' /\ UnsentInv' BY <1>1 DEF Inv, ServingInv, UnsentInv
  <1> QED BY <1>6, <1>7, <1>8, <1>9, <1>10, <1>11 DEF Inv

LEMMA RestartKeeps ==
  ASSUME Inv, Restart
  PROVE  Inv'
  <1> USE Constants
  <1>0. TypeOK BY DEF Inv
  <1>1. /\ ops < MaxOps /\ ops' = ops + 1 /\ restarted' = TRUE
        /\ task' = Nobody /\ serving' = NoRequest /\ made' = 0
        /\ requests' \subseteq requests
        /\ spread' = [s \in Sessions |-> 0]
        /\ UNCHANGED <<life, drv, cancelled, seq, pending, heard, acked, ended, outcome,
                       sock, inbox, line, refused, abandoned, asked,
                       admitted, missed, interrupted, unsent, dropped>>
    BY DEF Restart, client, history, exits
  <1>2. ops' \in 0..MaxOps /\ ops <= ops' /\ 0 \in 0..MaxOps /\ 0 \in 0..Events
    BY <1>0, <1>1 DEF TypeOK
  <1>3. TypeOK' BY <1>0, <1>1, <1>2 DEF TypeOK
  <1>4. SeqInv'
    <2>1. \A t \in Sessions : seq[t] \in Nat BY <1>0 DEF TypeOK
    <2>2. ops \in Nat /\ ops' \in Nat BY <1>0, <1>2 DEF TypeOK
    <2> QED BY <1>1, <1>2, <2>1, <2>2 DEF Inv, SeqInv
  <1>5. SockInv' /\ ServingInv' /\ UnsentInv' BY <1>1 DEF Inv, SockInv, ServingInv, UnsentInv
  <1>6. KindInv'
    <2>1. \A q \in UnderWay' : q \in UnderWay BY <1>1 DEF UnderWay
    <2> QED BY <1>1, <2>1 DEF Inv, KindInv
  <1>7. TaskInv' BY <1>1 DEF TaskInv
  <1> QED BY <1>3, <1>4, <1>5, <1>6, <1>7 DEF Inv

-----------------------------------------------------------------------------
(* The theorems *)

LEMMA StepKeeps == Inv /\ [Next]_vars => Inv'
  <1> SUFFICES ASSUME Inv, [Next]_vars PROVE Inv' OBVIOUS
  <1>1. CASE UNCHANGED vars
    <2>1. TypeOK' BY <1>1 DEF Inv, TypeOK, vars, client, wires, node, history, exits
    <2>2. ops <= ops' BY <1>1, Constants DEF Inv, TypeOK, vars
    <2> QED BY <1>1, <2>1, <2>2, Aside DEF vars, client, wires, node, history, exits
  <1>2. CASE NodeStep
    BY <1>2, TakeKeeps, PublishKeeps, FinishInferenceKeeps DEF NodeStep
  <1>3. CASE Restart BY <1>3, RestartKeeps
  <1>4. ASSUME NEW s \in Sessions,
               SessionStep(s) \/ Cancel(s) \/ StartDrive(s) \/ SubscriptionArrives(s)
        PROVE  Inv'
    BY <1>4, ConnectKeeps, SetupEndsKeeps, CancelKeeps, CallEndsKeeps, LeaveKeeps, VanishKeeps, HearKeeps,
       TakeReplyKeeps, EndsKeep, StartDriveKeeps, SubscriptionArrivesKeeps DEF SessionStep
  <1> QED BY <1>1, <1>2, <1>3, <1>4 DEF Next

\* The invariant holds throughout.
THEOREM Invariance == Spec => []Inv
  BY InitOK, StepKeeps, PTL DEF Spec

\* No request is sent on an rpc socket that awaits a reply, and ctl only refuses an exit
\* when a signal ended a call on it before.
THEOREM SocketsStayInStep == Spec => []SocketsInStep
  <1>1. Inv => SocketsInStep BY DEF Inv, SockInv, UnsentInv, SocketsInStep
  <1> QED BY <1>1, Invariance, PTL

\* An acknowledged setup gives the session its task, which only its own exit, a restart
\* of the node or a refused setup of another session can take away.
THEOREM ReadyKeepsTask == Spec => []ReadyHasTask
  <1>1. Inv => ReadyHasTask BY DEF Inv, TypeOK, TaskInv, ReadyHasTask, Used
  <1> QED BY <1>1, Invariance, PTL

-----------------------------------------------------------------------------
(* The inductive invariant of the events *)

\* A request whose socket still awaits its reply: there is one at most for a socket,
\* and no reply of it yet.
LiveInv ==
  /\ \A s \in Sessions, v \in Vias : inbox[s][v] # "none" => sock[s][v] = "waiting"
  /\ \A r \in UnderWay : r.live =>
       sock[r.sess][r.via] = "waiting" /\ inbox[r.sess][r.via] = "none"
  /\ \A r, q \in UnderWay : r.live /\ q.live /\ r.sess = q.sess /\ r.via = q.via => r = q
  /\ serving # NoRequest /\ serving.live => serving \notin requests

\* Inferences under way have a number already given, and the current one is live; of a
\* session that gave up on none, it is the one it waits for.
WorkInv ==
  \A r \in UnderWay : r.kind = "inference" =>
    /\ life[r.sess] # "gone" => r.rid < seq[r.sess]
    /\ Current(r.sess, r) => r.live
    /\ r.sess \notin abandoned => drv[r.sess] = "polling" /\ ~acked[r.sess] /\ r.live

\* Sessions are set up one after the other, and when nothing went wrong with their
\* setups no two are in use.
LifeInv ==
  \A s, q \in Sessions : s < q =>
    /\ life[s] \in {"unborn", "setup", "ready"} => life[q] = "unborn"
    /\ ~restarted /\ ~refused /\ life[s] \in Used => life[q] \in {"unborn", "setup"}

\* Subscriptions and events are of requests that were numbered; the callback is given
\* events of the current number, and the last of them ends the stream.
NumberOf(s) ==
  /\ life[s] \notin Held => seq[s] = 0
  /\ spread[s] <= seq[s]
  /\ \A i \in 1..Len(line[s]) : line[s][i].rid < seq[s]
  /\ \A i \in 1..Len(heard[s]) : heard[s][i].rid = seq[s] - 1
  /\ ended[s] => \E i \in 1..Len(heard[s]) : heard[s][i].n = Events
  /\ outcome[s] = "ok" => ended[s]

NumberInv == \A s \in Sessions : NumberOf(s)

\* An event of session s under number k; the numbers of such events among those heard, h,
\* and on their way, l.
Mine(s, k, e) == e.sess = s /\ e.rid = k

Numbers(s, k, h, l) ==
  {x \in 1..Events :
     \/ \E i \in 1..Len(h) : Mine(s, k, h[i]) /\ h[i].n = x
     \/ \E i \in 1..Len(l) : Mine(s, k, l[i]) /\ l[i].n = x}

\* They are in order, the heard ones first.
InOrder(s, k, h, l) ==
  /\ \A i, j \in 1..Len(h) :
       i < j /\ Mine(s, k, h[i]) /\ Mine(s, k, h[j]) => h[i].n < h[j].n
  /\ \A i, j \in 1..Len(l) :
       i < j /\ Mine(s, k, l[i]) /\ Mine(s, k, l[j]) => l[i].n < l[j].n
  /\ \A i \in 1..Len(h), j \in 1..Len(l) :
       Mine(s, k, h[i]) /\ Mine(s, k, l[j]) => h[i].n < l[j].n

\* None is missing among the numbers N.
Gapless(N) == \A x, y \in N : \A z \in x..y : z \in N

\* The events of the current inference that are there.
Present(s) == Numbers(s, seq[s] - 1, heard[s], line[s])

\* There is none before the request is executed, and while it is, they go up to the last
\* one made, unless one was dropped, and the subscription has arrived.
OrderOf(s) ==
  /\ InOrder(s, seq[s] - 1, heard[s], line[s])
  /\ s \notin missed => Gapless(Present(s))
  /\ \A r \in requests : Current(s, r) => Present(s) = {}
  /\ serving # NoRequest /\ Current(s, serving) /\ Present(s) # {} =>
       /\ spread[s] = seq[s]
       /\ s \notin missed => made \in Present(s)
       /\ \A x \in Present(s) : x <= made

OrderInv == \A s \in Sessions : OrderOf(s)

\* Nothing that lets events of another session in has happened to session s.
Clean(s) == ~restarted /\ ~refused /\ \A p \in 1..(s - 1) : p \notin abandoned

CleanInv ==
  \A s \in Sessions : Clean(s) =>
    /\ \A i \in 1..Len(heard[s]) : heard[s][i].sess = s
    /\ life[s] \in Used => \A i \in 1..Len(line[s]) : line[s][i].sess = s

\* Nothing but the answer to its exit arrives on the ctl socket of a session.
CtlInv == \A s \in Sessions : life[s] # "quitting" => inbox[s]["ctl"] = "none"

EventInv == LiveInv /\ WorkInv /\ LifeInv /\ NumberInv /\ OrderInv /\ CleanInv

-----------------------------------------------------------------------------
(* Events in order *)

\* An event given to the callback leaves the line for the end of those heard.
LEMMA HearInOrder ==
  ASSUME NEW s, NEW k, NEW h \in Seq(EventType), NEW l \in Seq(EventType), l # <<>>,
         InOrder(s, k, h, l)
  PROVE  /\ InOrder(s, k, Append(h, Head(l)), Tail(l))
         /\ Numbers(s, k, Append(h, Head(l)), Tail(l)) = Numbers(s, k, h, l)
<1> DEFINE a == Append(h, Head(l))
           t == Tail(l)
           N == Numbers(s, k, h, l)
           M == Numbers(s, k, a, t)
<1>1. /\ Len(h) \in Nat /\ Len(l) \in Nat /\ Len(l) >= 1
      /\ \A i \in 1..Len(h) : h[i].n \in Nat
      /\ \A i \in 1..Len(l) : l[i].n \in Nat
  <2>1. Len(h) \in Nat /\ Len(l) \in Nat /\ Len(l) >= 1 BY EmptySeq, LenProperties
  <2>2. \A i \in 1..Len(h) : h[i] \in EventType BY ElementOfSeq
  <2>3. \A i \in 1..Len(l) : l[i] \in EventType BY ElementOfSeq
  <2>4. \A e \in EventType : e.n \in 1..Events BY DEF EventType
  <2> QED BY <2>1, <2>2, <2>3, <2>4
<1>2. /\ Len(t) = Len(l) - 1 /\ \A i \in 1..Len(t) : t[i] = l[i + 1]
      /\ Head(l) \in EventType /\ Head(l) = l[1]
  BY HeadTailProperties
<1>3. /\ Len(a) = Len(h) + 1 /\ \A i \in 1..Len(h) : a[i] = h[i]
      /\ a[Len(h) + 1] = l[1]
  BY <1>2, AppendProperties
<1> HIDE DEF a, t
<1>4. /\ \A i \in 1..Len(a) : i \in 1..Len(h) \/ i = Len(h) + 1
      /\ \A i \in 1..Len(t) : i + 1 \in 1..Len(l) /\ i + 1 > 1
      /\ \A i \in 1..Len(l) : i = 1 \/ i - 1 \in 1..Len(t)
      /\ \A i \in 1..Len(h) : i \in 1..Len(a) /\ i < Len(h) + 1
      /\ Len(h) + 1 \in 1..Len(a) /\ 1 \in 1..Len(l)
  BY <1>1, <1>2, <1>3
<1>5. M = N
  <2>1. ASSUME NEW x \in M PROVE x \in N
    <3>1. CASE \E i \in 1..Len(a) : Mine(s, k, a[i]) /\ a[i].n = x
      <4>1. PICK i \in 1..Len(a) : Mine(s, k, a[i]) /\ a[i].n = x BY <3>1
      <4>2. CASE i \in 1..Len(h) BY <1>3, <4>1, <4>2 DEF Numbers
      <4>3. CASE i = Len(h) + 1 BY <1>3, <1>4, <4>1, <4>3 DEF Numbers
      <4> QED BY <1>4, <4>2, <4>3
    <3>2. CASE \E i \in 1..Len(t) : Mine(s, k, t[i]) /\ t[i].n = x
      <4>1. PICK i \in 1..Len(t) : Mine(s, k, t[i]) /\ t[i].n = x BY <3>2
      <4>2. i + 1 \in 1..Len(l) /\ t[i] = l[i + 1] BY <1>2, <1>4
      <4> QED BY <4>1, <4>2 DEF Numbers
    <3> QED BY <2>1, <3>1, <3>2 DEF Numbers
  <2>2. ASSUME NEW x \in N PROVE x \in M
    <3>1. CASE \E i \in 1..Len(h) : Mine(s, k, h[i]) /\ h[i].n = x
      <4>1. PICK i \in 1..Len(h) : Mine(s, k, h[i]) /\ h[i].n = x BY <3>1
      <4>2. i \in 1..Len(a) /\ a[i] = h[i] BY <1>3, <1>4
      <4> QED BY <4>1, <4>2 DEF Numbers
    <3>2. CASE \E i \in 1..Len(l) : Mine(s, k, l[i]) /\ l[i].n = x
      <4>1. PICK i \in 1..Len(l) : Mine(s, k, l[i]) /\ l[i].n = x BY <3>2
      <4>2. CASE i = 1
        <5>1. Len(h) + 1 \in 1..Len(a) /\ a[Len(h) + 1] = l[i] BY <1>3, <1>4, <4>2
        <5> QED BY <4>1, <5>1 DEF Numbers
      <4>3. CASE i # 1
        <5>1. i - 1 \in 1..Len(t) /\ (i - 1) + 1 = i BY <1>1, <1>4, <4>3
        <5>2. t[i - 1] = l[i] BY <1>2, <5>1
        <5> QED BY <4>1, <5>1, <5>2 DEF Numbers
      <4> QED BY <4>2, <4>3
    <3> QED BY <2>2, <3>1, <3>2 DEF Numbers
  <2> QED BY <2>1, <2>2
<1>6. ASSUME NEW i \in 1..Len(a), NEW j \in 1..Len(a), i < j,
             Mine(s, k, a[i]), Mine(s, k, a[j])
      PROVE  a[i].n < a[j].n
  <2>1. i \in 1..Len(h) BY <1>1, <1>4, <1>6
  <2>2. CASE j \in 1..Len(h) BY <1>3, <1>6, <2>1, <2>2 DEF InOrder
  <2>3. CASE j = Len(h) + 1 BY <1>3, <1>4, <1>6, <2>1, <2>3 DEF InOrder
  <2> QED BY <1>4, <2>2, <2>3
<1>7. ASSUME NEW i \in 1..Len(t), NEW j \in 1..Len(t), i < j,
             Mine(s, k, t[i]), Mine(s, k, t[j])
      PROVE  t[i].n < t[j].n
  <2>1. i + 1 \in 1..Len(l) /\ j + 1 \in 1..Len(l) /\ i + 1 < j + 1 BY <1>4, <1>7
  <2>2. t[i] = l[i + 1] /\ t[j] = l[j + 1] BY <1>2
  <2> QED BY <1>7, <2>1, <2>2 DEF InOrder
<1>8. ASSUME NEW i \in 1..Len(a), NEW j \in 1..Len(t), Mine(s, k, a[i]), Mine(s, k, t[j])
      PROVE  a[i].n < t[j].n
  <2>1. j + 1 \in 1..Len(l) /\ 1 < j + 1 /\ t[j] = l[j + 1] BY <1>2, <1>4
  <2>2. CASE i \in 1..Len(h) BY <1>3, <1>8, <2>1, <2>2 DEF InOrder
  <2>3. CASE i = Len(h) + 1 BY <1>3, <1>4, <1>8, <2>1, <2>3 DEF InOrder
  <2> QED BY <1>4, <2>2, <2>3
<1>9. InOrder(s, k, a, t) BY <1>5, <1>6, <1>7, <1>8 DEF InOrder
<1> QED BY <1>5, <1>9 DEF a, t

\* One of another inference or session that is taken from the line changes nothing.
LEMMA SkipInOrder ==
  ASSUME NEW s, NEW k, NEW h \in Seq(EventType), NEW l \in Seq(EventType), l # <<>>,
         InOrder(s, k, h, l), ~Mine(s, k, Head(l))
  PROVE  /\ InOrder(s, k, h, Tail(l))
         /\ Numbers(s, k, h, Tail(l)) = Numbers(s, k, h, l)
<1> DEFINE t == Tail(l)
<1>1. Len(l) \in Nat /\ Len(l) >= 1 BY EmptySeq, LenProperties
<1>2. /\ Len(t) = Len(l) - 1 /\ \A i \in 1..Len(t) : t[i] = l[i + 1]
      /\ Head(l) = l[1]
  BY HeadTailProperties
<1> HIDE DEF t
<1>3. /\ \A i \in 1..Len(t) : i + 1 \in 1..Len(l)
      /\ \A i \in 1..Len(l) : i = 1 \/ (i - 1 \in 1..Len(t) /\ (i - 1) + 1 = i)
      /\ \A i, j \in 1..Len(t) : i < j => i + 1 < j + 1
  BY <1>1, <1>2
<1>4. Numbers(s, k, h, t) = Numbers(s, k, h, l)
  <2>1. ASSUME NEW x PROVE (\E i \in 1..Len(t) : Mine(s, k, t[i]) /\ t[i].n = x)
                             <=> (\E i \in 1..Len(l) : Mine(s, k, l[i]) /\ l[i].n = x)
    <3>1. ASSUME NEW i \in 1..Len(t), Mine(s, k, t[i]) /\ t[i].n = x
          PROVE  \E j \in 1..Len(l) : Mine(s, k, l[j]) /\ l[j].n = x
      <4>1. i + 1 \in 1..Len(l) /\ t[i] = l[i + 1] BY <1>2, <1>3
      <4> QED BY <3>1, <4>1
    <3>2. ASSUME NEW i \in 1..Len(l), Mine(s, k, l[i]) /\ l[i].n = x
          PROVE  \E j \in 1..Len(t) : Mine(s, k, t[j]) /\ t[j].n = x
      <4>1. i # 1 BY <1>2, <3>2
      <4>2. i - 1 \in 1..Len(t) /\ t[i - 1] = l[i] BY <1>2, <1>3, <4>1
      <4> QED BY <3>2, <4>2
    <3> QED BY <3>1, <3>2
  <2> QED BY <2>1 DEF Numbers
<1>5. ASSUME NEW i \in 1..Len(t), NEW j \in 1..Len(t), i < j,
             Mine(s, k, t[i]), Mine(s, k, t[j])
      PROVE  t[i].n < t[j].n
  BY <1>2, <1>3, <1>5 DEF InOrder
<1>6. ASSUME NEW i \in 1..Len(h), NEW j \in 1..Len(t), Mine(s, k, h[i]), Mine(s, k, t[j])
      PROVE  h[i].n < t[j].n
  BY <1>2, <1>3, <1>6 DEF InOrder
<1>7. InOrder(s, k, h, t) BY <1>4, <1>5, <1>6 DEF InOrder
<1> QED BY <1>4, <1>7 DEF t

\* An event that comes in, of another inference or session, changes nothing.
LEMMA OtherInOrder ==
  ASSUME NEW s, NEW k, NEW h \in Seq(EventType), NEW l \in Seq(EventType), NEW e \in EventType,
         InOrder(s, k, h, l), ~Mine(s, k, e)
  PROVE  /\ InOrder(s, k, h, Append(l, e))
         /\ Numbers(s, k, h, Append(l, e)) = Numbers(s, k, h, l)
<1> DEFINE a == Append(l, e)
<1>1. Len(l) \in Nat /\ Len(a) = Len(l) + 1 /\ a[Len(l) + 1] = e
  BY AppendProperties, LenProperties
<1>2. \A i \in 1..Len(l) : a[i] = l[i] BY AppendProperties
<1> HIDE DEF a
<1>3. /\ \A i \in 1..Len(a) : i \in 1..Len(l) \/ i = Len(l) + 1
      /\ \A i \in 1..Len(l) : i \in 1..Len(a)
  BY <1>1
<1>4. \A i \in 1..Len(a) : Mine(s, k, a[i]) => i \in 1..Len(l) /\ a[i] = l[i]
  BY <1>1, <1>2, <1>3
<1>5. Numbers(s, k, h, a) = Numbers(s, k, h, l)
  BY <1>2, <1>3, <1>4 DEF Numbers
<1>6. InOrder(s, k, h, a) BY <1>4, <1>5 DEF InOrder
<1> QED BY <1>5, <1>6 DEF a

\* The next one of the inference becomes the last of them.
LEMMA NextInOrder ==
  ASSUME NEW s, NEW k, NEW h \in Seq(EventType), NEW l \in Seq(EventType), NEW e \in EventType,
         InOrder(s, k, h, l), Mine(s, k, e), \A x \in Numbers(s, k, h, l) : x < e.n
  PROVE  /\ InOrder(s, k, h, Append(l, e))
         /\ Numbers(s, k, h, Append(l, e)) = Numbers(s, k, h, l) \cup {e.n}
<1> DEFINE a == Append(l, e)
           N == Numbers(s, k, h, l)
           M == Numbers(s, k, h, a)
<1>1. /\ Len(h) \in Nat /\ Len(l) \in Nat
      /\ \A i \in 1..Len(h) : h[i].n \in 1..Events
      /\ \A i \in 1..Len(l) : l[i].n \in 1..Events
  <2>1. Len(h) \in Nat /\ Len(l) \in Nat BY LenProperties
  <2>2. \A i \in 1..Len(h) : h[i] \in EventType BY ElementOfSeq
  <2>3. \A i \in 1..Len(l) : l[i] \in EventType BY ElementOfSeq
  <2> QED BY <2>1, <2>2, <2>3 DEF EventType
<1>2. /\ Len(a) = Len(l) + 1 /\ \A i \in 1..Len(l) : a[i] = l[i]
      /\ a[Len(l) + 1] = e /\ e.n \in 1..Events
  BY AppendProperties DEF EventType
<1> HIDE DEF a
<1>3. /\ \A i \in 1..Len(a) : i \in 1..Len(l) \/ i = Len(l) + 1
      /\ \A i \in 1..Len(l) : i \in 1..Len(a) /\ i < Len(l) + 1
      /\ Len(l) + 1 \in 1..Len(a)
  BY <1>1, <1>2
<1>4. \A x : (\E i \in 1..Len(a) : Mine(s, k, a[i]) /\ a[i].n = x)
               <=> \/ \E i \in 1..Len(l) : Mine(s, k, l[i]) /\ l[i].n = x
                   \/ Mine(s, k, e) /\ e.n = x
  BY <1>2, <1>3
<1>5. \A x \in N : x < e.n OBVIOUS
<1>6. M = N \cup {e.n} BY <1>2, <1>4 DEF Numbers
<1>7. ASSUME NEW i \in 1..Len(a), NEW j \in 1..Len(a), i < j,
             Mine(s, k, a[i]), Mine(s, k, a[j])
      PROVE  a[i].n < a[j].n
  <2>1. i \in 1..Len(l) /\ a[i] = l[i] BY <1>1, <1>2, <1>3, <1>7
  <2>2. CASE j \in 1..Len(l) BY <1>2, <1>7, <2>1, <2>2 DEF InOrder
  <2>3. CASE j = Len(l) + 1
    <3>1. a[i].n \in N BY <1>1, <1>7, <2>1 DEF Numbers
    <3> QED BY <1>2, <1>5, <2>3, <3>1
  <2> QED BY <1>3, <2>2, <2>3
<1>8. ASSUME NEW i \in 1..Len(h), NEW j \in 1..Len(a), Mine(s, k, h[i]), Mine(s, k, a[j])
      PROVE  h[i].n < a[j].n
  <2>1. CASE j \in 1..Len(l) BY <1>2, <1>8, <2>1 DEF InOrder
  <2>2. CASE j = Len(l) + 1
    <3>1. h[i].n \in N BY <1>1, <1>8 DEF Numbers
    <3> QED BY <1>2, <1>5, <2>2, <3>1
  <2> QED BY <1>3, <2>1, <2>2
<1>9. InOrder(s, k, h, a)
  <2>1. \A i, j \in 1..Len(h) :
          i < j /\ Mine(s, k, h[i]) /\ Mine(s, k, h[j]) => h[i].n < h[j].n
    BY DEF InOrder
  <2> QED BY <1>7, <1>8, <2>1 DEF InOrder
<1> QED BY <1>6, <1>9 DEF a

\* The next number leaves no gap.
LEMMA NextGapless ==
  ASSUME NEW N \in SUBSET Nat, NEW n \in Nat, Gapless(N), \A x \in N : x < n,
         N = {} \/ n - 1 \in N
  PROVE  Gapless(N \cup {n})
<1> SUFFICES ASSUME NEW x \in N \cup {n}, NEW y \in N \cup {n}, NEW z \in x..y
             PROVE  z \in N \cup {n}
  BY DEF Gapless
<1>1. CASE y \in N
  <2>1. x \in N
    <3>1. x <= y /\ y < n BY <1>1
    <3> QED BY <1>1, <3>1
  <2> QED BY <1>1, <2>1 DEF Gapless
<1>2. CASE y = n /\ x = n BY <1>2
<1>3. CASE y = n /\ x \in N
  <2>1. n - 1 \in N BY <1>3
  <2>2. z = n \/ z \in x..(n - 1) BY <1>3
  <2> QED BY <1>3, <2>1, <2>2 DEF Gapless
<1> QED BY <1>1, <1>2, <1>3

\* Nothing is in order.
LEMMA NothingInOrder ==
  ASSUME NEW s, NEW k, NEW l, \A i \in 1..Len(l) : ~Mine(s, k, l[i])
  PROVE  InOrder(s, k, <<>>, l) /\ Numbers(s, k, <<>>, l) = {}
<1>1. 1..Len(<<>>) = {} BY EmptySeq
<1> QED BY <1>1 DEF InOrder, Numbers

-----------------------------------------------------------------------------
(* Requests under way, and what a step leaves alone *)

\* Requests that differ at most in whether their socket is still there.
Alike(r, p) == r.sess = p.sess /\ r.via = p.via /\ r.kind = p.kind /\ r.rid = p.rid

\* What is under way after a step was there before it, but for the sockets made anew.
Fewer ==
  /\ \A r \in requests' : \E p \in requests : Alike(r, p) /\ (r.live => r = p)
  /\ serving' # NoRequest =>
       serving # NoRequest /\ Alike(serving', serving) /\ (serving'.live => serving' = serving)

\* The sockets vias of s, among them rpc, are destroyed.
LEMMA Freed ==
  ASSUME Inv, LiveInv, NEW s \in Sessions, NEW vias \in SUBSET Vias, "rpc" \in vias,
         NEW R, R \in Orphans(s, vias), NEW v, v = LeftBehind(serving, s, "rpc")
  PROVE  /\ \A r \in R : \E p \in requests :
              /\ Alike(r, p) /\ (r.live => r = p)
              /\ r.live => ~(p.sess = s /\ p.via \in vias)
              /\ p.sess # s => r = p
         /\ v # NoRequest =>
              /\ serving # NoRequest /\ Alike(v, serving)
              /\ v.live => v = serving /\ v.sess # s
              /\ serving.sess # s => v = serving
  <1>1. requests \subseteq RequestType /\ serving \in RequestType \cup {NoRequest}
    BY DEF Inv, TypeOK
  <1>2. ASSUME NEW r \in R
        PROVE  \E p \in requests :
                 /\ Alike(r, p) /\ (r.live => r = p)
                 /\ r.live => ~(p.sess = s /\ p.via \in vias)
                 /\ p.sess # s => r = p
    <2>1. PICK p \in requests :
            r = IF p.sess = s /\ p.via \in vias THEN [p EXCEPT !.live = FALSE] ELSE p
      BY <1>1, <1>2, OrphansKeep
    <2>2. p \in RequestType BY <1>1
    <2>3. Alike(r, p) BY <2>1, <2>2 DEF Alike, RequestType
    <2>4. p.sess = s /\ p.via \in vias => ~r.live BY <2>1, <2>2 DEF RequestType
    <2> QED BY <2>1, <2>3, <2>4
  <1>3. ASSUME v # NoRequest
        PROVE  /\ serving # NoRequest /\ Alike(v, serving)
               /\ v.live => v = serving /\ v.sess # s
               /\ serving.sess # s => v = serving
    <2>1. serving # NoRequest /\ serving \in RequestType
      BY <1>1, <1>3 DEF LeftBehind, IsFrom
    <2>2. serving.kind = "inference" /\ serving.via = "rpc"
      <3>1. serving \in UnderWay BY <2>1 DEF UnderWay
      <3>2. serving.kind = "inference" /\ serving.via # "ctl"
        BY <2>1, <3>1 DEF Inv, ServingInv, KindInv
      <3> QED BY <2>1, <3>2 DEF RequestType, Vias
    <2>3. CASE serving.sess = s
      <3>1. v = [serving EXCEPT !.live = FALSE] BY <2>1, <2>2, <2>3 DEF LeftBehind, IsFrom
      <3> QED BY <2>1, <2>3, <3>1 DEF Alike, RequestType
    <2>4. CASE serving.sess # s
      <3>1. v = serving BY <2>4 DEF LeftBehind, IsFrom
      <3> QED BY <2>1, <2>4, <3>1 DEF Alike
    <2> QED BY <2>3, <2>4
  <1> QED BY <1>2, <1>3

\* The live requests of a step were there before it, and it left their sockets alone.
LEMMA LiveKept ==
  ASSUME LiveInv, Fewer,
         \A s \in Sessions, v \in Vias : inbox'[s][v] # "none" => sock'[s][v] = "waiting",
         \A r \in UnderWay : r \in UnderWay' /\ r.live =>
           /\ sock'[r.sess][r.via] = sock[r.sess][r.via]
           /\ inbox'[r.sess][r.via] = inbox[r.sess][r.via]
  PROVE  LiveInv'
  <1>1. \A r \in UnderWay' : r.live => r \in UnderWay
    BY DEF Fewer, UnderWay
  <1>2. serving' # NoRequest /\ serving'.live => serving' \notin requests'
    BY DEF Fewer, LiveInv
  <1> QED BY <1>1, <1>2 DEF LiveInv

\* The same when a request is sent on a socket that has none.
LEMMA LiveAdded ==
  ASSUME LiveInv, TypeOK', NEW q,
         \A r \in requests' : r = q \/ \E p \in requests : Alike(r, p) /\ (r.live => r = p),
         serving' # NoRequest =>
           serving # NoRequest /\ Alike(serving', serving) /\ (serving'.live => serving' = serving),
         \A r \in UnderWay : r \in UnderWay' /\ r.live /\ r # q =>
           /\ r.sess # q.sess \/ r.via # q.via
           /\ sock'[r.sess][r.via] = sock[r.sess][r.via]
           /\ inbox'[r.sess][r.via] = inbox[r.sess][r.via],
         serving' # NoRequest /\ serving'.live =>
           serving'.sess # q.sess \/ serving'.via # q.via,
         sock'[q.sess][q.via] = "waiting", inbox'[q.sess][q.via] = "none",
         \A s \in Sessions, v \in Vias : inbox'[s][v] # "none" => sock'[s][v] = "waiting"
  PROVE  LiveInv'
  <1>1. \A r \in UnderWay' : r.live /\ r # q =>
          /\ r \in UnderWay /\ (r.sess # q.sess \/ r.via # q.via)
          /\ sock'[r.sess][r.via] = "waiting" /\ inbox'[r.sess][r.via] = "none"
    <2> SUFFICES ASSUME NEW r \in UnderWay', r.live, r # q
                 PROVE  /\ r \in UnderWay /\ (r.sess # q.sess \/ r.via # q.via)
                        /\ sock'[r.sess][r.via] = "waiting" /\ inbox'[r.sess][r.via] = "none"
      OBVIOUS
    <2>1. r \in UnderWay BY DEF UnderWay
    <2> QED BY <2>1 DEF LiveInv
  <1>2. serving' # NoRequest /\ serving'.live => serving' \notin requests'
    BY DEF LiveInv
  <1>3. \A r, p \in UnderWay' :
          r.live /\ p.live /\ r.sess = p.sess /\ r.via = p.via => r = p
    BY <1>1 DEF LiveInv
  <1> QED BY <1>1, <1>2, <1>3 DEF LiveInv

\* No step but drive_inference adds an inference.
LEMMA WorkKept ==
  ASSUME Inv, WorkInv,
         \A r \in UnderWay' : r.kind = "inference" => \E p \in UnderWay :
           /\ Alike(r, p)
           /\ r = p \/ p.sess \in abandoned'
           /\ life'[p.sess] # "gone" =>
                /\ life[p.sess] # "gone" /\ seq'[p.sess] = seq[p.sess]
                /\ (r = p \/ p.rid # seq[p.sess] - 1)
           /\ life'[p.sess] = "gone" => seq'[p.sess] = 0,
         \A s \in Sessions : s \notin abandoned' =>
           s \notin abandoned,
         \A r \in UnderWay' : r.kind = "inference" /\ r.sess \notin abandoned' =>
           drv'[r.sess] = drv[r.sess] /\ acked'[r.sess] = acked[r.sess]
  PROVE  WorkInv'
  <1> SUFFICES ASSUME NEW r \in UnderWay', r.kind = "inference"
               PROVE  /\ life'[r.sess] # "gone" => r.rid < seq'[r.sess]
                      /\ Current(r.sess, r)' => r.live
                      /\ r.sess \notin abandoned' =>
                           drv'[r.sess] = "polling" /\ ~acked'[r.sess] /\ r.live
    BY DEF WorkInv, Current
  <1>1. PICK p \in UnderWay :
           /\ Alike(r, p)
           /\ r = p \/ p.sess \in abandoned'
           /\ life'[p.sess] # "gone" =>
                /\ life[p.sess] # "gone" /\ seq'[p.sess] = seq[p.sess]
                /\ (r = p \/ p.rid # seq[p.sess] - 1)
           /\ life'[p.sess] = "gone" => seq'[p.sess] = 0
    OBVIOUS
  <1>2. p.sess \in Sessions /\ p.rid \in Nat
    BY Constants DEF Inv, TypeOK, UnderWay, RequestType
  <1>3. Alike(r, p) BY <1>1
  <1> QED BY <1>1, <1>2, <1>3 DEF WorkInv, Current, Alike

\* A session whose events stay as they are, while none of its requests is added.
LEMMA OrderKept ==
  ASSUME NEW t \in Sessions, OrderOf(t),
         seq'[t] = seq[t], heard'[t] = heard[t], line'[t] = line[t], spread'[t] = spread[t],
         t \in missed' <=> t \in missed,
         \A r \in requests' : r.kind = "inference" /\ r.sess = t =>
           \E p \in requests : Alike(r, p),
         serving' # NoRequest /\ Current(t, serving)' =>
           serving # NoRequest /\ Current(t, serving) /\ made' = made
  PROVE  OrderOf(t)'
  <1>1. Present(t)' = Present(t) BY DEF Present
  <1>2. \A r \in requests' : Current(t, r)' => \E p \in requests : Current(t, p)
    BY DEF Current, Alike
  <1>3. InOrder(t, seq[t] - 1, heard[t], line[t])' BY DEF OrderOf
  <1> HIDE DEF Present
  <1> QED BY <1>1, <1>2, <1>3 DEF OrderOf

\* Steps that set no session up.
LEMMA LifeKept ==
  ASSUME LifeInv, restarted => restarted', refused => refused',
         \A s \in Sessions :
           /\ life'[s] \in {"unborn", "setup", "ready"} => life'[s] = life[s]
           /\ life'[s] \in Used => life[s] \in Used
           /\ life[s] \in {"unborn", "setup"} => life'[s] \in {"unborn", "setup"}
           /\ life[s] = "unborn" => life'[s] = "unborn"
  PROVE  LifeInv'
  BY DEF LifeInv

\* A session whose numbers and events stay as they are.
LEMMA NumberKept ==
  ASSUME NEW s \in Sessions, NumberOf(s),
         life'[s] \in Held \/ seq[s] = 0 \/ life[s] \notin Held,
         seq'[s] = seq[s], spread'[s] = spread[s], line'[s] = line[s], heard'[s] = heard[s],
         ended'[s] = ended[s], outcome'[s] = "ok" => outcome[s] = "ok"
  PROVE  NumberOf(s)'
  BY DEF NumberOf

\* Events of another session get in only by a Publish or after one.
LEMMA CleanKept ==
  ASSUME CleanInv, restarted => restarted', refused => refused', abandoned \subseteq abandoned',
         \A s \in Sessions :
           /\ heard'[s] = heard[s] \/ heard'[s] = <<>>
           /\ line'[s] = line[s] \/ line'[s] = <<>>
           /\ life'[s] \in Used => life[s] \in Used \/ line'[s] = <<>>
  PROVE  CleanInv'
  <1> SUFFICES ASSUME NEW s \in Sessions, Clean(s)'
               PROVE  /\ \A i \in 1..Len(heard'[s]) : heard'[s][i].sess = s
                      /\ life'[s] \in Used => \A i \in 1..Len(line'[s]) : line'[s][i].sess = s
    BY DEF CleanInv
  <1>1. Clean(s) BY DEF Clean
  <1>2. 1..Len(<<>>) = {} BY EmptySeq
  <1>3. /\ \A i \in 1..Len(heard[s]) : heard[s][i].sess = s
        /\ life[s] \in Used => \A i \in 1..Len(line[s]) : line[s][i].sess = s
    BY <1>1 DEF CleanInv
  <1> QED BY <1>2, <1>3

\* Steps that leave the events alone, and only take requests or leave them behind.
LEMMA EventsAside ==
  ASSUME OrderInv, UNCHANGED <<seq, heard, line, spread, missed>>,
         \A r \in requests' : r.kind = "inference" => \E p \in requests : Alike(r, p),
         serving' # NoRequest =>
           serving # NoRequest /\ Alike(serving', serving) /\ made' = made
  PROVE  OrderInv'
  <1> SUFFICES ASSUME NEW t \in Sessions PROVE OrderOf(t)' BY DEF OrderInv
  <1>1. serving' # NoRequest /\ Current(t, serving)' =>
          serving # NoRequest /\ Current(t, serving) /\ made' = made
    BY DEF Current, Alike
  <1> QED BY <1>1, OrderKept DEF OrderInv

-----------------------------------------------------------------------------
(* The events, in the life of a session *)

\* A session is only made when those before it are given up: its setup is the one request.
LEMMA ConnectKeepsEvents ==
  ASSUME Inv, EventInv, Inv', NEW s \in Sessions, Connect(s)
  PROVE  EventInv'
  <1> USE Constants
  <1>0. TypeOK /\ TypeOK' /\ 0 \in 0..MaxOps BY DEF Inv
  <1>1. /\ life[s] = "unborn" /\ life' = [life EXCEPT ![s] = "setup"]
        /\ \A p \in 1..(s - 1) : life[p] \notin {"unborn", "setup", "ready"}
        /\ Send(s, "rpc", "setup", 0)
        /\ UNCHANGED <<drv, cancelled, seq, pending, heard, acked, ended, outcome,
                       serving, made, task, restarted, line, spread, ops,
                       refused, abandoned, missed>>
    BY DEF Connect, node, history, exits
  <1>2. sock[s]["rpc"] = "idle" /\ inbox[s]["rpc"] = "none" BY <1>1 DEF Inv, SockInv
  <1> DEFINE q == Request(s, "rpc", "setup", 0)
  <1>3. /\ requests' = requests \cup {q} /\ inbox' = inbox
        /\ sock'[s]["rpc"] = "waiting"
        /\ \A t \in Sessions, v \in Vias : t # s \/ v # "rpc" => sock'[t][v] = sock[t][v]
        /\ q.sess = s /\ q.via = "rpc" /\ q.kind = "setup" /\ q.live
    BY <1>0, <1>1, <1>2, Sends, RequestMade
  <1> HIDE DEF q
  <1>4. /\ life'[s] = "setup" /\ \A t \in Sessions : t # s => life'[t] = life[t]
    BY <1>0, <1>1 DEF TypeOK
  <1>5. \A r \in UnderWay : r.sess \in Sessions /\ r.via \in Vias /\ r.sess # s
    <2>1. \A r \in UnderWay : r \in RequestType BY <1>0 DEF TypeOK, UnderWay
    <2> QED BY <1>1, <2>1 DEF Inv, KindInv, RequestType
  <1>6. LiveInv'
    <2>1. serving' # NoRequest => serving \in UnderWay BY <1>1 DEF UnderWay
    <2>2. \A r \in requests : r \in UnderWay BY DEF UnderWay
    <2>3. \A t \in Sessions, v \in Vias : inbox'[t][v] # "none" => sock'[t][v] = "waiting"
      BY <1>2, <1>3 DEF EventInv, LiveInv
    <2> QED BY <1>0, <1>1, <1>2, <1>3, <1>5, <2>1, <2>2, <2>3, LiveAdded DEF EventInv, Alike
  <1>7. WorkInv'
    <2>1. \A r \in UnderWay' : r.kind = "inference" => r \in UnderWay
      BY <1>1, <1>3 DEF UnderWay
    <2>2. \A r \in UnderWay : life'[r.sess] = life[r.sess] BY <1>4, <1>5
    <2> QED BY <1>1, <2>1, <2>2 DEF EventInv, WorkInv, Current
  <1>8. LifeInv'
    <2> SUFFICES ASSUME NEW a \in Sessions, NEW b \in Sessions, a < b
                 PROVE  /\ life'[a] \in {"unborn", "setup", "ready"} => life'[b] = "unborn"
                        /\ ~restarted /\ ~refused /\ life'[a] \in Used =>
                             life'[b] \in {"unborn", "setup"}
      BY <1>1 DEF LifeInv
    <2>0. b # a BY DEF Sessions
    <2>1. CASE a = s BY <2>0, <2>1, <1>1, <1>4 DEF EventInv, LifeInv, Used
    <2>2. CASE b = s
      <3>1. a \in 1..(s - 1) BY <2>2 DEF Sessions
      <3> QED BY <2>2, <3>1, <1>1, <1>4 DEF EventInv, LifeInv
    <2>3. CASE a # s /\ b # s BY <2>3, <1>4 DEF EventInv, LifeInv
    <2> QED BY <2>1, <2>2, <2>3
  <1>9. NumberInv'
    <2> SUFFICES ASSUME NEW t \in Sessions PROVE NumberOf(t)' BY DEF NumberInv
    <2>1. NumberOf(t) BY DEF EventInv, NumberInv
    <2>2. life'[t] = life[t] \/ seq[t] = 0 BY <1>1, <1>4, <2>1 DEF NumberOf, Held, Used
    <2> QED BY <1>1, <2>1, <2>2, NumberKept
  <1>10. OrderInv'
    <2>1. \A r \in requests' : r.kind = "inference" => \E p \in requests : Alike(r, p)
      BY <1>3 DEF Alike
    <2>2. serving' # NoRequest => serving # NoRequest /\ Alike(serving', serving)
      BY <1>1 DEF Alike
    <2> QED BY <1>1, <2>1, <2>2, EventsAside DEF EventInv
  <1>11. CleanInv' BY <1>1, <1>4, CleanKept DEF EventInv, Used
  <1> QED BY <1>6, <1>7, <1>8, <1>9, <1>10, <1>11 DEF EventInv

\* A session in setup has no inference under way and no event on its line, so it starts clean.
LEMMA SetupEndsKeepsEvents ==
  ASSUME Inv, EventInv, Inv', NEW s \in Sessions, SetupEnds(s)
  PROVE  EventInv'
  <1> USE Constants
  <1> DEFINE ok == inbox[s]["rpc"] = "ok"
  <1>0. TypeOK BY DEF Inv
  <1>1. /\ life[s] = "setup"
        /\ life' = [life EXCEPT ![s] = IF ok THEN "ready" ELSE "failed"]
        /\ refused' = (refused \/ ~ok)
        /\ UNCHANGED <<drv, cancelled, seq, pending, heard, acked, ended, outcome,
                       made, task, restarted, line, spread, ops, abandoned, missed>>
    BY DEF SetupEnds
  <1>2. /\ sock' = [sock EXCEPT ![s]["rpc"] = "idle"]
        /\ inbox' = [inbox EXCEPT ![s]["rpc"] = "none"]
        /\ \/ UNCHANGED <<requests, serving>> /\ inbox[s]["rpc"] # "none"
           \/ /\ requests' \in Orphans(s, {"rpc"})
              /\ serving' = LeftBehind(serving, s, "rpc")
    BY DEF SetupEnds, Receive, Reconnect
  <1>3. /\ sock'[s]["rpc"] = "idle" /\ inbox'[s]["rpc"] = "none"
        /\ \A t \in Sessions, v \in Vias : t # s \/ v # "rpc" =>
             sock'[t][v] = sock[t][v] /\ inbox'[t][v] = inbox[t][v]
    BY <1>0, <1>2, Frees
  <1>4. /\ life'[s] = (IF ok THEN "ready" ELSE "failed")
        /\ \A t \in Sessions : t # s => life'[t] = life[t]
    BY <1>0, <1>1 DEF TypeOK
  <1>5. \A r \in UnderWay : /\ r.sess \in Sessions /\ r.via \in Vias
                            /\ r.kind = "inference" => r.sess # s
    <2>1. \A r \in UnderWay : r \in RequestType BY <1>0 DEF TypeOK, UnderWay
    <2> QED BY <1>1, <2>1 DEF Inv, KindInv, RequestType
  <1>6. /\ Fewer
        /\ \A r \in UnderWay' : r.live => r.sess # s \/ r.via # "rpc"
        /\ \A r \in UnderWay' : r.kind = "inference" => r \in UnderWay
    <2>1. CASE UNCHANGED <<requests, serving>> /\ inbox[s]["rpc"] # "none"
      <3>1. UnderWay' = UnderWay BY <2>1 DEF UnderWay
      <3>2. \A r \in UnderWay : r.live => r.sess # s \/ r.via # "rpc"
        BY <2>1 DEF EventInv, LiveInv
      <3> QED BY <2>1, <3>1, <3>2 DEF Fewer, Alike
    <2>2. CASE requests' \in Orphans(s, {"rpc"}) /\ serving' = LeftBehind(serving, s, "rpc")
      <3>1. {"rpc"} \in SUBSET Vias /\ "rpc" \in {"rpc"} BY DEF Vias
      <3>2. /\ \A r \in requests' : \E p \in requests :
                 /\ Alike(r, p) /\ (r.live => r = p)
                 /\ r.live => ~(p.sess = s /\ p.via \in {"rpc"})
                 /\ p.sess # s => r = p
            /\ serving' # NoRequest =>
                 /\ serving # NoRequest /\ Alike(serving', serving)
                 /\ serving'.live => serving' = serving /\ serving'.sess # s
                 /\ serving.sess # s => serving' = serving
        BY <2>2, <3>1, Freed DEF EventInv
      <3>3. Fewer BY <3>2 DEF Fewer
      <3>4. ASSUME NEW r \in UnderWay' 
            PROVE  /\ r.live => r.sess # s \/ r.via # "rpc"
                   /\ r.kind = "inference" => r \in UnderWay
        <4>1. CASE r \in requests' BY <3>2, <4>1, <1>5 DEF UnderWay, Alike
        <4>2. CASE r \notin requests' BY <3>2, <3>4, <4>2, <1>5 DEF UnderWay, Alike
        <4> QED BY <4>1, <4>2
      <3> QED BY <3>3, <3>4
    <2> QED BY <1>2, <2>1, <2>2
  <1>7. LiveInv'
    <2>1. \A t \in Sessions, v \in Vias : inbox'[t][v] # "none" => sock'[t][v] = "waiting"
      BY <1>3 DEF EventInv, LiveInv
    <2>2. \A r \in UnderWay : r \in UnderWay' /\ r.live =>
            /\ sock'[r.sess][r.via] = sock[r.sess][r.via]
            /\ inbox'[r.sess][r.via] = inbox[r.sess][r.via]
      BY <1>3, <1>5, <1>6
    <2> QED BY <1>6, <2>1, <2>2, LiveKept DEF EventInv
  <1>8. WorkInv'
    <2>1. \A r \in UnderWay : r.kind = "inference" => life'[r.sess] = life[r.sess]
      BY <1>4, <1>5
    <2> QED BY <1>1, <1>6, <2>1 DEF EventInv, WorkInv, Current
  <1>9. LifeInv'
    <2> SUFFICES ASSUME NEW a \in Sessions, NEW b \in Sessions, a < b
                 PROVE  /\ life'[a] \in {"unborn", "setup", "ready"} => life'[b] = "unborn"
                        /\ ~restarted /\ ~refused' /\ life'[a] \in Used =>
                             life'[b] \in {"unborn", "setup"}
      BY <1>1 DEF LifeInv
    <2>1. CASE a = s BY <2>1, <1>1, <1>4 DEF EventInv, LifeInv, Used
    <2>2. CASE b = s
      <3>1. life[a] \notin {"unborn", "setup", "ready"} /\ life'[a] = life[a]
        BY <2>2, <1>1, <1>4 DEF EventInv, LifeInv
      <3>2. ASSUME ~restarted, ~refused', life[a] \in Used PROVE FALSE
        <4>1. ~refused /\ ok BY <3>2, <1>1
        <4>2. task = a /\ task = s BY <3>2, <4>1, <1>1 DEF Inv, TaskInv
        <4> QED BY <4>2, <2>2 DEF Sessions
      <3> QED BY <3>1, <3>2
    <2>3. CASE a # s /\ b # s BY <2>3, <1>1, <1>4 DEF EventInv, LifeInv
    <2> QED BY <2>1, <2>2, <2>3
  <1>10. NumberInv /\ seq[s] = 0 /\ line[s] = <<>>
    <2>1. NumberInv /\ NumberOf(s) BY DEF EventInv, NumberInv
    <2>2. seq[s] = 0 BY <2>1, <1>1 DEF NumberOf, Held, Used
    <2>3. line[s] \in Seq(EventType) BY <1>0 DEF TypeOK
    <2>4. ASSUME line[s] # <<>> PROVE FALSE
      <3>1. 1 \in 1..Len(line[s]) /\ line[s][1] \in EventType
        <4>1. Len(line[s]) \in Nat /\ Len(line[s]) # 0 BY <2>3, <2>4, EmptySeq, LenProperties
        <4>2. 1 \in 1..Len(line[s]) BY <4>1
        <4> QED BY <4>2, <2>3, ElementOfSeq
      <3>2. line[s][1].rid \in Nat BY <3>1 DEF EventType
      <3> QED BY <2>1, <2>2, <3>1, <3>2 DEF NumberOf
    <2> QED BY <2>1, <2>2, <2>4
  <1>11. NumberInv'
    <2> SUFFICES ASSUME NEW t \in Sessions PROVE NumberOf(t)' BY DEF NumberInv
    <2>1. NumberOf(t) BY <1>10 DEF NumberInv
    <2>2. life'[t] = life[t] \/ seq[t] = 0 BY <1>4, <1>10
    <2> QED BY <1>1, <2>1, <2>2, NumberKept
  <1>12. OrderInv' BY <1>1, <1>6, EventsAside DEF EventInv, Fewer
  <1>13. CleanInv' BY <1>1, <1>4, <1>10, CleanKept DEF EventInv
  <1> QED BY <1>7, <1>8, <1>9, <1>11, <1>12, <1>13 DEF EventInv

\* Steps that call cancel(), or end its call: no request is sent that concerns the events.
LEMMA FlagKeepsEvents ==
  ASSUME Inv, EventInv, CtlInv, NEW s \in Sessions,
         Cancel(s) \/ Release(s) \/ Destroy(s) \/ CallEnds(s)
  PROVE  EventInv'
  <1>0. TypeOK BY DEF Inv
  <1>1. /\ \A t \in Sessions : t # s => life'[t] = life[t]
        /\ life'[s] = life[s] \/ (life[s] \in Used \cup {"failed"} /\ life'[s] \in {"released", "leaving"})
        /\ life'[s] \in Used => life[s] \in Used
    <2>1. CASE Cancel(s) BY <2>1 DEF Cancel, Used
    <2>2. CASE Release(s) BY <1>0, <2>2 DEF Release, TypeOK, Used
    <2>3. CASE Destroy(s) BY <1>0, <2>3 DEF Destroy, TypeOK, Used
    <2>4. CASE CallEnds(s) BY <2>4 DEF CallEnds, client
    <2> QED BY <2>1, <2>2, <2>3, <2>4
  <1>2. UNCHANGED <<drv, seq, heard, acked, ended, outcome, inbox, requests, serving, made,
                    restarted, line, spread, refused, abandoned, missed>>
    <2>1. CASE RaiseFlag(s) BY <1>0, <2>1, FlagRaised
    <2>2. CASE CallEnds(s) BY <2>2 DEF CallEnds, client, node
    <2> QED BY <2>1, <2>2 DEF Cancel, Release, Destroy
  <1>3. /\ UnderWay' = UnderWay
        /\ \A r \in UnderWay : r.sess \in Sessions /\ r.via \in Vias
    BY <1>0, <1>2 DEF UnderWay, TypeOK, RequestType
  <1>4. LiveInv'
    <2>1. CASE RaiseFlag(s)
      <3>1. \A t \in Sessions, v \in Vias : sock[t][v] = "waiting" => sock'[t][v] = "waiting"
        <4>1. /\ sock'[s]["ctl"] # "idle"
              /\ sock'[s]["ctl"] = "broken" <=> sock[s]["ctl"] = "broken"
              /\ \A t \in Sessions, v \in Vias : t # s \/ v # "ctl" => sock'[t][v] = sock[t][v]
              /\ sock'[s]["ctl"] \in {"idle", "waiting", "broken"}
          BY <1>0, <2>1, FlagRaised, Constants DEF SockType
        <4> QED BY <4>1
      <3> QED BY <1>2, <1>3, <3>1 DEF EventInv, LiveInv
    <2>2. CASE CallEnds(s)
      <3>1. /\ life[s] # "quitting" /\ inbox[s]["ctl"] = "none" /\ life[s] # "gone"
        BY <2>2 DEF CallEnds, CtlInv, Inv, SockInv
      <3>2. \A t \in Sessions, v \in Vias : t # s \/ v # "ctl" => sock'[t][v] = sock[t][v]
        <4>1. PICK c \in {"idle", "broken"} : sock' = [sock EXCEPT ![s]["ctl"] = c]
          BY <2>2 DEF CallEnds
        <4> QED BY <1>0, <4>1 DEF TypeOK
      <3>3. \A r \in UnderWay : r.sess # s \/ r.via # "ctl" BY <3>1 DEF Inv, KindInv
      <3> QED BY <1>2, <1>3, <3>1, <3>2, <3>3 DEF EventInv, LiveInv
    <2> QED BY <2>1, <2>2 DEF Cancel, Release, Destroy
  <1>5. WorkInv'
    <2>1. \A t \in Sessions : life[t] = "gone" => life'[t] = "gone" BY <1>1 DEF Used
    <2>2. \A t \in Sessions : life'[t] # "gone" => life[t] # "gone" BY <2>1
    <2> QED BY <1>2, <1>3, <2>2 DEF EventInv, WorkInv, Current
  <1>6. LifeInv' BY <1>1, <1>2, LifeKept DEF EventInv, Used
  <1>7. NumberInv'
    <2> SUFFICES ASSUME NEW t \in Sessions PROVE NumberOf(t)' BY DEF NumberInv
    <2>1. NumberOf(t) BY DEF EventInv, NumberInv
    <2>2. life'[t] \in Held \/ life'[t] = life[t] BY <1>1 DEF Held, Used
    <2> QED BY <1>2, <2>1, <2>2, NumberKept
  <1>8. OrderInv'
    <2>1. \A r \in requests' : r.kind = "inference" => \E p \in requests : Alike(r, p)
      BY <1>2 DEF Alike
    <2>2. serving' # NoRequest => serving # NoRequest /\ Alike(serving', serving)
      BY <1>2 DEF Alike
    <2> QED BY <1>2, <2>1, <2>2, EventsAside DEF EventInv
  <1>9. CleanInv' BY <1>1, <1>2, CleanKept DEF EventInv
  <1> QED BY <1>4, <1>5, <1>6, <1>7, <1>8, <1>9 DEF EventInv

\* The exit goes over the ctl socket, if that awaits nothing.
LEMMA LeaveKeepsEvents ==
  ASSUME Inv, EventInv, Inv', NEW s \in Sessions, Leave(s)
  PROVE  EventInv'
  <1> USE Constants
  <1>0. TypeOK /\ TypeOK' /\ 0 \in 0..MaxOps BY DEF Inv
  <1>1. /\ life[s] = "leaving" /\ life' = [life EXCEPT ![s] = "quitting"]
        /\ UNCHANGED <<drv, seq, heard, acked, ended, outcome, serving, made, restarted,
                       line, spread, refused, abandoned, missed>>
    BY DEF Leave, node
  <1>2. /\ life'[s] = "quitting" /\ \A t \in Sessions : t # s => life'[t] = life[t]
    BY <1>0, <1>1 DEF TypeOK
  <1>3. \A r \in UnderWay : r.sess \in Sessions /\ r.via \in Vias
    <2>1. \A r \in UnderWay : r \in RequestType BY <1>0 DEF TypeOK, UnderWay
    <2> QED BY <2>1 DEF RequestType
  <1> DEFINE q == Request(s, "ctl", "exit", 0)
  <1>4. /\ q.sess = s /\ q.via = "ctl" /\ q.kind = "exit" /\ q.live
    BY <1>0, RequestMade
  <1>5. /\ requests' \subseteq requests \cup {q}
        /\ LiveInv'
    <2>1. CASE sock[s]["ctl"] = "idle"
      <3>1. /\ requests' = requests \cup {q} /\ inbox' = inbox
            /\ sock'[s]["ctl"] = "waiting"
            /\ \A t \in Sessions, v \in Vias : t # s \/ v # "ctl" => sock'[t][v] = sock[t][v]
        BY <1>0, <2>1, Sends DEF Leave
      <3> HIDE DEF q
      <3>2. inbox[s]["ctl"] = "none" BY <2>1 DEF EventInv, LiveInv
      <3>3. \A r \in UnderWay : r.live => r.sess # s \/ r.via # "ctl"
        BY <2>1 DEF EventInv, LiveInv
      <3>4. serving' # NoRequest => serving \in UnderWay BY <1>1 DEF UnderWay
      <3>5. \A r \in requests : r \in UnderWay BY DEF UnderWay
      <3>6. \A t \in Sessions, v \in Vias : inbox'[t][v] # "none" => sock'[t][v] = "waiting"
        BY <3>1, <3>2 DEF EventInv, LiveInv
      <3>7. LiveInv'
        BY <1>0, <1>1, <1>3, <1>4, <3>1, <3>2, <3>3, <3>4, <3>5, <3>6, LiveAdded
        DEF EventInv, Alike
      <3> QED BY <3>1, <3>7
    <2>2. CASE sock[s]["ctl"] # "idle"
      <3>1. UNCHANGED <<sock, inbox, requests>> BY <2>2 DEF Leave, wires
      <3>2. UnderWay' = UnderWay BY <1>1, <3>1 DEF UnderWay
      <3> QED BY <1>1, <3>1, <3>2 DEF EventInv, LiveInv
    <2> QED BY <2>1, <2>2
  <1> HIDE DEF q
  <1>8. WorkInv'
    <2>1. \A r \in UnderWay' : r.kind = "inference" => r \in UnderWay
      BY <1>1, <1>4, <1>5 DEF UnderWay
    <2>2. \A r \in UnderWay : life'[r.sess] # "gone" => life[r.sess] # "gone"
      BY <1>1, <1>2, <1>3
    <2> QED BY <1>1, <2>1, <2>2 DEF EventInv, WorkInv, Current
  <1>9. LifeInv' BY <1>1, <1>2, LifeKept DEF EventInv, Used
  <1>10. NumberInv'
    <2> SUFFICES ASSUME NEW t \in Sessions PROVE NumberOf(t)' BY DEF NumberInv
    <2>1. NumberOf(t) BY DEF EventInv, NumberInv
    <2>2. life'[t] = life[t] \/ life'[t] \in Held BY <1>2 DEF Held
    <2> QED BY <1>1, <2>1, <2>2, NumberKept
  <1>11. OrderInv'
    <2>1. \A r \in requests' : r.kind = "inference" => \E p \in requests : Alike(r, p)
      BY <1>4, <1>5 DEF Alike
    <2>2. serving' # NoRequest => serving # NoRequest /\ Alike(serving', serving)
      BY <1>1 DEF Alike
    <2> QED BY <1>1, <2>1, <2>2, EventsAside DEF EventInv
  <1>12. CleanInv' BY <1>1, <1>2, CleanKept DEF EventInv, Used
  <1> QED BY <1>5, <1>8, <1>9, <1>10, <1>11, <1>12 DEF EventInv

\* Of a session that is gone only requests without a socket remain, and its numbers end.
LEMMA VanishKeepsEvents ==
  ASSUME Inv, EventInv, NEW s \in Sessions, Vanish(s)
  PROVE  EventInv'
  <1> USE Constants
  <1>0. TypeOK BY DEF Inv
  <1>1. /\ life[s] = "quitting" /\ life' = [life EXCEPT ![s] = "gone"]
        /\ requests' \in Orphans(s, Vias)
        /\ serving' = LeftBehind(serving, s, "rpc")
        /\ sock' = [sock EXCEPT ![s] = [v \in Vias |-> "idle"]]
        /\ inbox' = [inbox EXCEPT ![s] = [v \in Vias |-> "none"]]
        /\ UNCHANGED <<drv, made, restarted, refused, abandoned, missed>>
    BY DEF Vanish, history, exits
  <1>2. /\ line' = [line EXCEPT ![s] = <<>>] /\ heard' = [heard EXCEPT ![s] = <<>>]
        /\ seq' = [seq EXCEPT ![s] = 0] /\ spread' = [spread EXCEPT ![s] = 0]
        /\ acked' = [acked EXCEPT ![s] = FALSE] /\ ended' = [ended EXCEPT ![s] = FALSE]
        /\ outcome' = [outcome EXCEPT ![s] = "none"]
    BY DEF Vanish
  <1>3. /\ life'[s] = "gone" /\ line'[s] = <<>> /\ heard'[s] = <<>> /\ seq'[s] = 0
        /\ spread'[s] = 0 /\ ~ended'[s] /\ outcome'[s] = "none"
        /\ \A v \in Vias : sock'[s][v] = "idle" /\ inbox'[s][v] = "none"
    BY <1>0, <1>1, <1>2 DEF TypeOK
  <1>4. \A t \in Sessions : t # s =>
          /\ life'[t] = life[t] /\ line'[t] = line[t] /\ heard'[t] = heard[t]
          /\ seq'[t] = seq[t] /\ spread'[t] = spread[t] /\ ended'[t] = ended[t]
          /\ acked'[t] = acked[t] /\ outcome'[t] = outcome[t]
          /\ sock'[t] = sock[t] /\ inbox'[t] = inbox[t]
    BY <1>0, <1>1, <1>2 DEF TypeOK
  <1>5. /\ \A r \in UnderWay : r.sess \in Sessions /\ r.via \in Vias /\ r.rid \in Nat
        /\ drv[s] # "polling"
    <2>1. \A r \in UnderWay : r \in RequestType BY <1>0 DEF TypeOK, UnderWay
    <2>2. drv[s] # "polling" BY <1>1 DEF Inv, SockInv, Used
    <2> QED BY <2>1, <2>2 DEF RequestType
  <1>6. /\ \A r \in requests' : \E p \in requests :
             /\ Alike(r, p) /\ (r.live => r = p)
             /\ r.live => p.sess # s
             /\ p.sess # s => r = p
        /\ serving' # NoRequest =>
             /\ serving # NoRequest /\ Alike(serving', serving)
             /\ serving'.live => serving' = serving /\ serving'.sess # s
             /\ serving.sess # s => serving' = serving
    <2>1. Vias \in SUBSET Vias /\ "rpc" \in Vias BY DEF Vias
    <2>2. /\ \A r \in requests' : \E p \in requests :
              /\ Alike(r, p) /\ (r.live => r = p)
              /\ r.live => ~(p.sess = s /\ p.via \in Vias)
              /\ p.sess # s => r = p
          /\ serving' # NoRequest =>
               /\ serving # NoRequest /\ Alike(serving', serving)
               /\ serving'.live => serving' = serving /\ serving'.sess # s
               /\ serving.sess # s => serving' = serving
      BY <1>1, <2>1, Freed DEF EventInv
    <2>3. \A p \in requests : p.via \in Vias BY <1>5 DEF UnderWay
    <2> QED BY <2>2, <2>3
  <1>7. Fewer BY <1>6 DEF Fewer
  <1>8. \A r \in UnderWay' : /\ r.live => r.sess # s
                             /\ \E p \in UnderWay : Alike(r, p) /\ (p.sess # s => r = p)
    <2> SUFFICES ASSUME NEW r \in UnderWay'
                 PROVE  /\ r.live => r.sess # s
                        /\ \E p \in UnderWay : Alike(r, p) /\ (p.sess # s => r = p)
      OBVIOUS
    <2>1. CASE r \in requests' BY <1>6, <2>1 DEF UnderWay, Alike
    <2>2. CASE r \notin requests'
      <3>1. r = serving' /\ serving' # NoRequest BY <2>2 DEF UnderWay
      <3>2. serving \in UnderWay BY <1>6, <3>1 DEF UnderWay
      <3> QED BY <1>6, <3>1, <3>2
    <2> QED BY <2>1, <2>2
  <1>9. LiveInv'
    <2>1. \A t \in Sessions, v \in Vias : inbox'[t][v] # "none" => sock'[t][v] = "waiting"
      BY <1>3, <1>4 DEF EventInv, LiveInv
    <2>2. \A r \in UnderWay : r \in UnderWay' /\ r.live =>
            /\ sock'[r.sess][r.via] = sock[r.sess][r.via]
            /\ inbox'[r.sess][r.via] = inbox[r.sess][r.via]
      BY <1>4, <1>5, <1>8
    <2> QED BY <1>7, <2>1, <2>2, LiveKept DEF EventInv
  <1>10. WorkInv'
    <2>1. \A r \in UnderWay : r.kind = "inference" /\ r.sess = s => s \in abandoned
      BY <1>5 DEF EventInv, WorkInv
    <2>2. ASSUME NEW r \in UnderWay', r.kind = "inference"
          PROVE  \E p \in UnderWay :
           /\ Alike(r, p)
           /\ r = p \/ p.sess \in abandoned'
           /\ life'[p.sess] # "gone" =>
                /\ life[p.sess] # "gone" /\ seq'[p.sess] = seq[p.sess]
                /\ (r = p \/ p.rid # seq[p.sess] - 1)
           /\ life'[p.sess] = "gone" => seq'[p.sess] = 0
      <3>1. PICK p \in UnderWay : Alike(r, p) /\ (p.sess # s => r = p) BY <1>8
      <3>2. p.sess \in Sessions /\ p.kind = "inference" BY <1>5, <2>2, <3>1 DEF Alike
      <3>3. CASE p.sess = s BY <1>1, <1>3, <2>1, <3>1, <3>2, <3>3
      <3>4. CASE p.sess # s
        <4>1. life[p.sess] = "gone" => seq[p.sess] = 0
          BY <3>2 DEF EventInv, NumberInv, NumberOf, Held, Used
        <4> QED BY <1>4, <3>1, <3>2, <3>4, <4>1
      <3> QED BY <3>3, <3>4
    <2>3. \A r \in UnderWay' : r.kind = "inference" /\ r.sess \notin abandoned' =>
            drv'[r.sess] = drv[r.sess] /\ acked'[r.sess] = acked[r.sess]
      <3> SUFFICES ASSUME NEW r \in UnderWay', r.kind = "inference", r.sess \notin abandoned'
                   PROVE  drv'[r.sess] = drv[r.sess] /\ acked'[r.sess] = acked[r.sess]
        OBVIOUS
      <3>1. PICK p \in UnderWay : Alike(r, p) BY <1>8
      <3>2. p.sess \in Sessions /\ p.sess = r.sess /\ p.kind = "inference"
        BY <1>5, <3>1 DEF Alike
      <3>3. p.sess # s BY <1>1, <2>1, <3>2
      <3> QED BY <1>1, <1>4, <3>2, <3>3
    <2> QED BY <1>1, <2>2, <2>3, WorkKept DEF EventInv
  <1>11. LifeInv' BY <1>1, <1>3, <1>4, LifeKept DEF EventInv, Used
  <1>12. 1..Len(<<>>) = {} BY EmptySeq
  <1>13. NumberInv'
    <2> SUFFICES ASSUME NEW t \in Sessions PROVE NumberOf(t)' BY DEF NumberInv
    <2>1. NumberOf(t) BY DEF EventInv, NumberInv
    <2>2. CASE t = s BY <2>2, <1>3, <1>12 DEF NumberOf
    <2>3. CASE t # s
      <3>1. life'[t] = life[t] BY <1>4, <2>3
      <3> QED BY <1>4, <2>1, <2>3, <3>1, NumberKept
    <2> QED BY <2>2, <2>3
  <1>14. OrderInv'
    <2> SUFFICES ASSUME NEW t \in Sessions PROVE OrderOf(t)' BY DEF OrderInv
    <2>1. CASE t = s
      <3>1. \A i \in 1..Len(line'[s]) : ~Mine(s, seq'[s] - 1, line'[s][i]) BY <1>3, <1>12
      <3>2. /\ InOrder(s, seq'[s] - 1, <<>>, line'[s])
            /\ Numbers(s, seq'[s] - 1, <<>>, line'[s]) = {}
        BY <3>1, NothingInOrder
      <3> QED BY <2>1, <1>3, <3>2 DEF OrderOf, Present, Gapless
    <2>2. CASE t # s
      <3>1. serving' # NoRequest /\ Current(t, serving)' =>
              serving # NoRequest /\ Current(t, serving) /\ made' = made
        BY <1>1, <1>4, <1>7, <2>2 DEF Current, Alike, Fewer
      <3>2. OrderOf(t) /\ missed' = missed BY <1>1 DEF EventInv, OrderInv
      <3>3. \A r \in requests' : r.kind = "inference" /\ r.sess = t =>
              \E p \in requests : Alike(r, p)
        BY <1>6
      <3> QED BY <1>4, <2>2, <3>1, <3>2, <3>3, OrderKept
    <2> QED BY <2>1, <2>2
  <1>15. CleanInv' BY <1>1, <1>3, <1>4, CleanKept DEF EventInv
  <1> QED BY <1>9, <1>10, <1>11, <1>13, <1>14, <1>15 DEF EventInv

-----------------------------------------------------------------------------
(* The events, in drive_inference *)

\* What is under way has the types of requests.
LEMMA UnderWayType ==
  ASSUME TypeOK
  PROVE  \A r \in UnderWay :
           /\ r \in RequestType /\ r.sess \in Sessions /\ r.via \in Vias /\ r.rid \in Nat
           /\ r.live \in BOOLEAN
  <1>1. \A r \in UnderWay : r \in RequestType BY DEF TypeOK, UnderWay
  <1> QED BY <1>1, Constants DEF RequestType

\* A session that waits for an acknowledgement that has come, or has come already, has no
\* inference under way unless it gave up on one.
LEMMA NothingUnderWay ==
  ASSUME Inv, EventInv, NEW s \in Sessions,
         acked[s] \/ inbox[s]["rpc"] # "none" \/ drv[s] # "polling"
  PROVE  \A r \in UnderWay : r.kind = "inference" /\ r.sess = s => s \in abandoned
  <1> SUFFICES ASSUME NEW r \in UnderWay, r.kind = "inference", r.sess = s, s \notin abandoned
               PROVE  FALSE
    OBVIOUS
  <1>1. r.live /\ drv[s] = "polling" /\ ~acked[s] BY DEF EventInv, WorkInv
  <1>2. r.via = "rpc"
    <2>1. r.via \in Vias BY UnderWayType DEF Inv
    <2> QED BY <2>1 DEF Inv, KindInv, Vias
  <1>3. inbox[s]["rpc"] = "none" BY <1>1, <1>2 DEF EventInv, LiveInv
  <1> QED BY <1>1, <1>3

\* Either the acknowledgement has come, and nothing is under way, or the session gave up.
LEMMA EndsKeepEvents ==
  ASSUME Inv, EventInv, NEW s \in Sessions, Complete(s) \/ GiveUp(s)
  PROVE  EventInv'
  <1>0. TypeOK BY DEF Inv
  <1>1. UNCHANGED <<life, seq, heard, acked, ended, sock, inbox, requests, serving, made,
                    restarted, line, spread, refused, missed>>
    BY DEF Complete, GiveUp, wires, node, history, exits
  <1>2. /\ \A t \in Sessions : t # s => drv'[t] = drv[t] /\ outcome'[t] = outcome[t]
        /\ abandoned \subseteq abandoned'
        /\ s \in abandoned' \/ acked[s]
        /\ outcome'[s] = "ok" => ended[s]
    <2>1. CASE Complete(s) BY <1>0, <2>1 DEF TypeOK, Complete, Returns, history, exits
    <2>2. CASE GiveUp(s)
      <3>1. outcome' = [outcome EXCEPT ![s] = IF cancelled[s] THEN "cancelled" ELSE "timeout"]
        BY <2>2 DEF GiveUp, Returns
      <3>2. outcome'[s] # "ok" BY <1>0, <3>1 DEF TypeOK
      <3> QED BY <1>0, <2>2, <3>2 DEF TypeOK, GiveUp, Returns
    <2> QED BY <2>1, <2>2
  <1>3. /\ UnderWay' = UnderWay
        /\ \A r \in UnderWay : r.sess \in Sessions
        /\ \A r \in UnderWay : r.kind = "inference" /\ r.sess = s => s \in abandoned'
    <2>1. UnderWay' = UnderWay BY <1>1 DEF UnderWay
    <2> QED BY <1>0, <1>2, <2>1, UnderWayType, NothingUnderWay
  <1>4. LiveInv' BY <1>1, <1>3 DEF EventInv, LiveInv
  <1>5. WorkInv' BY <1>1, <1>2, <1>3 DEF EventInv, WorkInv, Current
  <1>6. LifeInv' BY <1>1 DEF EventInv, LifeInv
  <1>7. NumberInv'
    <2> SUFFICES ASSUME NEW t \in Sessions PROVE NumberOf(t)' BY DEF NumberInv
    <2>1. NumberOf(t) BY DEF EventInv, NumberInv
    <2> QED BY <1>1, <1>2, <2>1 DEF NumberOf
  <1>8. OrderInv'
    <2>1. \A r \in requests' : r.kind = "inference" => \E p \in requests : Alike(r, p)
      BY <1>1 DEF Alike
    <2>2. serving' # NoRequest => serving # NoRequest /\ Alike(serving', serving)
      BY <1>1 DEF Alike
    <2> QED BY <1>1, <2>1, <2>2, EventsAside DEF EventInv
  <1>9. CleanInv' BY <1>1, <1>2, CleanKept DEF EventInv
  <1> QED BY <1>4, <1>5, <1>6, <1>7, <1>8, <1>9 DEF EventInv

\* A reply that has arrived leaves no live request of the socket behind.
LEMMA TakeReplyKeepsEvents ==
  ASSUME Inv, EventInv, NEW s \in Sessions, TakeReply(s)
  PROVE  EventInv'
  <1> USE Constants
  <1>0. TypeOK BY DEF Inv
  <1>1. /\ drv[s] = "polling" /\ inbox[s]["rpc"] # "none"
        /\ sock' = [sock EXCEPT ![s]["rpc"] = "idle"]
        /\ inbox' = [inbox EXCEPT ![s]["rpc"] = "none"]
        /\ UNCHANGED <<requests, life, seq, heard, ended, serving, made, restarted,
                       line, spread, refused, abandoned, missed>>
    BY DEF TakeReply, Receive, node, history, exits
  <1>2. /\ sock'[s]["rpc"] = "idle" /\ inbox'[s]["rpc"] = "none"
        /\ \A t \in Sessions, v \in Vias : t # s \/ v # "rpc" =>
             sock'[t][v] = sock[t][v] /\ inbox'[t][v] = inbox[t][v]
    BY <1>0, <1>1, Frees
  <1>3. /\ \A t \in Sessions : t # s =>
             drv'[t] = drv[t] /\ acked'[t] = acked[t] /\ outcome'[t] = outcome[t]
        /\ outcome'[s] = "ok" => outcome[s] = "ok"
    <2>1. CASE acked' = [acked EXCEPT ![s] = TRUE] /\ UNCHANGED <<drv, outcome>>
      BY <1>0, <2>1 DEF TypeOK
    <2>2. CASE Returns(s, "error") /\ UNCHANGED acked BY <1>0, <2>2 DEF TypeOK, Returns
    <2> QED BY <2>1, <2>2 DEF TakeReply
  <1>4. /\ UnderWay' = UnderWay
        /\ \A r \in UnderWay : /\ r.sess \in Sessions /\ r.via \in Vias
                               /\ r.kind = "inference" /\ r.sess = s => s \in abandoned
                               /\ r.live => r.sess # s \/ r.via # "rpc"
    <2>1. UnderWay' = UnderWay BY <1>1 DEF UnderWay
    <2>2. \A r \in UnderWay : r.live => r.sess # s \/ r.via # "rpc"
      BY <1>1 DEF EventInv, LiveInv
    <2> QED BY <1>0, <1>1, <2>1, <2>2, UnderWayType, NothingUnderWay
  <1>5. LiveInv'
    <2>1. \A t \in Sessions, v \in Vias : inbox'[t][v] # "none" => sock'[t][v] = "waiting"
      BY <1>2 DEF EventInv, LiveInv
    <2>2. \A r \in UnderWay : r.live =>
            sock'[r.sess][r.via] = "waiting" /\ inbox'[r.sess][r.via] = "none"
      BY <1>2, <1>4 DEF EventInv, LiveInv
    <2> QED BY <1>1, <1>4, <2>1, <2>2 DEF EventInv, LiveInv
  <1>6. WorkInv' BY <1>1, <1>3, <1>4 DEF EventInv, WorkInv, Current
  <1>7. LifeInv' BY <1>1 DEF EventInv, LifeInv
  <1>8. NumberInv'
    <2> SUFFICES ASSUME NEW t \in Sessions PROVE NumberOf(t)' BY DEF NumberInv
    <2>1. NumberOf(t) BY DEF EventInv, NumberInv
    <2> QED BY <1>1, <1>3, <2>1 DEF NumberOf
  <1>9. OrderInv'
    <2>1. \A r \in requests' : r.kind = "inference" => \E p \in requests : Alike(r, p)
      BY <1>1 DEF Alike
    <2>2. serving' # NoRequest => serving # NoRequest /\ Alike(serving', serving)
      BY <1>1 DEF Alike
    <2> QED BY <1>1, <2>1, <2>2, EventsAside DEF EventInv
  <1>10. CleanInv' BY <1>1, CleanKept DEF EventInv
  <1> QED BY <1>5, <1>6, <1>7, <1>8, <1>9, <1>10 DEF EventInv

\* What is heard was the first on the line: it comes after all heard before it.
LEMMA HearKeepsEvents ==
  ASSUME Inv, EventInv, NEW s \in Sessions, Hear(s)
  PROVE  EventInv'
  <1> USE Constants
  <1>0. TypeOK BY DEF Inv
  <1> DEFINE e == Head(line[s])
             mine == e.rid = seq[s] - 1
             H == heard[s]
             L == line[s]
             k == seq[s] - 1
  <1>1. /\ drv[s] = "polling" /\ L # <<>>
        /\ heard' = IF mine THEN [heard EXCEPT ![s] = Append(@, e)] ELSE heard
        /\ ended' = [ended EXCEPT ![s] = @ \/ (mine /\ e.n = Events)]
        /\ line' = [line EXCEPT ![s] = Tail(@)]
        /\ UNCHANGED <<life, drv, seq, acked, outcome, sock, inbox,
                       requests, serving, made, restarted, spread, refused, abandoned, missed>>
    BY DEF Hear, wires, node, history, exits
  <1>2. L \in Seq(EventType) /\ H \in Seq(EventType) BY <1>0 DEF TypeOK
  <1>3. /\ line'[s] = Tail(L)
        /\ mine => heard'[s] = Append(H, e)
        /\ ~mine => heard'[s] = H
        /\ ended'[s] = (ended[s] \/ (mine /\ e.n = Events))
        /\ \A t \in Sessions : t # s =>
             line'[t] = line[t] /\ heard'[t] = heard[t] /\ ended'[t] = ended[t]
    BY <1>0, <1>1 DEF TypeOK
  <1>4. /\ Len(Tail(L)) = Len(L) - 1 /\ \A i \in 1..Len(Tail(L)) : Tail(L)[i] = L[i + 1]
        /\ e = L[1] /\ e \in EventType
        /\ Len(L) \in Nat /\ Len(L) >= 1
        /\ Len(H) \in Nat
    BY <1>1, <1>2, HeadTailProperties, EmptySeq, LenProperties
  <1>5. /\ Len(Append(H, e)) = Len(H) + 1 /\ Append(H, e)[Len(H) + 1] = e
        /\ \A i \in 1..Len(H) : Append(H, e)[i] = H[i]
    BY <1>2, <1>4, AppendProperties
  <1>6. UnderWay' = UnderWay BY <1>1 DEF UnderWay
  <1>7. LiveInv' /\ WorkInv' /\ LifeInv'
    BY <1>1, <1>6 DEF EventInv, LiveInv, WorkInv, LifeInv, Current
  <1> DEFINE T == Tail(L)
             A == Append(H, e)
  <1> HIDE DEF e, H, L, T, A
  <1>8. /\ line'[s] = T /\ (mine => heard'[s] = A) /\ (~mine => heard'[s] = H)
        /\ \A i \in 1..Len(T) : i + 1 \in 1..Len(L) /\ T[i] = L[i + 1]
        /\ e = L[1] /\ 1 \in 1..Len(L)
        /\ \A i \in 1..Len(A) : (i \in 1..Len(H) /\ A[i] = H[i]) \/ A[i] = e
        /\ \A i \in 1..Len(H) : i \in 1..Len(A) /\ A[i] = H[i]
        /\ Len(H) + 1 \in 1..Len(A) /\ A[Len(H) + 1] = e
    <2>1. /\ line'[s] = T /\ (mine => heard'[s] = A) /\ (~mine => heard'[s] = H)
      BY <1>3 DEF T, A
    <2>2. /\ Len(T) = Len(L) - 1 /\ \A i \in 1..Len(T) : T[i] = L[i + 1]
          /\ Len(A) = Len(H) + 1 /\ A[Len(H) + 1] = e
          /\ \A i \in 1..Len(H) : A[i] = H[i]
      BY <1>4, <1>5 DEF T, A
    <2>3. \A i \in 1..Len(A) : i \in 1..Len(H) \/ i = Len(H) + 1 BY <1>4, <2>2
    <2>4. Len(H) \in Nat /\ Len(L) \in Nat /\ Len(L) >= 1 /\ e = L[1] BY <1>4
    <2>5. \A i \in 1..Len(T) : i + 1 \in 1..Len(L) BY <2>2, <2>4
    <2>6. /\ \A i \in 1..Len(H) : i \in 1..Len(A)
          /\ Len(H) + 1 \in 1..Len(A) /\ 1 \in 1..Len(L)
      BY <2>2, <2>4
    <2> HIDE DEF mine
    <2> QED BY <2>1, <2>2, <2>3, <2>4, <2>5, <2>6
  <1>9. NumberInv'
    <2> SUFFICES ASSUME NEW t \in Sessions PROVE NumberOf(t)' BY DEF NumberInv
    <2>1. NumberOf(t) /\ NumberOf(s) BY DEF EventInv, NumberInv
    <2>2. CASE t # s BY <1>1, <1>3, <2>1, <2>2 DEF NumberOf
    <2>3. CASE t = s
      <3>1. /\ \A i \in 1..Len(L) : L[i].rid < seq[s]
            /\ \A i \in 1..Len(H) : H[i].rid = seq[s] - 1
            /\ ended[s] => \E i \in 1..Len(H) : H[i].n = Events
        BY <2>1 DEF NumberOf, L, H
      <3>2. \A i \in 1..Len(T) : T[i].rid < seq[s] BY <1>8, <3>1
      <3>3. CASE mine
        <4>1. \A i \in 1..Len(A) : A[i].rid = seq[s] - 1 BY <1>8, <3>1, <3>3
        <4>2. ended[s] \/ e.n = Events => \E i \in 1..Len(A) : A[i].n = Events
          BY <1>8, <3>1
        <4>3. /\ heard'[s] = A /\ line'[s] = T /\ ended'[s] = (ended[s] \/ e.n = Events)
              /\ life' = life /\ seq' = seq /\ spread' = spread /\ outcome' = outcome
          BY <1>1, <1>3, <1>8, <3>3
        <4> HIDE DEF mine
        <4> QED BY <2>1, <2>3, <3>2, <4>1, <4>2, <4>3 DEF NumberOf
      <3>4. CASE ~mine BY <1>1, <1>3, <1>8, <2>1, <2>3, <3>1, <3>2, <3>4 DEF NumberOf
      <3> QED BY <3>3, <3>4
    <2> QED BY <2>2, <2>3
  <1>10. OrderInv'
    <2> SUFFICES ASSUME NEW t \in Sessions PROVE OrderOf(t)' BY DEF OrderInv
    <2>1. OrderOf(t) /\ OrderOf(s) BY DEF EventInv, OrderInv
    <2>2. CASE t # s
      <3>1. \A r \in requests' : r.kind = "inference" => \E p \in requests : Alike(r, p)
        BY <1>1 DEF Alike
      <3>2. serving' # NoRequest /\ Current(t, serving)' =>
              serving # NoRequest /\ Current(t, serving) /\ made' = made
        BY <1>1 DEF Current
      <3> QED BY <1>1, <1>3, <2>1, <2>2, <3>1, <3>2, OrderKept
    <2>3. CASE t = s
      <3>1. InOrder(s, k, H, L) /\ Present(s) = Numbers(s, k, H, L)
        BY <2>1 DEF OrderOf, Present, H, L
      <3>2. Present(s)' = Numbers(s, k, heard'[s], T) BY <1>1, <1>8 DEF Present
      <3>3. InOrder(s, k, heard'[s], T) /\ Numbers(s, k, heard'[s], T) = Numbers(s, k, H, L)
        <4>1. L # <<>> /\ L \in Seq(EventType) /\ H \in Seq(EventType) BY <1>1, <1>2 DEF L
        <4>2. CASE mine
          <5>1. A = Append(H, Head(L)) /\ T = Tail(L) BY DEF A, T, e, L
          <5>2. heard'[s] = A BY <1>8, <4>2
          <5> QED BY <3>1, <4>1, <5>1, <5>2, HearInOrder
        <4>3. CASE ~mine
          <5>1. T = Tail(L) /\ e = Head(L) BY DEF T, e, L
          <5>2. ~Mine(s, k, Head(L)) BY <4>3, <5>1 DEF Mine
          <5>3. heard'[s] = H BY <1>8, <4>3
          <5> QED BY <3>1, <4>1, <5>1, <5>2, <5>3, SkipInOrder
        <4> QED BY <4>2, <4>3
      <3>4. Present(s)' = Present(s) BY <3>1, <3>2, <3>3
      <3>5. InOrder(s, seq[s] - 1, heard[s], line[s])' BY <1>1, <1>8, <3>3
      <3> HIDE DEF k
      <3> QED BY <1>1, <2>1, <2>3, <3>4, <3>5 DEF OrderOf, Current
    <2> QED BY <2>2, <2>3
  <1>11. CleanInv'
    <2> SUFFICES ASSUME NEW t \in Sessions, Clean(t)'
                 PROVE  /\ \A i \in 1..Len(heard'[t]) : heard'[t][i].sess = t
                        /\ life'[t] \in Used =>
                             \A i \in 1..Len(line'[t]) : line'[t][i].sess = t
      BY DEF CleanInv
    <2>1. Clean(t) BY <1>1 DEF Clean
    <2>2. /\ \A i \in 1..Len(heard[t]) : heard[t][i].sess = t
          /\ life[t] \in Used => \A i \in 1..Len(line[t]) : line[t][i].sess = t
      BY <2>1 DEF EventInv, CleanInv
    <2>3. CASE t # s BY <1>1, <1>3, <2>2, <2>3
    <2>4. CASE t = s
      <3>1. life[s] \in Used BY <1>1 DEF Inv, SockInv
      <3>2. /\ \A i \in 1..Len(H) : H[i].sess = s
            /\ \A i \in 1..Len(L) : L[i].sess = s
        BY <2>2, <2>4, <3>1 DEF H, L
      <3>3. \A i \in 1..Len(A) : A[i].sess = s BY <1>8, <3>2
      <3>4. \A i \in 1..Len(T) : T[i].sess = s BY <1>8, <3>2
      <3> QED BY <1>8, <2>4, <3>2, <3>3, <3>4
    <2> QED BY <2>3, <2>4
  <1> QED BY <1>7, <1>9, <1>10, <1>11 DEF EventInv

\* The new number is larger than that of any event on the line and any request under way.
LEMMA StartDriveKeepsEvents ==
  ASSUME Inv, EventInv, Inv', NEW s \in Sessions, StartDrive(s)
  PROVE  EventInv'
  <1> USE Constants
  <1>0. TypeOK /\ TypeOK' BY DEF Inv
  <1>1. /\ life[s] \in Used /\ drv[s] = "idle"
        /\ drv' = [drv EXCEPT ![s] = "polling"]
        /\ seq' = [seq EXCEPT ![s] = @ + 1]
        /\ heard' = [heard EXCEPT ![s] = <<>>] /\ outcome' = [outcome EXCEPT ![s] = "none"]
        /\ acked' = [acked EXCEPT ![s] = FALSE] /\ ended' = [ended EXCEPT ![s] = FALSE]
        /\ missed' = missed \ {s}
        /\ UNCHANGED <<life, made, restarted, line, spread, refused, abandoned>>
    BY DEF StartDrive, Used
  <1>2. /\ \A t \in Sessions : seq[t] \in Nat /\ spread[t] \in Nat
        /\ seq[s] \in 0..MaxOps
    BY <1>0 DEF TypeOK
  <1>3. /\ drv'[s] = "polling" /\ seq'[s] = seq[s] + 1 /\ heard'[s] = <<>>
        /\ outcome'[s] = "none" /\ ~acked'[s] /\ ~ended'[s]
        /\ \A t \in Sessions : t # s =>
             /\ drv'[t] = drv[t] /\ seq'[t] = seq[t] /\ heard'[t] = heard[t]
             /\ outcome'[t] = outcome[t] /\ acked'[t] = acked[t] /\ ended'[t] = ended[t]
    BY <1>0, <1>1 DEF TypeOK
  <1> DEFINE q == Request(s, "rpc", "inference", seq[s])
  <1>4. /\ q.sess = s /\ q.via = "rpc" /\ q.kind = "inference" /\ q.live /\ q.rid = seq[s]
    BY <1>2, RequestMade
  <1>5. /\ sock'[s]["rpc"] = "waiting" /\ inbox'[s]["rpc"] = "none"
        /\ \A t \in Sessions, v \in Vias : t # s \/ v # "rpc" =>
             sock'[t][v] = sock[t][v] /\ inbox'[t][v] = inbox[t][v]
        /\ \A r \in requests' : r = q \/ \E p \in requests :
             /\ Alike(r, p) /\ (r.live => r = p) /\ (p.sess # s => r = p)
             /\ r.live => r.sess # s \/ r.via # "rpc"
        /\ serving' # NoRequest =>
             /\ serving # NoRequest /\ Alike(serving', serving)
             /\ (serving'.live => serving' = serving) /\ (serving.sess # s => serving' = serving)
             /\ serving'.live => serving'.sess # s \/ serving'.via # "rpc"
    <2>1. CASE ~pending[s]
      <3>1. sock[s]["rpc"] = "idle" BY <1>1, <2>1 DEF Inv, SockInv
      <3>2. Send(s, "rpc", "inference", seq[s]) /\ UNCHANGED serving
        BY <2>1 DEF StartDrive
      <3>3. /\ requests' = requests \cup {q} /\ inbox' = inbox
            /\ sock'[s]["rpc"] = "waiting"
            /\ \A t \in Sessions, v \in Vias : t # s \/ v # "rpc" => sock'[t][v] = sock[t][v]
        BY <1>0, <1>2, <3>1, <3>2, Sends
      <3>4. inbox[s]["rpc"] = "none" BY <3>1 DEF EventInv, LiveInv
      <3>5. \A r \in UnderWay : r.live => r.sess # s \/ r.via # "rpc"
        BY <3>1 DEF EventInv, LiveInv
      <3>6. \A r \in requests : r.live => r.sess # s \/ r.via # "rpc" BY <3>5 DEF UnderWay
      <3>7. serving # NoRequest => (serving.live => serving.sess # s \/ serving.via # "rpc")
        BY <3>5 DEF UnderWay
      <3> HIDE DEF q
      <3> QED BY <3>2, <3>3, <3>4, <3>6, <3>7 DEF Alike
    <2>2. CASE pending[s]
      <3>0. PICK R \in Orphans(s, {"rpc"}) : requests' = R \cup {q} BY <2>2 DEF StartDrive
      <3>1. /\ requests' = R \cup {q}
            /\ serving' = LeftBehind(serving, s, "rpc")
            /\ sock' = [sock EXCEPT ![s]["rpc"] = "waiting"]
            /\ inbox' = [inbox EXCEPT ![s]["rpc"] = "none"]
        BY <2>2, <3>0 DEF StartDrive
      <3>2. /\ sock'[s]["rpc"] = "waiting" /\ inbox'[s]["rpc"] = "none"
            /\ \A t \in Sessions, v \in Vias : t # s \/ v # "rpc" =>
                 sock'[t][v] = sock[t][v] /\ inbox'[t][v] = inbox[t][v]
        <4>1. sock \in SockType /\ inbox \in InboxType BY <1>0 DEF TypeOK, SockType, InboxType
        <4>2. /\ sock'[s] = [sock[s] EXCEPT !["rpc"] = "waiting"]
              /\ inbox'[s] = [inbox[s] EXCEPT !["rpc"] = "none"]
              /\ \A t \in Sessions : t # s => sock'[t] = sock[t] /\ inbox'[t] = inbox[t]
              /\ sock[s] \in [Vias -> {"idle", "waiting", "broken"}]
              /\ inbox[s] \in [Vias -> {"none", "ok", "error"}]
          BY <3>1, <4>1 DEF SockType, InboxType
        <4> QED BY <4>2
      <3>3. {"rpc"} \in SUBSET Vias /\ "rpc" \in {"rpc"} OBVIOUS
      <3>4. /\ \A r \in R : \E p \in requests :
                 /\ Alike(r, p) /\ (r.live => r = p)
                 /\ r.live => ~(p.sess = s /\ p.via \in {"rpc"})
                 /\ p.sess # s => r = p
            /\ serving' # NoRequest =>
                 /\ serving # NoRequest /\ Alike(serving', serving)
                 /\ serving'.live => serving' = serving /\ serving'.sess # s
                 /\ serving.sess # s => serving' = serving
        BY <3>1, <3>3, Freed DEF EventInv
      <3> HIDE DEF q
      <3> QED BY <3>1, <3>2, <3>4
    <2> QED BY <2>1, <2>2
  <1> HIDE DEF q
  <1>6. \A r \in UnderWay' : r = q \/ \E p \in UnderWay :
          /\ Alike(r, p) /\ (p.sess # s => r = p)
          /\ r.live => r = p /\ (r.sess # s \/ r.via # "rpc")
    <2> SUFFICES ASSUME NEW r \in UnderWay', r # q
                 PROVE  \E p \in UnderWay :
                          /\ Alike(r, p) /\ (p.sess # s => r = p)
                          /\ r.live => r = p /\ (r.sess # s \/ r.via # "rpc")
      OBVIOUS
    <2>1. CASE r \in requests' BY <1>5, <2>1 DEF UnderWay
    <2>2. CASE r \notin requests'
      <3>1. r = serving' /\ serving' # NoRequest BY <2>2 DEF UnderWay
      <3>2. serving \in UnderWay BY <1>5, <3>1 DEF UnderWay
      <3> QED BY <1>5, <3>1, <3>2
    <2> QED BY <2>1, <2>2
  <1>7. \A r \in UnderWay :
          /\ r.sess \in Sessions /\ r.via \in Vias /\ r.rid \in Nat
          /\ r.kind = "inference" /\ r.sess = s => s \in abandoned /\ r.rid < seq[s]
    <2>1. \A r \in UnderWay : r.kind = "inference" /\ r.sess = s => s \in abandoned
      BY <1>1, NothingUnderWay
    <2>2. \A r \in UnderWay : r.kind = "inference" /\ r.sess = s => r.rid < seq[s]
      BY <1>1 DEF EventInv, WorkInv, Used
    <2> QED BY <1>0, <2>1, <2>2, UnderWayType
  <1>8. LiveInv'
    <2>1. \A t \in Sessions, v \in Vias : inbox'[t][v] # "none" => sock'[t][v] = "waiting"
      BY <1>5 DEF EventInv, LiveInv
    <2>2. \A r \in requests' : r = q \/ \E p \in requests : Alike(r, p) /\ (r.live => r = p)
      BY <1>5
    <2>3. \A r \in UnderWay : r \in UnderWay' /\ r.live /\ r # q =>
           /\ r.sess # q.sess \/ r.via # q.via
           /\ sock'[r.sess][r.via] = sock[r.sess][r.via]
           /\ inbox'[r.sess][r.via] = inbox[r.sess][r.via]
      BY <1>4, <1>5, <1>6, <1>7
    <2> QED BY <1>0, <1>4, <1>5, <2>1, <2>2, <2>3, LiveAdded DEF EventInv
  <1>9. WorkInv'
    <2> SUFFICES ASSUME NEW r \in UnderWay', r.kind = "inference"
                 PROVE  /\ life'[r.sess] # "gone" => r.rid < seq'[r.sess]
                        /\ Current(r.sess, r)' => r.live
                        /\ r.sess \notin abandoned' =>
                             drv'[r.sess] = "polling" /\ ~acked'[r.sess] /\ r.live
      BY DEF WorkInv, Current
    <2>1. CASE r = q BY <1>2, <1>3, <1>4, <2>1
    <2>2. CASE r # q
      <3>1. PICK p \in UnderWay : Alike(r, p) /\ (p.sess # s => r = p) BY <1>6, <2>2
      <3>2. /\ p.kind = "inference" /\ p.sess = r.sess /\ p.rid = r.rid
            /\ p.sess \in Sessions /\ p.rid \in Nat
        BY <1>7, <3>1 DEF Alike
      <3>3. CASE p.sess = s
        <4>1. s \in abandoned' /\ p.rid < seq[s] BY <1>1, <1>7, <3>2, <3>3
        <4>2. p.rid < seq'[s] /\ p.rid # seq'[s] - 1 BY <1>2, <1>3, <3>2, <4>1
        <4> QED BY <3>2, <3>3, <4>1, <4>2 DEF Current
      <3>4. CASE p.sess # s BY <1>1, <1>3, <3>1, <3>2, <3>4 DEF EventInv, WorkInv, Current
      <3> QED BY <3>3, <3>4
    <2> QED BY <2>1, <2>2
  <1>10. LifeInv' BY <1>1 DEF EventInv, LifeInv
  <1>11. 1..Len(<<>>) = {} BY EmptySeq
  <1>12. /\ NumberOf(s)
         /\ \A i \in 1..Len(line[s]) : line[s][i].rid \in Nat /\ line[s][i].rid < seq[s]
    <2>1. NumberOf(s) BY DEF EventInv, NumberInv
    <2>2. \A i \in 1..Len(line[s]) : line[s][i] \in EventType
      BY <1>0, ElementOfSeq DEF TypeOK
    <2>3. \A e \in EventType : e.rid \in Nat BY DEF EventType
    <2> QED BY <2>1, <2>2, <2>3 DEF NumberOf
  <1>13. NumberInv'
    <2> SUFFICES ASSUME NEW t \in Sessions PROVE NumberOf(t)' BY DEF NumberInv
    <2>1. NumberOf(t) BY DEF EventInv, NumberInv
    <2>2. CASE t # s BY <1>1, <1>3, <2>1, <2>2 DEF NumberOf
    <2>3. CASE t = s
      <3>1. spread[s] <= seq[s] + 1 BY <1>2, <1>12 DEF NumberOf
      <3>2. \A i \in 1..Len(line[s]) : line[s][i].rid < seq[s] + 1 BY <1>2, <1>12
      <3> QED BY <1>1, <1>3, <1>11, <2>3, <3>1, <3>2 DEF NumberOf, Held, Used
    <2> QED BY <2>2, <2>3
  <1>14. OrderInv'
    <2> SUFFICES ASSUME NEW t \in Sessions PROVE OrderOf(t)' BY DEF OrderInv
    <2>1. CASE t = s
      <3>1. \A i \in 1..Len(line[s]) : ~Mine(s, seq[s], line[s][i])
        BY <1>2, <1>12 DEF Mine
      <3>2. InOrder(s, seq[s], <<>>, line[s]) /\ Numbers(s, seq[s], <<>>, line[s]) = {}
        BY <3>1, NothingInOrder
      <3>3. seq'[s] - 1 = seq[s] BY <1>2, <1>3
      <3> QED BY <1>1, <1>3, <2>1, <3>2, <3>3 DEF OrderOf, Present, Gapless
    <2>2. CASE t # s
      <3>1. \A r \in requests' : r.kind = "inference" /\ r.sess = t =>
              \E p \in requests : Alike(r, p)
        BY <1>4, <1>5, <2>2
      <3>2. serving' # NoRequest /\ Current(t, serving)' =>
              serving # NoRequest /\ Current(t, serving) /\ made' = made
        BY <1>1, <1>3, <1>5, <2>2 DEF Current, Alike
      <3>3. OrderOf(t) BY DEF EventInv, OrderInv
      <3> QED BY <1>1, <1>3, <2>2, <3>1, <3>2, <3>3, OrderKept
    <2> QED BY <2>1, <2>2
  <1>15. CleanInv' BY <1>1, <1>3, CleanKept DEF EventInv
  <1> QED BY <1>8, <1>9, <1>10, <1>13, <1>14, <1>15 DEF EventInv

-----------------------------------------------------------------------------
(* The events, at the node *)

\* The request taken, if current, has no event yet.
LEMMA TakeKeepsEvents ==
  ASSUME Inv, EventInv, NEW r \in requests, Take(r)
  PROVE  EventInv'
  <1> USE Constants
  <1>0. TypeOK /\ r \in RequestType /\ r \in UnderWay BY DEF Inv, TypeOK, UnderWay
  <1>1. /\ serving = NoRequest /\ requests' = requests \ {r}
        /\ UNCHANGED <<life, drv, seq, heard, acked, ended, outcome,
                       sock, restarted, line, spread, refused, abandoned, missed>>
    BY DEF Take, client, history, exits
  <1>2. /\ \/ r.kind = "inference" /\ serving' = r /\ UNCHANGED inbox
           \/ UNCHANGED serving /\ \E reply \in {"ok", "error"} : Answer(r, reply)
    <2>1. CASE r.kind = "inference" /\ task # Nobody BY <2>1 DEF Take
    <2>2. CASE ~(r.kind = "inference" /\ task # Nobody)
      <3>1. /\ UNCHANGED serving
            /\ Answer(r, IF (r.kind = "setup") = (task = Nobody) THEN "ok" ELSE "error")
        BY <2>2 DEF Take
      <3> QED BY <3>1
    <2> QED BY <2>1, <2>2
  <1>3. \A q \in UnderWay' : q \in UnderWay BY <1>0, <1>1, <1>2 DEF UnderWay
  <1>4. LiveInv'
    <2>1. CASE r.kind = "inference" /\ serving' = r /\ UNCHANGED inbox
      <3>1. serving' # NoRequest /\ serving'.live => serving' \notin requests'
        BY <1>1, <2>1
      <3> QED BY <1>1, <1>3, <2>1, <3>1 DEF EventInv, LiveInv
    <2>2. CASE UNCHANGED serving /\ \E reply \in {"ok", "error"} : Answer(r, reply)
      <3>1. PICK reply \in {"ok", "error"} : Answer(r, reply) BY <2>2
      <3>2. \A t \in Sessions, v \in Vias : t # r.sess \/ v # r.via \/ ~r.live =>
              inbox'[t][v] = inbox[t][v]
        BY <1>0, <3>1, Answers
      <3>3. r.live => sock[r.sess][r.via] = "waiting" BY <1>0 DEF EventInv, LiveInv
      <3>4. \A t \in Sessions, v \in Vias : inbox'[t][v] # "none" => sock'[t][v] = "waiting"
        BY <1>1, <3>2, <3>3 DEF EventInv, LiveInv
      <3>5. \A q \in UnderWay' : q \in requests /\ q # r /\ q \in UnderWay
        BY <1>1, <2>2 DEF UnderWay
      <3>6. \A q \in UnderWay' : q.live => q.sess # r.sess \/ q.via # r.via \/ ~r.live
        BY <1>0, <3>5 DEF EventInv, LiveInv
      <3>7. \A q \in UnderWay' : q.live => inbox'[q.sess][q.via] = inbox[q.sess][q.via]
        BY <1>0, <3>2, <3>5, <3>6, UnderWayType
      <3> QED BY <1>1, <2>2, <3>4, <3>5, <3>7 DEF EventInv, LiveInv
    <2> QED BY <1>2, <2>1, <2>2
  <1>5. WorkInv' BY <1>1, <1>3 DEF EventInv, WorkInv, Current
  <1>6. LifeInv' BY <1>1 DEF EventInv, LifeInv
  <1>7. NumberInv' BY <1>1 DEF EventInv, NumberInv, NumberOf
  <1>8. OrderInv'
    <2> SUFFICES ASSUME NEW t \in Sessions PROVE OrderOf(t)' BY DEF OrderInv
    <2>1. OrderOf(t) BY DEF EventInv, OrderInv
    <2>2. Present(t)' = Present(t) BY <1>1 DEF Present
    <2>3. InOrder(t, seq[t] - 1, heard[t], line[t])' BY <1>1, <2>1 DEF OrderOf
    <2>4. serving' # NoRequest => serving' = r BY <1>1, <1>2
    <2>5. Current(t, r) => Present(t) = {} BY <2>1 DEF OrderOf
    <2> QED BY <1>1, <2>1, <2>2, <2>3, <2>4, <2>5 DEF OrderOf, Current
  <1>9. CleanInv' BY <1>1, CleanKept DEF EventInv
  <1> QED BY <1>4, <1>5, <1>6, <1>7, <1>8, <1>9 DEF EventInv

\* The answer leaves the events alone.
LEMMA FinishInferenceKeepsEvents ==
  ASSUME Inv, EventInv, FinishInference
  PROVE  EventInv'
  <1> USE Constants
  <1>0. TypeOK BY DEF Inv
  <1>1. /\ serving # NoRequest /\ serving' = NoRequest
        /\ UNCHANGED <<life, drv, seq, heard, acked, ended, outcome,
                       sock, requests, restarted, line, spread, refused, abandoned, missed>>
    BY DEF FinishInference, client, history, exits
  <1>2. PICK reply \in {"ok", "error"} : Answer(serving, reply) BY DEF FinishInference
  <1> DEFINE r == serving
  <1>3. r \in RequestType /\ r \in UnderWay BY <1>0, <1>1 DEF TypeOK, UnderWay
  <1>4. \A t \in Sessions, v \in Vias : t # r.sess \/ v # r.via \/ ~r.live =>
          inbox'[t][v] = inbox[t][v]
    BY <1>0, <1>2, <1>3, Answers
  <1>5. /\ \A q \in UnderWay' : q \in requests /\ q \in UnderWay
        /\ \A q \in requests' : q \in requests
    BY <1>1 DEF UnderWay
  <1>6. LiveInv'
    <2>1. r.live => sock[r.sess][r.via] = "waiting" BY <1>3 DEF EventInv, LiveInv
    <2>2. \A t \in Sessions, v \in Vias : inbox'[t][v] # "none" => sock'[t][v] = "waiting"
      BY <1>1, <1>4, <2>1 DEF EventInv, LiveInv
    <2>3. \A q \in UnderWay' : q.live => q.sess # r.sess \/ q.via # r.via \/ ~r.live
      BY <1>1, <1>3, <1>5 DEF EventInv, LiveInv
    <2>4. \A q \in UnderWay' : q.live => inbox'[q.sess][q.via] = inbox[q.sess][q.via]
      BY <1>0, <1>4, <1>5, <2>3, UnderWayType
    <2> QED BY <1>1, <1>5, <2>2, <2>4 DEF EventInv, LiveInv
  <1>7. WorkInv' BY <1>1, <1>5 DEF EventInv, WorkInv, Current
  <1>8. LifeInv' BY <1>1 DEF EventInv, LifeInv
  <1>9. NumberInv' BY <1>1 DEF EventInv, NumberInv, NumberOf
  <1>10. OrderInv'
    <2> SUFFICES ASSUME NEW t \in Sessions PROVE OrderOf(t)' BY DEF OrderInv
    <2>1. \A q \in requests' : q.kind = "inference" /\ q.sess = t =>
            \E p \in requests : Alike(q, p)
      BY <1>5 DEF Alike
    <2> QED BY <1>1, <2>1, OrderKept DEF EventInv, OrderInv
  <1>11. CleanInv' BY <1>1, CleanKept DEF EventInv
  <1> QED BY <1>6, <1>7, <1>8, <1>9, <1>10, <1>11 DEF EventInv

\* A restart forgets the subscriptions, the task and the inference in execution.
LEMMA RestartKeepsEvents ==
  ASSUME Inv, EventInv, Restart
  PROVE  EventInv'
  <1> USE Constants
  <1>0. TypeOK BY DEF Inv
  <1>1. /\ restarted' = TRUE /\ serving' = NoRequest
        /\ requests' \subseteq requests
        /\ spread' = [s \in Sessions |-> 0]
        /\ UNCHANGED <<life, drv, seq, heard, acked, ended, outcome,
                       sock, inbox, line, refused, abandoned, missed>>
    BY DEF Restart, client, history, exits
  <1>2. \A q \in UnderWay' : q \in UnderWay BY <1>1 DEF UnderWay
  <1>3. LiveInv' BY <1>1, <1>2 DEF EventInv, LiveInv
  <1>4. WorkInv' BY <1>1, <1>2 DEF EventInv, WorkInv, Current
  <1>5. LifeInv' BY <1>1 DEF EventInv, LifeInv
  <1>6. NumberInv'
    <2>1. \A t \in Sessions : spread'[t] <= seq[t] BY <1>0, <1>1 DEF TypeOK
    <2> QED BY <1>1, <2>1 DEF EventInv, NumberInv, NumberOf
  <1>7. OrderInv'
    <2> SUFFICES ASSUME NEW t \in Sessions PROVE OrderOf(t)' BY DEF OrderInv
    <2>1. OrderOf(t) BY DEF EventInv, OrderInv
    <2>2. Present(t)' = Present(t) BY <1>1 DEF Present
    <2>3. InOrder(t, seq[t] - 1, heard[t], line[t])' BY <1>1, <2>1 DEF OrderOf
    <2> QED BY <1>1, <2>1, <2>2, <2>3 DEF OrderOf, Current
  <1>8. CleanInv' BY <1>1, CleanKept DEF EventInv
  <1> QED BY <1>3, <1>4, <1>5, <1>6, <1>7, <1>8 DEF EventInv

\* While events of the current inference are there, its subscription has arrived already.
LEMMA SubscriptionArrivesKeepsEvents ==
  ASSUME Inv, EventInv, NEW s \in Sessions, SubscriptionArrives(s)
  PROVE  EventInv'
  <1> USE Constants
  <1>0. TypeOK BY DEF Inv
  <1>1. /\ spread[s] < seq[s] /\ spread' = [spread EXCEPT ![s] = @ + 1]
        /\ UNCHANGED <<life, drv, seq, heard, acked, ended, outcome,
                       sock, inbox, requests, serving, made, restarted, line,
                       refused, abandoned, missed>>
    BY DEF SubscriptionArrives, client, wires, node, history, exits
  <1>2. /\ spread[s] \in Nat /\ seq[s] \in Nat /\ spread'[s] = spread[s] + 1
        /\ \A t \in Sessions : t # s => spread'[t] = spread[t]
    BY <1>0, <1>1 DEF TypeOK
  <1>3. UnderWay' = UnderWay BY <1>1 DEF UnderWay
  <1>4. LiveInv' /\ WorkInv' /\ LifeInv'
    BY <1>1, <1>3 DEF EventInv, LiveInv, WorkInv, LifeInv, Current
  <1>5. NumberInv'
    <2>1. \A t \in Sessions : spread[t] <= seq[t] BY DEF EventInv, NumberInv, NumberOf
    <2>2. \A t \in Sessions : spread'[t] <= seq[t] BY <1>1, <1>2, <2>1
    <2> QED BY <1>1, <2>2 DEF EventInv, NumberInv, NumberOf
  <1>6. OrderInv'
    <2> SUFFICES ASSUME NEW t \in Sessions PROVE OrderOf(t)' BY DEF OrderInv
    <2>1. OrderOf(t) BY DEF EventInv, OrderInv
    <2>2. Present(t)' = Present(t) BY <1>1 DEF Present
    <2>3. InOrder(t, seq[t] - 1, heard[t], line[t])' BY <1>1, <2>1 DEF OrderOf
    <2>4. spread[t] = seq[t] => spread'[t] = seq[t] BY <1>1, <1>2
    <2> QED BY <1>1, <2>1, <2>2, <2>3, <2>4 DEF OrderOf, Current
  <1>7. CleanInv' BY <1>1, CleanKept DEF EventInv
  <1> QED BY <1>4, <1>5, <1>6, <1>7 DEF EventInv

\* Of a session in use that is clean, no other session has an inference in execution.
LEMMA ServesOwn ==
  ASSUME Inv, EventInv, serving # NoRequest, NEW s \in Sessions, Clean(s), life[s] \in Used
  PROVE  serving.sess = s
<1> DEFINE p == serving.sess
<1>1. p \in Sessions /\ serving.kind = "inference" /\ serving \in UnderWay
  <2>1. serving \in UnderWay BY DEF UnderWay
  <2> QED BY <2>1, UnderWayType DEF Inv, ServingInv
<1>2. life[p] # "unborn" /\ life[p] # "setup" BY <1>1 DEF Inv, KindInv
<1>3. ~restarted /\ ~refused BY DEF Clean
<1>4. ASSUME p < s PROVE FALSE
  <2>1. p \in 1..(s - 1) BY <1>1, <1>4 DEF Sessions
  <2>2. p \notin abandoned BY <2>1 DEF Clean
  <2>3. drv[p] = "polling" BY <1>1, <2>2 DEF EventInv, WorkInv
  <2>4. life[p] \in Used BY <1>1, <2>3 DEF Inv, SockInv
  <2>5. task = p /\ task = s BY <1>1, <1>3, <2>4 DEF Inv, TaskInv
  <2> QED BY <1>4, <2>5 DEF Sessions
<1>5. ASSUME s < p PROVE FALSE
  BY <1>1, <1>2, <1>3, <1>5 DEF EventInv, LifeInv
<1> QED BY <1>1, <1>4, <1>5 DEF Sessions

\* An event continues the numbers of the current inference or is of another one, and a clean
\* session in use only gets its own.
LEMMA PublishKeepsEvents ==
  ASSUME Inv, EventInv, Publish
  PROVE  EventInv'
  <1> USE Constants
  <1>0. TypeOK BY DEF Inv
  <1> DEFINE e == [sess |-> serving.sess, rid |-> serving.rid, n |-> made']
  <1>1. /\ serving # NoRequest /\ made < Events /\ made' = made + 1
        /\ UNCHANGED <<life, drv, seq, heard, acked, ended, outcome,
                       sock, inbox, requests, serving, restarted, spread,
                       refused, abandoned>>
    BY DEF Publish, client, wires
  <1>12. PICK full \in SUBSET Sessions :
          /\ line' = [s \in Sessions |->
               IF spread[s] > serving.rid /\ s \notin full THEN Append(line[s], e) ELSE line[s]]
          /\ missed' = missed \cup {s \in full : Current(s, serving)}
    BY DEF Publish
  <1> DEFINE Gets(s) == spread[s] > serving.rid /\ s \notin full
  <1>2. made' \in 1..Events /\ made \in Nat BY <1>0, <1>1 DEF TypeOK
  <1>3. serving \in RequestType /\ serving \in UnderWay /\ serving.kind = "inference"
    BY <1>0, <1>1 DEF TypeOK, UnderWay, Inv, ServingInv
  <1>4. /\ e \in EventType /\ e.sess = serving.sess /\ e.rid = serving.rid /\ e.n = made + 1
        /\ serving.rid \in Nat
    BY <1>1, <1>2, <1>3 DEF RequestType, EventType
  <1> HIDE DEF e
  <1>5. \A t \in Sessions :
          /\ line[t] \in Seq(EventType) /\ heard[t] \in Seq(EventType)
          /\ seq[t] \in Nat /\ spread[t] \in Nat /\ spread[t] <= seq[t]
          /\ Gets(t) => line'[t] = Append(line[t], e)
          /\ ~Gets(t) => line'[t] = line[t]
    BY <1>0, <1>1, <1>12 DEF TypeOK, EventInv, NumberInv, NumberOf
  <1>6. ASSUME NEW t \in Sessions
        PROVE  \A i \in 1..Len(line'[t]) :
                 \/ i \in 1..Len(line[t]) /\ line'[t][i] = line[t][i]
                 \/ line'[t][i] = e /\ spread[t] > serving.rid
    <2> DEFINE L == line[t]
    <2>1. /\ Len(Append(L, e)) = Len(L) + 1 /\ Append(L, e)[Len(L) + 1] = e
          /\ \A i \in 1..Len(L) : Append(L, e)[i] = L[i]
          /\ Len(L) \in Nat
      BY <1>4, <1>5, AppendProperties, LenProperties
    <2>2. CASE Gets(t)
      <3> DEFINE A == Append(L, e)
      <3>1. line'[t] = A BY <1>5, <2>2
      <3>2. /\ Len(A) = Len(L) + 1 /\ A[Len(L) + 1] = e /\ Len(L) \in Nat
            /\ \A i \in 1..Len(L) : A[i] = L[i]
        BY <2>1
      <3> HIDE DEF A
      <3>3. \A i \in 1..Len(A) : i \in 1..Len(L) \/ i = Len(L) + 1 BY <3>2
      <3> QED BY <2>2, <3>1, <3>2, <3>3
    <2>3. CASE ~Gets(t) BY <1>5, <2>3
    <2> QED BY <2>2, <2>3
  <1>7. UnderWay' = UnderWay BY <1>1 DEF UnderWay
  <1>8. LiveInv' /\ WorkInv' /\ LifeInv'
    BY <1>1, <1>7 DEF EventInv, LiveInv, WorkInv, LifeInv, Current
  <1>9. NumberInv'
    <2> SUFFICES ASSUME NEW t \in Sessions PROVE NumberOf(t)' BY DEF NumberInv
    <2>1. NumberOf(t) BY DEF EventInv, NumberInv
    <2>2. spread[t] > serving.rid => e.rid < seq[t] BY <1>4, <1>5
    <2>3. \A i \in 1..Len(line'[t]) : line'[t][i].rid < seq[t]
      BY <1>6, <2>1, <2>2 DEF NumberOf
    <2> QED BY <1>1, <2>1, <2>3 DEF NumberOf
  <1>10. OrderInv'
    <2> SUFFICES ASSUME NEW t \in Sessions PROVE OrderOf(t)' BY DEF OrderInv
    <2>1. OrderOf(t) BY DEF EventInv, OrderInv
    <2> DEFINE k == seq[t] - 1
               N == Present(t)
    <2>2. InOrder(t, k, heard[t], line[t]) /\ N = Numbers(t, k, heard[t], line[t])
      BY <2>1 DEF OrderOf, Present
    <2>3. Present(t)' = Numbers(t, k, heard[t], line'[t]) BY <1>1 DEF Present
    <2>4. Mine(t, k, e) <=> Current(t, serving) BY <1>3, <1>4 DEF Mine, Current
    <2>5. Current(t, serving) => \A r \in requests : ~Current(t, r)
      <3> SUFFICES ASSUME Current(t, serving), NEW r \in requests, Current(t, r) PROVE FALSE
        OBVIOUS
      <3>1. r \in UnderWay /\ r.kind = "inference" /\ r.sess = t BY DEF UnderWay, Current
      <3>2. r.live /\ serving.live BY <1>3, <3>1 DEF EventInv, WorkInv, Current
      <3>3. r.via = "rpc" /\ serving.via = "rpc"
        <4>1. r.via \in Vias /\ serving.via \in Vias BY <1>0, <1>3, <3>1, UnderWayType
        <4> QED BY <1>3, <3>1, <4>1 DEF Inv, KindInv, Vias
      <3>4. r = serving BY <1>3, <3>1, <3>2, <3>3 DEF EventInv, LiveInv, Current
      <3> QED BY <1>1, <3>2, <3>4 DEF EventInv, LiveInv
    <2>6. /\ N \subseteq 1..Events
          /\ Current(t, serving) /\ N # {} =>
               /\ spread[t] = seq[t] /\ (t \notin missed => made \in N)
               /\ \A x \in N : x <= made
          /\ t \notin missed => Gapless(N)
          /\ t \in missed' => t \in missed \/ Current(t, serving)
          /\ t \in missed => t \in missed'
          /\ \A r \in requests : Current(t, r) => N = {}
      <3>1. N \subseteq 1..Events BY DEF Present, Numbers
      <3> QED BY <1>1, <1>12, <2>1, <3>1 DEF OrderOf
    <2>11. \A x \in N : x \in Nat
      <3>1. N \subseteq 1..Events BY DEF Present, Numbers
      <3>2. 1..Events \subseteq Nat OBVIOUS
      <3> QED BY <3>1, <3>2
    <2> HIDE DEF N
    <2>10. /\ ~Mine(t, k, e) =>
                /\ InOrder(t, k, heard[t], Append(line[t], e))
                /\ Numbers(t, k, heard[t], Append(line[t], e)) = N
           /\ Mine(t, k, e) /\ (\A x \in N : x < e.n) =>
                /\ InOrder(t, k, heard[t], Append(line[t], e))
                /\ Numbers(t, k, heard[t], Append(line[t], e)) = N \cup {e.n}
      <3> DEFINE h == heard[t]
                 l == line[t]
      <3>1. h \in Seq(EventType) /\ l \in Seq(EventType) /\ e \in EventType
        BY <1>4, <1>5
      <3>2. InOrder(t, k, h, l) /\ N = Numbers(t, k, h, l) BY <2>2
      <3> HIDE DEF h, l
      <3>3. ~Mine(t, k, e) =>
              /\ InOrder(t, k, h, Append(l, e))
              /\ Numbers(t, k, h, Append(l, e)) = N
        BY <3>1, <3>2, OtherInOrder
      <3>4. Mine(t, k, e) /\ (\A x \in N : x < e.n) =>
              /\ InOrder(t, k, h, Append(l, e))
              /\ Numbers(t, k, h, Append(l, e)) = N \cup {e.n}
        BY <3>1, <3>2, NextInOrder
      <3> QED BY <3>3, <3>4 DEF h, l
    <2>7. CASE Gets(t) /\ Current(t, serving)
      <3>1. /\ \A x \in N : x < e.n
            /\ t \notin missed => N = {} \/ e.n - 1 \in N
        <4>1. \A x \in N : x \in Nat BY <2>11
        <4> QED BY <1>2, <1>4, <2>6, <2>7, <4>1
      <3>2. /\ InOrder(t, k, heard[t], Append(line[t], e))
            /\ Numbers(t, k, heard[t], Append(line[t], e)) = N \cup {e.n}
        BY <2>4, <2>7, <2>10, <3>1
      <3>3. line'[t] = Append(line[t], e) BY <1>5, <2>7
      <3>4. Present(t)' = N \cup {made'} BY <1>1, <1>4, <2>3, <3>2, <3>3
      <3>5. InOrder(t, seq[t] - 1, heard[t], line[t])' BY <1>1, <3>2, <3>3
      <3>6. spread[t] = seq[t]
        <4>1. serving.rid = seq[t] - 1 BY <2>7 DEF Current
        <4> QED BY <1>5, <2>7, <4>1
      <3>7. \A x \in N \cup {made'} : x <= made'
        <4>1. \A x \in N : x \in Nat /\ x < e.n BY <2>6, <3>1
        <4> QED BY <1>1, <1>2, <1>4, <4>1
      <3>8. \A r \in requests' : ~Current(t, r)' BY <1>1, <2>5, <2>7 DEF Current
      <3>9. t \notin missed' => Gapless(N \cup {made'})
        <4>1. made' \in Nat /\ made' = e.n /\ N \in SUBSET Nat BY <1>1, <1>2, <1>4, <2>6
        <4> QED BY <2>6, <3>1, <4>1, NextGapless
      <3> QED BY <1>1, <3>4, <3>5, <3>6, <3>7, <3>8, <3>9 DEF OrderOf
    <2>8. CASE Gets(t) /\ ~Current(t, serving)
      <3>1. /\ InOrder(t, k, heard[t], Append(line[t], e))
            /\ Numbers(t, k, heard[t], Append(line[t], e)) = N
        BY <2>4, <2>8, <2>10
      <3>2. line'[t] = Append(line[t], e) BY <1>5, <2>8
      <3>3. Present(t)' = N BY <2>3, <3>1, <3>2
      <3>4. InOrder(t, seq[t] - 1, heard[t], line[t])' BY <1>1, <3>1, <3>2
      <3>5. ~Current(t, serving)' /\ \A r \in requests' : Current(t, r)' => Current(t, r)
        BY <1>1, <2>8 DEF Current
      <3> QED BY <1>1, <2>6, <3>3, <3>4, <3>5 DEF OrderOf
    <2>9. CASE ~Gets(t)
      <3>1. line'[t] = line[t] BY <1>5, <2>9
      <3>2. Present(t)' = N BY <2>2, <2>3, <3>1
      <3>3. InOrder(t, seq[t] - 1, heard[t], line[t])' BY <1>1, <2>2, <3>1
      <3>4. Current(t, serving) => N = {} \/ t \in missed'
        <4>1. Current(t, serving) /\ t \notin full => spread[t] # seq[t]
          BY <1>4, <1>5, <2>9 DEF Current
        <4>2. Current(t, serving) /\ t \in full => t \in missed' BY <1>12
        <4> QED BY <2>6, <4>1, <4>2
      <3>6. Current(t, serving) => \A x \in N : x <= made'
        <4>1. \A x \in N : x \in Nat BY <2>11
        <4> QED BY <1>1, <1>2, <2>6, <4>1
      <3>5. /\ \A r \in requests' : Current(t, r)' => Current(t, r)
            /\ Current(t, serving)' => Current(t, serving)
        BY <1>1 DEF Current
      <3> QED BY <1>1, <2>6, <3>2, <3>3, <3>4, <3>5, <3>6 DEF OrderOf
    <2> QED BY <2>7, <2>8, <2>9
  <1>11. CleanInv'
    <2> SUFFICES ASSUME NEW t \in Sessions, Clean(t)'
                 PROVE  /\ \A i \in 1..Len(heard'[t]) : heard'[t][i].sess = t
                        /\ life'[t] \in Used =>
                             \A i \in 1..Len(line'[t]) : line'[t][i].sess = t
      BY DEF CleanInv
    <2>1. Clean(t) BY <1>1 DEF Clean
    <2>2. life[t] \in Used => e.sess = t BY <1>1, <1>4, <2>1, ServesOwn
    <2> QED BY <1>1, <1>6, <2>1, <2>2 DEF EventInv, CleanInv
  <1> QED BY <1>8, <1>9, <1>10, <1>11 DEF EventInv

-----------------------------------------------------------------------------
(* The theorems about the events *)

\* Nothing has happened at first.
LEMMA InitEvents == Init => EventInv
  <1> SUFFICES ASSUME Init PROVE EventInv OBVIOUS
  <1>1. 1..Len(<<>>) = {} BY EmptySeq
  <1>2. UnderWay = {} BY DEF Init, UnderWay
  <1>3. LiveInv /\ WorkInv /\ LifeInv
    BY <1>2, Constants DEF Init, LiveInv, WorkInv, LifeInv, Used
  <1>4. NumberInv BY <1>1 DEF Init, NumberInv, NumberOf
  <1>5. OrderInv
    <2> SUFFICES ASSUME NEW t \in Sessions PROVE OrderOf(t) BY DEF OrderInv
    <2>1. heard[t] = <<>> /\ line[t] = <<>> /\ requests = {} /\ serving = NoRequest
      BY DEF Init
    <2>2. InOrder(t, seq[t] - 1, <<>>, <<>>) BY <1>1, NothingInOrder
    <2>3. Present(t) = {} BY <1>1, <2>1, NothingInOrder DEF Present
    <2> QED BY <2>1, <2>2, <2>3 DEF OrderOf, Gapless
  <1>6. CleanInv BY <1>1 DEF Init, CleanInv, Used
  <1> QED BY <1>3, <1>4, <1>5, <1>6 DEF EventInv

\* Every step keeps the invariant of the events.
LEMMA StepKeepsEvents == Inv /\ EventInv /\ CtlInv /\ Inv' /\ [Next]_vars => EventInv'
  <1> SUFFICES ASSUME Inv, EventInv, CtlInv, Inv', [Next]_vars PROVE EventInv' OBVIOUS
  <1>1. CASE UNCHANGED vars
    <2>1. UNCHANGED <<life, drv, seq, heard, acked, ended, outcome, sock, inbox, requests,
                      serving, made, restarted, line, spread, refused, abandoned, missed>>
      BY <1>1 DEF vars, client, wires, node, history, exits
    <2>2. LiveInv' /\ WorkInv' /\ LifeInv' /\ NumberInv'
      BY <2>1 DEF EventInv, LiveInv, WorkInv, LifeInv, NumberInv, NumberOf, UnderWay, Current
    <2>3. OrderInv' BY <2>1, EventsAside DEF EventInv, Alike
    <2>4. CleanInv' BY <2>1, CleanKept DEF EventInv
    <2> QED BY <2>2, <2>3, <2>4 DEF EventInv
  <1>2. CASE NodeStep
    BY <1>2, TakeKeepsEvents, PublishKeepsEvents, FinishInferenceKeepsEvents DEF NodeStep
  <1>3. CASE Restart BY <1>3, RestartKeepsEvents
  <1>4. ASSUME NEW s \in Sessions,
               SessionStep(s) \/ Cancel(s) \/ StartDrive(s) \/ SubscriptionArrives(s)
        PROVE  EventInv'
    BY <1>4, ConnectKeepsEvents, SetupEndsKeepsEvents, FlagKeepsEvents, LeaveKeepsEvents,
       VanishKeepsEvents, HearKeepsEvents, TakeReplyKeepsEvents, EndsKeepEvents,
       StartDriveKeepsEvents, SubscriptionArrivesKeepsEvents DEF SessionStep
  <1> QED BY <1>1, <1>2, <1>3, <1>4 DEF Next

\* A live request of ctl is an exit whose session waits for the answer.
LEMMA StepKeepsCtl == Inv /\ EventInv /\ CtlInv /\ [Next]_vars => CtlInv'
  <1> USE Constants
  <1> SUFFICES ASSUME Inv, EventInv, CtlInv, [Next]_vars, NEW s \in Sessions, life'[s] # "quitting"
               PROVE  inbox'[s]["ctl"] = "none"
    BY DEF CtlInv
  <1>0. TypeOK /\ "ctl" \in Vias /\ "rpc" \in Vias BY DEF Inv
  <1>1. ASSUME NEW r \in UnderWay, NEW reply \in {"ok", "error"}, Answer(r, reply), UNCHANGED life
        PROVE  inbox'[s]["ctl"] = "none"
    <2>1. r \in RequestType BY <1>0, <1>1, UnderWayType
    <2>2. CASE r.sess = s /\ r.via = "ctl" /\ r.live
      <3>1. life[s] \in {"quitting", "gone"} BY <1>1, <2>2 DEF Inv, KindInv
      <3>2. sock[s]["ctl"] = "waiting" BY <1>1, <2>2 DEF EventInv, LiveInv
      <3> QED BY <1>1, <3>1, <3>2 DEF Inv, SockInv
    <2>3. CASE r.sess # s \/ r.via # "ctl" \/ ~r.live
      <3>1. inbox'[s]["ctl"] = inbox[s]["ctl"] BY <1>0, <1>1, <2>1, <2>3, Answers
      <3> QED BY <1>1, <3>1 DEF CtlInv
    <2> QED BY <2>2, <2>3
  <1>2. ASSUME NEW t \in Sessions, inbox' = [inbox EXCEPT ![t]["rpc"] = "none"] \/ inbox' = inbox,
               life[s] # "quitting"
        PROVE  inbox'[s]["ctl"] = "none"
    <2>1. inbox[s]["ctl"] = "none" BY <1>2 DEF CtlInv
    <2>2. CASE inbox' = inbox BY <2>1, <2>2
    <2>3. CASE inbox' = [inbox EXCEPT ![t]["rpc"] = "none"]
      <3>1. inbox \in [Sessions -> [Vias -> {"none", "ok", "error"}]] BY <1>0 DEF TypeOK
      <3> QED BY <1>0, <2>1, <2>3, <3>1
    <2> QED BY <1>2, <2>2, <2>3
  <1>3. CASE UNCHANGED vars BY <1>2, <1>3 DEF vars, client, wires
  <1>4. ASSUME NEW r \in requests, Take(r) PROVE inbox'[s]["ctl"] = "none"
    <2>1. UNCHANGED life /\ r \in UnderWay BY <1>4 DEF Take, client, UnderWay
    <2>2. CASE r.kind = "inference" /\ task # Nobody
      <3>1. inbox' = inbox BY <1>4, <2>2 DEF Take
      <3> QED BY <1>2, <2>1, <3>1
    <2>3. CASE ~(r.kind = "inference" /\ task # Nobody)
      <3>1. Answer(r, IF (r.kind = "setup") = (task = Nobody) THEN "ok" ELSE "error")
        BY <1>4, <2>3 DEF Take
      <3> QED BY <1>1, <2>1, <3>1
    <2> QED BY <2>2, <2>3
  <1>5. CASE Publish BY <1>2, <1>5 DEF Publish, client, wires
  <1>6. CASE FinishInference
    <2>1. PICK reply \in {"ok", "error"} : Answer(serving, reply) BY <1>6 DEF FinishInference
    <2>2. UNCHANGED life /\ serving \in UnderWay BY <1>6 DEF FinishInference, client, UnderWay
    <2> QED BY <1>1, <2>1, <2>2
  <1>7. CASE Restart BY <1>2, <1>7 DEF Restart, client
  <1>8. ASSUME NEW t \in Sessions,
               SessionStep(t) \/ Cancel(t) \/ StartDrive(t) \/ SubscriptionArrives(t)
        PROVE  inbox'[s]["ctl"] = "none"
    <2>1. CASE Vanish(t)
      <3>1. /\ inbox' = [inbox EXCEPT ![t] = [v \in Vias |-> "none"]]
            /\ life' = [life EXCEPT ![t] = "gone"]
        BY <2>1 DEF Vanish
      <3>2. s # t => inbox'[s] = inbox[s] /\ life'[s] = life[s] BY <1>0, <3>1 DEF TypeOK
      <3>3. s = t => inbox'[s]["ctl"] = "none" BY <1>0, <3>1 DEF TypeOK
      <3> QED BY <3>2, <3>3 DEF CtlInv
    <2>2. CASE ~Vanish(t)
      <3>1. CASE Connect(t) BY <1>0, <1>2, <3>1 DEF Connect, Send, TypeOK
      <3>2. CASE SetupEnds(t) BY <1>0, <1>2, <3>2 DEF SetupEnds, Receive, Reconnect, TypeOK
      <3>3. CASE Release(t) BY <1>0, <1>2, <3>3 DEF Release, RaiseFlag, TypeOK
      <3>4. CASE CallEnds(t) BY <1>2, <3>4 DEF CallEnds, client
      <3>5. CASE Destroy(t) BY <1>0, <1>2, <3>5 DEF Destroy, RaiseFlag, TypeOK
      <3>6. CASE Leave(t) BY <1>0, <1>2, <3>6 DEF Leave, Send, wires, TypeOK
      <3>7. CASE Hear(t) BY <1>2, <3>7 DEF Hear, wires
      <3>8. CASE TakeReply(t) BY <1>2, <3>8 DEF TakeReply, Receive
      <3>9. CASE Complete(t) BY <1>2, <3>9 DEF Complete, wires
      <3>10. CASE GiveUp(t) BY <1>2, <3>10 DEF GiveUp, wires
      <3>11. CASE Cancel(t) BY <1>2, <3>11 DEF Cancel, RaiseFlag
      <3>12. CASE StartDrive(t) BY <1>2, <3>12 DEF StartDrive, Send
      <3>13. CASE SubscriptionArrives(t) BY <1>2, <3>13 DEF SubscriptionArrives, client, wires
      <3> QED BY <1>8, <2>2, <3>1, <3>2, <3>3, <3>4, <3>5, <3>6, <3>7, <3>8, <3>9, <3>10,
                 <3>11, <3>12, <3>13 DEF SessionStep
    <2> QED BY <2>1, <2>2
  <1> QED BY <1>3, <1>4, <1>5, <1>6, <1>7, <1>8 DEF Next, NodeStep

\* The invariant of the events holds throughout.
THEOREM EventInvariance == Spec => []EventInv
  <1>1. Init => Inv /\ EventInv /\ CtlInv
    <2>1. Init => CtlInv BY Constants DEF Init, CtlInv
    <2> QED BY <2>1, InitOK, InitEvents
  <1>2. Inv /\ EventInv /\ CtlInv /\ [Next]_vars => (Inv /\ EventInv /\ CtlInv)'
    BY StepKeeps, StepKeepsEvents, StepKeepsCtl
  <1> QED BY <1>1, <1>2, PTL DEF Spec

\* The events of an inference that ended well, when all of them are its own.
LEMMA OwnWhole ==
  ASSUME Inv, EventInv, NEW s \in Sessions, outcome[s] = "ok",
         \A i \in 1..Len(heard[s]) : Own(s, heard[s][i])
  PROVE  /\ Len(heard[s]) > 0 /\ heard[s][Len(heard[s])].n = Events
         /\ \A i \in 1..(Len(heard[s]) - 1) :
              \/ heard[s][i + 1].n = heard[s][i].n + 1
              \/ heard[s][i + 1].n > heard[s][i].n /\ s \in missed
<1> USE Constants
<1> DEFINE h == heard[s]
           l == line[s]
           k == seq[s] - 1
           N == Numbers(s, k, h, l)
<1>1. /\ h \in Seq(EventType) /\ l \in Seq(EventType) BY DEF Inv, TypeOK
<1>2. /\ Len(h) \in Nat /\ Len(l) \in Nat
      /\ \A i \in 1..Len(h) : h[i].n \in 1..Events
  <2>1. Len(h) \in Nat /\ Len(l) \in Nat BY <1>1, LenProperties
  <2>2. \A i \in 1..Len(h) : h[i] \in EventType BY <1>1, ElementOfSeq
  <2> QED BY <2>1, <2>2 DEF EventType
<1>3. InOrder(s, k, h, l) /\ (s \notin missed => Gapless(N))
  BY DEF EventInv, OrderInv, OrderOf, Present
<1>4. \A i \in 1..Len(h) : Mine(s, k, h[i]) BY DEF Own, Mine
<1>5. PICK m \in 1..Len(h) : h[m].n = Events
  BY DEF EventInv, NumberInv, NumberOf
<1> HIDE DEF h, l, k
<1>6. \A i, j \in 1..Len(h) : i < j => h[i].n < h[j].n BY <1>3, <1>4 DEF InOrder
<1>7. m = Len(h)
  <2>1. ASSUME m < Len(h) PROVE FALSE
    <3>1. Len(h) \in 1..Len(h) BY <1>2, <1>5, <2>1
    <3>2. h[m].n < h[Len(h)].n BY <1>6, <2>1, <3>1
    <3> QED BY <1>2, <1>5, <3>1, <3>2
  <2> QED BY <1>2, <1>5, <2>1
<1>8. ASSUME NEW i \in 1..(Len(h) - 1), s \notin missed PROVE h[i + 1].n = h[i].n + 1
  <2> DEFINE x == h[i].n
             y == h[i + 1].n
             z == x + 1
  <2>1. i \in 1..Len(h) /\ i + 1 \in 1..Len(h) /\ i < i + 1 BY <1>2
  <2>2. x \in 1..Events /\ y \in 1..Events /\ x < y BY <1>2, <1>6, <2>1
  <2>3. x \in N /\ y \in N BY <1>4, <2>1, <2>2 DEF Numbers
  <2>4. z \in x..y BY <2>2
  <2>5. z \in N BY <1>3, <1>8, <2>3, <2>4 DEF Gapless
  <2>6. \/ \E j \in 1..Len(h) : Mine(s, k, h[j]) /\ h[j].n = z
        \/ \E j \in 1..Len(l) : Mine(s, k, l[j]) /\ l[j].n = z
    BY <2>5 DEF Numbers
  <2>7. CASE \E j \in 1..Len(h) : Mine(s, k, h[j]) /\ h[j].n = z
    <3>1. PICK j \in 1..Len(h) : h[j].n = z BY <2>7
    <3>2. ~(j < i) /\ j # i
      BY <1>6, <2>1, <2>2, <3>1
    <3>3. CASE j = i + 1 BY <3>1, <3>3
    <3>4. CASE i + 1 < j
      <4>1. y < h[j].n BY <1>6, <2>1, <3>4
      <4> QED BY <2>2, <3>1, <4>1
    <3> QED BY <1>2, <2>1, <3>2, <3>3, <3>4
  <2>8. CASE \E j \in 1..Len(l) : Mine(s, k, l[j]) /\ l[j].n = z
    <3>1. PICK j \in 1..Len(l) : Mine(s, k, l[j]) /\ l[j].n = z BY <2>8
    <3>2. y < z BY <1>3, <1>4, <2>1, <3>1 DEF InOrder
    <3> QED BY <2>2, <3>2
  <2> QED BY <2>6, <2>7, <2>8
<1>9. \A i \in 1..(Len(h) - 1) : h[i + 1].n > h[i].n
  <2> SUFFICES ASSUME NEW i \in 1..(Len(h) - 1) PROVE h[i + 1].n > h[i].n OBVIOUS
  <2>1. i \in 1..Len(h) /\ i + 1 \in 1..Len(h) /\ i < i + 1 BY <1>2
  <2> QED BY <1>2, <1>6, <2>1
<1> QED BY <1>2, <1>5, <1>7, <1>8, <1>9 DEF h

\* An inference that returns its text gave the callback its own events in order up to the
\* last, and all from the first it heard unless one was dropped; or something let events of
\* another session in.
THEOREM OkHeardItsEvents == Spec => []OkHasItsEvents
  <1>1. Inv /\ EventInv => OkHasItsEvents
    <2> SUFFICES ASSUME Inv, EventInv, NEW s \in Sessions, outcome[s] = "ok"
                 PROVE  LET n == Len(heard[s])
                            AllOwn == \A i \in 1..n : Own(s, heard[s][i])
                        IN \/ /\ AllOwn /\ n > 0 /\ heard[s][n].n = Events
                              /\ \A i \in 1..(n - 1) :
                                   \/ heard[s][i + 1].n = heard[s][i].n + 1
                                   \/ heard[s][i + 1].n > heard[s][i].n /\ s \in missed
                           \/ /\ ~AllOwn
                              /\ restarted \/ refused \/ \E p \in 1..(s - 1) : p \in abandoned
      BY DEF OkHasItsEvents
    <2>1. CASE \A i \in 1..Len(heard[s]) : Own(s, heard[s][i]) BY <2>1, OwnWhole
    <2>2. CASE ~\A i \in 1..Len(heard[s]) : Own(s, heard[s][i])
      <3>1. PICK i \in 1..Len(heard[s]) : ~Own(s, heard[s][i]) BY <2>2
      <3>2. heard[s][i].rid = seq[s] - 1 BY DEF EventInv, NumberInv, NumberOf
      <3>3. heard[s][i].sess # s BY <3>1, <3>2 DEF Own
      <3>4. ~Clean(s) BY <3>3 DEF EventInv, CleanInv
      <3> QED BY <2>2, <3>4 DEF Clean
    <2> QED BY <2>1, <2>2
  <1> QED BY <1>1, Invariance, EventInvariance, PTL
-----------------------------------------------------------------------------
(* The task of a session that is gone *)

\* No setup of an admitted session is left, and one of a session in setup() is live; an
\* admitted session whose exit was due has left no task that nothing will remove.
ReleaseInv ==
  /\ \A s \in admitted : life[s] \notin {"unborn", "setup", "failed"}
  /\ \A r \in requests : r.kind = "setup" =>
       r.sess \notin admitted /\ (life[r.sess] = "setup" => r.live)
  /\ \A s \in admitted :
       life[s] \in {"quitting", "gone"} /\ task = s =>
         HasExit(requests, s) \/ s \in unsent \cup dropped

\* Steps that acknowledge no setup.
LEMMA ReleaseKept ==
  ASSUME ReleaseInv, admitted' = admitted, unsent \subseteq unsent', dropped \subseteq dropped',
         task' \in {task, Nobody} \/ task' \notin admitted, Nobody \notin admitted,
         \A s \in admitted :
           /\ life'[s] \notin {"unborn", "setup", "failed"}
           /\ life'[s] \in {"quitting", "gone"} =>
                life[s] \in {"quitting", "gone"} \/ HasExit(requests', s) \/ s \in unsent'
           /\ HasExit(requests, s) =>
                HasExit(requests', s) \/ task' = Nobody \/ s \in dropped',
         \A r \in requests' : r.kind = "setup" =>
           \/ r.live /\ r.sess \notin admitted
           \/ \E p \in requests :
                /\ p.kind = "setup" /\ p.sess = r.sess
                /\ life'[r.sess] = "setup" => r = p /\ life[r.sess] = "setup"
  PROVE  ReleaseInv'
  <1>1. \A r \in requests' : r.kind = "setup" =>
          r.sess \notin admitted /\ (life'[r.sess] = "setup" => r.live)
    BY DEF ReleaseInv
  <1>2. ASSUME NEW s \in admitted, life'[s] \in {"quitting", "gone"}, task' = s
        PROVE  HasExit(requests', s) \/ s \in unsent' \cup dropped'
    <2>1. task = s /\ task' # Nobody BY <1>2
    <2>2. CASE life[s] \in {"quitting", "gone"}
      <3>1. HasExit(requests, s) \/ s \in unsent \cup dropped BY <2>1, <2>2 DEF ReleaseInv
      <3> QED BY <1>2, <2>1, <3>1
    <2>3. CASE life[s] \notin {"quitting", "gone"} BY <1>2, <2>3
    <2> QED BY <2>2, <2>3
  <1> QED BY <1>1, <1>2 DEF ReleaseInv, HasExit

\* Sockets destroyed take no setup and no exit of another session with them.
LEMMA OrphansRelease ==
  ASSUME Inv, NEW s \in Sessions, NEW vias \in SUBSET Vias, NEW R \in Orphans(s, vias)
  PROVE  /\ \A r \in R : \E p \in requests :
              p.kind = r.kind /\ p.sess = r.sess /\ (r.sess # s => r = p)
         /\ \A t \in Sessions : (t # s \/ vias = {"rpc"}) /\ HasExit(requests, t) => HasExit(R, t)
  <1>1. requests \subseteq RequestType BY DEF Inv, TypeOK
  <1>2. \A r \in R : \E p \in requests :
          p.kind = r.kind /\ p.sess = r.sess /\ (r.sess # s => r = p)
    BY <1>1, OrphansKeep
  <1>3. ASSUME NEW r \in requests, r.sess # s \/ r.via \notin vias PROVE r \in R
    BY <1>3 DEF Orphans
  <1>4. \A r \in requests : r.kind = "exit" => r.via = "ctl"
    BY DEF Inv, KindInv, UnderWay
  <1> QED BY <1>2, <1>3, <1>4 DEF HasExit

LEMMA ConnectReleases ==
  ASSUME Inv, ReleaseInv, NEW s \in Sessions, Connect(s)
  PROVE  ReleaseInv'
  <1> USE Constants
  <1>0. TypeOK BY DEF Inv
  <1>1. /\ life[s] = "unborn" /\ life' = [life EXCEPT ![s] = "setup"]
        /\ Send(s, "rpc", "setup", 0)
        /\ UNCHANGED <<admitted, unsent, dropped, task>>
    BY DEF Connect, history, exits, node
  <1>2. sock[s]["rpc"] = "idle" /\ 0 \in 0..MaxOps BY <1>1 DEF Inv, SockInv
  <1>3. requests' = requests \cup {Request(s, "rpc", "setup", 0)} BY <1>0, <1>1, <1>2, Sends
  <1>4. /\ Request(s, "rpc", "setup", 0).sess = s /\ Request(s, "rpc", "setup", 0).live
    BY <1>2, RequestMade
  <1>5. s \notin admitted /\ \A t \in Sessions : t # s => life'[t] = life[t]
    BY <1>0, <1>1 DEF ReleaseInv, TypeOK
  <1>6. \A r \in requests : r.sess # s /\ r.sess \in Sessions
    <2>1. \A r \in requests : r \in RequestType /\ r \in UnderWay
      BY <1>0 DEF TypeOK, UnderWay
    <2> QED BY <1>1, <2>1 DEF Inv, KindInv, RequestType
  <1>7. \A r \in requests' : r.kind = "setup" =>
           \/ r.live /\ r.sess \notin admitted
           \/ \E p \in requests :
                /\ p.kind = "setup" /\ p.sess = r.sess
                /\ life'[r.sess] = "setup" => r = p /\ life[r.sess] = "setup"
    BY <1>3, <1>4, <1>5, <1>6
  <1>8. \A t \in admitted : t \in Sessions /\ t # s BY <1>0, <1>5 DEF TypeOK
  <1>9. \A t \in admitted : HasExit(requests, t) => HasExit(requests', t)
    BY <1>3 DEF HasExit
  <1>10. \A t \in admitted : life'[t] = life[t] /\ life[t] \notin {"unborn", "setup", "failed"}
    BY <1>5, <1>8 DEF ReleaseInv
  <1> QED BY <1>1, <1>7, <1>8, <1>9, <1>10, ReleaseKept

\* An acknowledgement shows that the setup has been taken.
LEMMA SetupEndsReleases ==
  ASSUME Inv, EventInv, ReleaseInv, NEW s \in Sessions, SetupEnds(s)
  PROVE  ReleaseInv'
  <1> USE Constants
  <1> DEFINE ok == inbox[s]["rpc"] = "ok"
  <1>0. TypeOK /\ requests \subseteq RequestType /\ admitted \subseteq Sessions
    BY DEF Inv, TypeOK
  <1>1. /\ life[s] = "setup" /\ life' = [life EXCEPT ![s] = IF ok THEN "ready" ELSE "failed"]
        /\ admitted' = IF ok THEN admitted \cup {s} ELSE admitted
        /\ UNCHANGED <<task, unsent, dropped>>
        /\ \/ requests' = requests
           \/ ~ok /\ requests' \in Orphans(s, {"rpc"})
    BY DEF SetupEnds, exits, Receive, Reconnect
  <1>2. /\ s \notin admitted /\ life'[s] = (IF ok THEN "ready" ELSE "failed")
        /\ \A t \in Sessions : t # s => life'[t] = life[t]
    BY <1>0, <1>1 DEF ReleaseInv, TypeOK
  <1>3. /\ \A r \in requests' : \E p \in requests :
             p.kind = r.kind /\ p.sess = r.sess /\ (r.sess # s => r = p)
        /\ \A t \in Sessions : HasExit(requests, t) => HasExit(requests', t)
    <2>1. {"rpc"} \in SUBSET Vias OBVIOUS
    <2>2. CASE requests' = requests BY <2>2
    <2>3. CASE requests' \in Orphans(s, {"rpc"})
      <3>1. PICK R \in Orphans(s, {"rpc"}) : requests' = R BY <2>3
      <3> QED BY <2>1, <3>1, OrphansRelease
    <2> QED BY <1>1, <2>2, <2>3
  <1>4. ASSUME ok, NEW r \in requests, r.kind = "setup" PROVE r.sess # s
    <2>1. r \in UnderWay /\ r \in RequestType BY <1>0 DEF UnderWay
    <2>2. r.via = "rpc" BY <1>4, <2>1 DEF Inv, KindInv, RequestType
    <2>3. r.sess = s => r.live BY <1>1, <1>4 DEF ReleaseInv
    <2>4. r.live => inbox[r.sess][r.via] = "none" BY <2>1 DEF EventInv, LiveInv
    <2> QED BY <1>4, <2>2, <2>3, <2>4
  <1>5. \A t \in admitted' : life'[t] \notin {"unborn", "setup", "failed"}
    <2> SUFFICES ASSUME NEW t \in admitted' PROVE life'[t] \notin {"unborn", "setup", "failed"}
      OBVIOUS
    <2>1. CASE t = s BY <1>1, <1>2, <2>1
    <2>2. CASE t # s BY <1>0, <1>1, <1>2, <2>2 DEF ReleaseInv
    <2> QED BY <2>1, <2>2
  <1>6. ASSUME NEW r \in requests', r.kind = "setup"
        PROVE  r.sess \notin admitted' /\ (life'[r.sess] = "setup" => r.live)
    <2>1. PICK p \in requests : p.kind = r.kind /\ p.sess = r.sess /\ (r.sess # s => r = p)
      BY <1>3
    <2>2. p.sess \in Sessions /\ p.sess \notin admitted /\ (life[p.sess] = "setup" => p.live)
      BY <1>0, <1>6, <2>1 DEF ReleaseInv, RequestType
    <2>3. CASE r.sess = s
      <3>1. ~ok BY <1>4, <1>6, <2>1, <2>3
      <3> QED BY <1>1, <1>2, <2>3, <3>1
    <2>4. CASE r.sess # s BY <1>1, <1>2, <2>1, <2>2, <2>4
    <2> QED BY <2>3, <2>4
  <1>7. ASSUME NEW t \in admitted', life'[t] \in {"quitting", "gone"}, task' = t
        PROVE  HasExit(requests', t) \/ t \in unsent' \cup dropped'
    <2>1. t # s BY <1>2, <1>7
    <2>2. t \in admitted /\ life[t] = life'[t] /\ t \in Sessions
      BY <1>0, <1>1, <1>2, <1>7, <2>1
    <2>3. HasExit(requests, t) \/ t \in unsent \cup dropped
      BY <1>1, <1>7, <2>2 DEF ReleaseInv
    <2> QED BY <1>1, <1>3, <2>2, <2>3
  <1> QED BY <1>5, <1>6, <1>7 DEF ReleaseInv, HasExit

\* The destructor's steps: the exit is sent or refused, and stays or is dropped.
LEMMA LeaveReleases ==
  ASSUME Inv, ReleaseInv, NEW s \in Sessions, Leave(s)
  PROVE  ReleaseInv'
  <1> USE Constants
  <1>0. TypeOK /\ admitted \subseteq Sessions /\ 0 \in 0..MaxOps BY DEF Inv, TypeOK
  <1>1. /\ life[s] = "leaving" /\ life' = [life EXCEPT ![s] = "quitting"]
        /\ \/ sock[s]["ctl"] = "idle" /\ Send(s, "ctl", "exit", 0) /\ UNCHANGED unsent
           \/ unsent' = unsent \cup {s} /\ UNCHANGED requests
        /\ UNCHANGED <<admitted, dropped, task>>
    BY DEF Leave, node, wires
  <1>2. life'[s] = "quitting" /\ \A t \in Sessions : t # s => life'[t] = life[t]
    BY <1>0, <1>1 DEF TypeOK
  <1>3. /\ requests \subseteq requests' /\ unsent \subseteq unsent'
        /\ \A r \in requests' : r \in requests \/ r.kind = "exit"
        /\ HasExit(requests', s) \/ s \in unsent'
    <2>1. CASE sock[s]["ctl"] = "idle" /\ Send(s, "ctl", "exit", 0) /\ UNCHANGED unsent
      <3>1. requests' = requests \cup {Request(s, "ctl", "exit", 0)}
        BY <1>0, <2>1, Sends
      <3>2. /\ Request(s, "ctl", "exit", 0).sess = s
            /\ Request(s, "ctl", "exit", 0).kind = "exit"
        BY <1>0, RequestMade
      <3> QED BY <2>1, <3>1, <3>2 DEF HasExit
    <2>2. CASE unsent' = unsent \cup {s} /\ UNCHANGED requests BY <2>2
    <2> QED BY <1>1, <2>1, <2>2
  <1>4. \A r \in requests' : r.kind = "setup" =>
          \E p \in requests :
            /\ p.kind = "setup" /\ p.sess = r.sess
            /\ life'[r.sess] = "setup" => r = p /\ life[r.sess] = "setup"
    <2>1. \A r \in requests : r.sess \in Sessions BY <1>0 DEF TypeOK, RequestType
    <2> QED BY <1>2, <1>3, <2>1
  <1>5. \A t \in admitted :
          /\ t \in Sessions /\ life[t] \notin {"unborn", "setup", "failed"}
          /\ HasExit(requests, t) => HasExit(requests', t)
    BY <1>0, <1>3 DEF ReleaseInv, HasExit
  <1>6. \A t \in admitted :
          /\ life'[t] \notin {"unborn", "setup", "failed"}
          /\ life'[t] \in {"quitting", "gone"} =>
               life[t] \in {"quitting", "gone"} \/ HasExit(requests', t) \/ t \in unsent'
    BY <1>2, <1>3, <1>5
  <1> QED BY <1>0, <1>1, <1>3, <1>4, <1>5, <1>6, ReleaseKept

LEMMA VanishReleases ==
  ASSUME Inv, ReleaseInv, NEW s \in Sessions, Vanish(s)
  PROVE  ReleaseInv'
  <1> USE Constants
  <1>0. TypeOK /\ admitted \subseteq Sessions BY DEF Inv, TypeOK
  <1>1. /\ life[s] = "quitting" /\ life' = [life EXCEPT ![s] = "gone"]
        /\ requests' \in Orphans(s, Vias)
        /\ dropped' = IF HasExit(requests, s) /\ ~HasExit(requests', s)
                      THEN dropped \cup {s} ELSE dropped
        /\ UNCHANGED <<admitted, unsent, task>>
    BY DEF Vanish
  <1>2. life'[s] = "gone" /\ \A t \in Sessions : t # s => life'[t] = life[t]
    BY <1>0, <1>1 DEF TypeOK
  <1>3. /\ \A r \in requests' : \E p \in requests :
             p.kind = r.kind /\ p.sess = r.sess /\ (r.sess # s => r = p)
        /\ \A t \in Sessions : t # s /\ HasExit(requests, t) => HasExit(requests', t)
    <2>1. PICK R \in Orphans(s, Vias) : requests' = R BY <1>1
    <2>2. Vias \in SUBSET Vias OBVIOUS
    <2> QED BY <2>1, <2>2, OrphansRelease
  <1>4. \A r \in requests' : r.kind = "setup" =>
          \E p \in requests :
            /\ p.kind = "setup" /\ p.sess = r.sess
            /\ life'[r.sess] = "setup" => r = p /\ life[r.sess] = "setup"
    <2>1. \A r \in requests : r.sess \in Sessions BY <1>0 DEF TypeOK, RequestType
    <2> QED BY <1>2, <1>3, <2>1
  <1>5. \A t \in admitted :
          t \in Sessions /\ life[t] \notin {"unborn", "setup", "failed"}
    BY <1>0 DEF ReleaseInv
  <1>6. \A t \in admitted :
          /\ life'[t] \notin {"unborn", "setup", "failed"}
          /\ life'[t] \in {"quitting", "gone"} => life[t] \in {"quitting", "gone"}
    BY <1>1, <1>2, <1>5
  <1>7. \A t \in admitted : HasExit(requests, t) => HasExit(requests', t) \/ t \in dropped'
    <2> SUFFICES ASSUME NEW t \in admitted, HasExit(requests, t), ~HasExit(requests', t)
                 PROVE  t \in dropped'
      OBVIOUS
    <2>1. t = s BY <1>3, <1>5
    <2> QED BY <1>1, <2>1
  <1>8. dropped \subseteq dropped' BY <1>1
  <1> QED BY <1>0, <1>1, <1>4, <1>6, <1>7, <1>8, ReleaseKept

LEMMA StartDriveReleases ==
  ASSUME Inv, ReleaseInv, NEW s \in Sessions, StartDrive(s)
  PROVE  ReleaseInv'
  <1> USE Constants
  <1>0. TypeOK /\ admitted \subseteq Sessions /\ seq[s] \in 0..MaxOps BY DEF Inv, TypeOK
  <1>1. /\ life[s] \in {"ready", "released"}
        /\ UNCHANGED <<life, admitted, unsent, dropped, task>>
    BY DEF StartDrive, exits
  <1> DEFINE q == Request(s, "rpc", "inference", seq[s])
  <1>2. /\ q.kind = "inference" BY <1>0, RequestMade
  <1>3. \E R : /\ requests' = R \/ requests' = R \cup {q}
               /\ R = requests \/ R \in Orphans(s, {"rpc"})
    BY Zenon DEF StartDrive, Send
  <1> HIDE DEF q
  <1>4. PICK R : /\ requests' = R \/ requests' = R \cup {q}
                 /\ R = requests \/ R \in Orphans(s, {"rpc"})
    BY <1>3
  <1>5. /\ \A r \in R : \E p \in requests :
             p.kind = r.kind /\ p.sess = r.sess /\ (r.sess # s => r = p)
        /\ \A t \in Sessions : HasExit(requests, t) => HasExit(R, t)
    <2>1. {"rpc"} \in SUBSET Vias OBVIOUS
    <2>2. CASE R = requests BY <2>2
    <2>3. CASE R \in Orphans(s, {"rpc"}) BY <2>1, <2>3, OrphansRelease
    <2> QED BY <1>4, <2>2, <2>3
  <1>6. \A t \in admitted :
          /\ HasExit(requests, t) => HasExit(requests', t)
          /\ life[t] \notin {"unborn", "setup", "failed"}
    BY <1>0, <1>4, <1>5 DEF HasExit, ReleaseInv
  <1>7. \A r \in requests' : r.kind = "setup" =>
          \E p \in requests :
            /\ p.kind = "setup" /\ p.sess = r.sess
            /\ life'[r.sess] = "setup" => r = p /\ life[r.sess] = "setup"
    BY <1>1, <1>2, <1>4, <1>5
  <1> QED BY <1>0, <1>1, <1>6, <1>7, ReleaseKept

LEMMA TakeReleases ==
  ASSUME Inv, ReleaseInv, NEW r \in requests, Take(r)
  PROVE  ReleaseInv'
  <1> USE Constants
  <1>0. TypeOK /\ admitted \subseteq Sessions BY DEF Inv, TypeOK
  <1>1. requests' = requests \ {r} /\ UNCHANGED <<life, admitted, unsent, dropped>>
    BY DEF Take, client, history, exits
  <1>2. \/ task' = task /\ r.kind # "exit"
        \/ task' = Nobody
        \/ task' = r.sess /\ r.kind = "setup"
    BY DEF Take
  <1>3. task' \in {task, Nobody} \/ task' \notin admitted BY <1>2 DEF ReleaseInv
  <1>4. \A t \in admitted : HasExit(requests, t) => HasExit(requests', t) \/ task' = Nobody
    BY <1>1, <1>2 DEF HasExit
  <1>5. \A t \in admitted : life[t] \notin {"unborn", "setup", "failed"} BY DEF ReleaseInv
  <1> QED BY <1>0, <1>1, <1>3, <1>4, <1>5, ReleaseKept

\* The other steps send no setup, and take no exit but with the node's task.
LEMMA OthersRelease ==
  ASSUME Inv, ReleaseInv, UNCHANGED <<admitted, unsent, dropped>>,
         requests' \subseteq requests, task' # Nobody => requests' = requests /\ task' = task,
         \A t \in Sessions : life'[t] = life[t] \/ life'[t] \in {"released", "leaving"}
  PROVE  ReleaseInv'
  <1> USE Constants
  <1>0. /\ admitted \subseteq Sessions /\ \A r \in requests : r.sess \in Sessions
    BY DEF Inv, TypeOK, RequestType
  <1>1. \A t \in admitted :
          /\ life'[t] \notin {"unborn", "setup", "failed"}
          /\ life'[t] \in {"quitting", "gone"} => life[t] \in {"quitting", "gone"}
    BY <1>0 DEF ReleaseInv
  <1>2. \A t \in admitted : HasExit(requests, t) => HasExit(requests', t) \/ task' = Nobody
    OBVIOUS
  <1>3. \A r \in requests' : r.kind = "setup" =>
          \E p \in requests :
            /\ p.kind = "setup" /\ p.sess = r.sess
            /\ life'[r.sess] = "setup" => r = p /\ life[r.sess] = "setup"
    BY <1>0
  <1> QED BY <1>0, <1>1, <1>2, <1>3, ReleaseKept

LEMMA StepReleases == Inv /\ EventInv /\ ReleaseInv /\ [Next]_vars => ReleaseInv'
  <1> SUFFICES ASSUME Inv, EventInv, ReleaseInv, [Next]_vars PROVE ReleaseInv'
    OBVIOUS
  <1>0. TypeOK BY DEF Inv
  <1>1. CASE UNCHANGED vars
    BY <1>1, OthersRelease DEF vars, client, node, wires, history, exits
  <1>2. ASSUME NEW r \in requests, Take(r) PROVE ReleaseInv' BY <1>2, TakeReleases
  <1>3. CASE Publish BY <1>3, OthersRelease DEF Publish, client, wires, exits
  <1>4. CASE FinishInference
    BY <1>4, OthersRelease DEF FinishInference, client, history, exits
  <1>5. CASE Restart BY <1>5, OthersRelease DEF Restart, client, history, exits
  <1>6. ASSUME NEW s \in Sessions,
               SessionStep(s) \/ Cancel(s) \/ StartDrive(s) \/ SubscriptionArrives(s)
        PROVE  ReleaseInv'
    <2>1. CASE Connect(s) BY <2>1, ConnectReleases
    <2>2. CASE SetupEnds(s) BY <2>2, SetupEndsReleases
    <2>3. CASE Release(s)
      BY <1>0, <2>3, OthersRelease DEF Release, RaiseFlag, node, exits, TypeOK
    <2>4. CASE CallEnds(s) BY <2>4, OthersRelease DEF CallEnds, client, node
    <2>5. CASE Destroy(s)
      BY <1>0, <2>5, OthersRelease DEF Destroy, RaiseFlag, node, exits, TypeOK
    <2>6. CASE Leave(s) BY <2>6, LeaveReleases
    <2>7. CASE Vanish(s) BY <2>7, VanishReleases
    <2>8. CASE Hear(s) BY <2>8, OthersRelease DEF Hear, wires, node, history, exits
    <2>9. CASE TakeReply(s)
      BY <2>9, OthersRelease DEF TakeReply, Receive, node, history, exits
    <2>10. CASE Complete(s) BY <2>10, OthersRelease DEF Complete, wires, node, history, exits
    <2>11. CASE GiveUp(s) BY <2>11, OthersRelease DEF GiveUp, wires, node, exits
    <2>12. CASE Cancel(s) BY <2>12, OthersRelease DEF Cancel, RaiseFlag, node, exits
    <2>13. CASE StartDrive(s) BY <2>13, StartDriveReleases
    <2>14. CASE SubscriptionArrives(s)
      BY <2>14, OthersRelease DEF SubscriptionArrives, client, wires, node, history, exits
    <2> QED BY <1>6, <2>1, <2>2, <2>3, <2>4, <2>5, <2>6, <2>7, <2>8, <2>9, <2>10, <2>11,
               <2>12, <2>13, <2>14 DEF SessionStep
  <1> QED BY <1>1, <1>2, <1>3, <1>4, <1>5, <1>6 DEF Next, NodeStep

\* A session that is gone leaves no task at the node but one that its exit will remove,
\* unless the exit was refused by its socket or dropped with it.
THEOREM TaskIsReleased == Spec => []TaskReleased
  <1>1. Init => ReleaseInv BY DEF Init, ReleaseInv
  <1>2. ReleaseInv => TaskReleased BY DEF ReleaseInv, TaskReleased
  <1> QED BY <1>1, <1>2, StepReleases, Invariance, EventInvariance, PTL DEF Spec
=============================================================================
