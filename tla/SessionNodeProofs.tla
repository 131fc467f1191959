-------------------------- MODULE SessionNodeProofs --------------------------
(***************************************************************************)
(* The safety of the session node, for any set of clients, work_ids and    *)
(* session objects and any number of requests.                             *)
(***************************************************************************)
EXTENDS SessionNode, FiniteSetTheorems, TLAPS

OwnerStates == {"spawned", "running", "returned", "stored"}

\* A worker j and the session h it runs on.
LocalInv(j, h) ==
  /\ j.at \in {"spawned", "running"} => j.status = "none"
  /\ j.at = "spawned" => ~j.armed
  /\ j.at \in OwnerStates => /\ h.busy /\ j.epoch = h.epoch
                             /\ h.phase = "free" <=> j.at # "running"
  /\ j.armed => j.status # "ok"
  /\ j.at = "running" /\ j.armed => /\ h.phase # "arming"
                                    /\ h.phase = "working" => h.stop
                                    /\ h.phase = "ending" => ~h.mayBeOk

JobInv ==
  \A c \in Clients :
    /\ Worker(c, "none") => job[c] = NoJob
    /\ ~Worker(c, "none") => job[c].sid \in Sids /\ LocalInv(job[c], heap[job[c].sid])

SoleInv == \A c, d \in Clients : Owns(c) /\ Owns(d) /\ job[d].sid = job[c].sid => c = d

PhaseInv ==
  \A s \in Sids : heap[s].phase # "free" =>
    \E c \in Clients : Worker(c, "running") /\ job[c].sid = s

\* What is owed to c: a request on the wire, one with a worker, a reply posted or one
\* in the mail, never two, and about the last request sent.
Posted(c) == {r \in posted : r.client = c}

OwedInv ==
  \A c \in Clients :
    /\ wire[c] # NoRequest => /\ wire[c].id = sent[c] /\ wire[c].w \in WorkIds
                              /\ Worker(c, "none") /\ Posted(c) = {} /\ mail[c] = {}
    /\ ~Worker(c, "none") => job[c].id = sent[c] /\ Posted(c) = {} /\ mail[c] = {}
    /\ Posted(c) # {} => mail[c] = {}
    /\ \A r, q \in Posted(c) : r = q /\ r.id = sent[c]
    /\ \A r, q \in mail[c] : r = q /\ r.id = sent[c]
    /\ ~waiting[c] => /\ wire[c] = NoRequest /\ Worker(c, "none")
                      /\ Posted(c) = {} /\ mail[c] = {}
    /\ waiting[c] /\ closing = "open" => \/ wire[c] # NoRequest \/ ~Worker(c, "none")
                                         \/ Posted(c) # {} \/ mail[c] # {}

QuietInv == closing = "closed" => \A c \in Clients : Worker(c, "none")

\* While the serving thread records, the request stays the one it serves, and its
\* session busy with nobody in it.
RecordInv ==
  recording # Null =>
    /\ closing \in {"open", "ended"} /\ wire[recording] # NoRequest
    /\ Target(recording) \in Sids /\ heap[Target(recording)].busy
    /\ \A c \in Clients : Owns(c) => job[c].sid # Target(recording)

Inv == /\ TypeOK /\ JobInv /\ SoleInv /\ PhaseInv /\ ResultsStayHome
       /\ OwedInv /\ QuietInv /\ RecordInv

USE SessionNodeAssumption

-----------------------------------------------------------------------------
(* Lemmas *)

LEMMA Constructed ==
  /\ NoJob \in JobType /\ NoJob.at = "none" /\ NoJob.sid = Null
  /\ NoRequest \in RequestType /\ NoResult.epoch = 0
  /\ ~NoJob.armed /\ ~NoJob.acked /\ NoJob.status = "none"
  BY DEF NoJob, JobType, NoRequest, RequestType, NoResult, Outcomes, Kinds, Inferences

LEMMA NewSessionType ==
  ASSUME NEW n \in Nat
  PROVE  /\ NewSession(n) \in SessionType
         /\ NewSession(n).epoch = n /\ NewSession(n).result = NoResult
         /\ NewSession(n).phase = "free" /\ ~NewSession(n).busy
  BY DEF NewSession, SessionType, NoResult, Outcomes

\* The part of the invariant that is about the sessions and their workers.
SessionsInv ==
  /\ sessions \in [WorkIds -> Sids \cup {Null}]
  /\ heap \in [Sids -> SessionType] /\ job \in [Clients -> JobType]
  /\ JobInv /\ SoleInv /\ PhaseInv /\ ResultsStayHome

\* The part that is about the requests and their replies.
RepliesInv ==
  /\ wire \in [Clients -> RequestType] /\ waiting \in [Clients -> BOOLEAN]
  /\ sent \in [Clients -> Nat] /\ mail \in [Clients -> SUBSET ReplyType]
  /\ posted \subseteq [client : Clients, id : Nat, status : Outcomes]
  /\ OwedInv

Rest == /\ closing \in {"open", "joining", "closed", "ended"} /\ QuietInv
        /\ recording \in Clients \cup {Null} /\ broken \in BOOLEAN

LEMMA Parts ==
  ASSUME SessionsInv', RepliesInv', Rest', RecordInv'
  PROVE  Inv'
  BY DEF Inv, SessionsInv, RepliesInv, Rest, TypeOK

-----------------------------------------------------------------------------
(* The sessions and their workers *)

\* A step of the worker of c on its session s, which it goes on referring to.
LEMMA WorkerKeeps ==
  ASSUME Inv, NEW c \in Clients, ~Worker(c, "none"), NEW s \in Sids, s = job[c].sid,
         NEW j \in JobType, NEW h \in SessionType,
         heap' = [heap EXCEPT ![s] = h], job' = [job EXCEPT ![c] = j],
         UNCHANGED sessions,
         Owns(c), j.sid = s, j.at # "none", LocalInv(j, h),
         h.phase # "free" => j.at = "running",
         h.epoch = heap[s].epoch, h.result # NoResult => h.result.epoch = h.epoch
  PROVE  SessionsInv'
  <1>0. /\ heap \in [Sids -> SessionType] /\ job \in [Clients -> JobType]
        /\ sessions' \in [WorkIds -> Sids \cup {Null}]
    BY DEF Inv, TypeOK
  <1>1. /\ heap' \in [Sids -> SessionType] /\ job' \in [Clients -> JobType]
        /\ heap'[s] = h /\ job'[c] = j
        /\ \A t \in Sids : t # s => heap'[t] = heap[t]
        /\ \A d \in Clients : d # c => job'[d] = job[d]
    BY <1>0
  <1>2. \A d \in Clients : d # c /\ Owns(d) => job[d].sid # s
    BY DEF Inv, SoleInv
  <1>3. JobInv'
    <2> SUFFICES ASSUME NEW d \in Clients
                 PROVE  /\ job'[d].at = "none" => job'[d] = NoJob
                        /\ job'[d].at # "none" =>
                             job'[d].sid \in Sids /\ LocalInv(job'[d], heap'[job'[d].sid])
      BY DEF JobInv, Worker, LocalInv, OwnerStates
    <2>1. CASE d = c BY <2>1, <1>1
    <2>2. CASE d # c
      <3>1. /\ job'[d] = job[d] /\ job[d] \in JobType
            /\ job[d].at = "none" => job[d] = NoJob
            /\ job[d].at # "none" => job[d].sid \in Sids /\ LocalInv(job[d], heap[job[d].sid])
        BY <2>2, <1>0, <1>1 DEF Inv, JobInv, Worker
      <3>2. CASE job[d].sid # s BY <3>1, <3>2, <1>1
      <3>3. CASE job[d].sid = s
        <4>1. job[d].at \notin OwnerStates BY <3>3, <1>2, <2>2 DEF Owns, OwnerStates
        <4> QED BY <4>1, <3>1 DEF LocalInv, OwnerStates
      <3> QED BY <3>2, <3>3
    <2> QED BY <2>1, <2>2
  <1>4. SoleInv'
    BY <1>1, <1>2 DEF SoleInv, Inv, Owns
  <1>5. PhaseInv'
    <2> SUFFICES ASSUME NEW t \in Sids, heap'[t].phase # "free"
                 PROVE  \E d \in Clients : job'[d].at = "running" /\ job'[d].sid = t
      BY DEF PhaseInv, Worker
    <2>1. CASE t = s BY <2>1, <1>1
    <2>2. CASE t # s
      <3>1. PICK d \in Clients : job[d].at = "running" /\ job[d].sid = t
        BY <2>2, <1>1 DEF Inv, PhaseInv, Worker
      <3>2. d # c BY <3>1, <2>2
      <3> QED BY <3>1, <3>2, <1>1
    <2> QED BY <2>1, <2>2
  <1>6. ResultsStayHome' BY <1>1 DEF Inv, ResultsStayHome
  <1> QED BY <1>0, <1>1, <1>3, <1>4, <1>5, <1>6 DEF SessionsInv

\* What a worker that is at work finds.
LEMMA AtWork ==
  ASSUME Inv, NEW c \in Clients, ~Worker(c, "none")
  PROVE  /\ job[c] \in JobType /\ job[c].sid \in Sids
         /\ heap[job[c].sid] \in SessionType /\ LocalInv(job[c], heap[job[c].sid])
         /\ heap[job[c].sid].result # NoResult =>
              heap[job[c].sid].result.epoch = heap[job[c].sid].epoch
         /\ job = [job EXCEPT ![c] = job[c]]
         /\ heap = [heap EXCEPT ![job[c].sid] = heap[job[c].sid]]
  BY DEF Inv, TypeOK, JobInv, ResultsStayHome

LEMMA RunBeginsKeeps ==
  ASSUME Inv, NEW c \in Clients, RunBegins(c)
  PROVE  SessionsInv'
  <1> DEFINE s == job[c].sid
             h == [heap[s] EXCEPT !.phase = "arming"]
             j == [job[c] EXCEPT !.at = "running"]
  <1>1. Worker(c, "spawned") /\ ~Worker(c, "none") BY DEF RunBegins, Worker
  <1>2. /\ job[c] \in JobType /\ s \in Sids /\ heap[s] \in SessionType
        /\ LocalInv(job[c], heap[s])
        /\ heap[s].result # NoResult => heap[s].result.epoch = heap[s].epoch
    BY <1>1, AtWork
  <1>3. heap[s].phase = "free" BY <1>1, <1>2 DEF LocalInv, OwnerStates, Worker
  <1>4. heap' = [heap EXCEPT ![s] = h] /\ job' = [job EXCEPT ![c] = j] /\ UNCHANGED sessions
    BY <1>3 DEF RunBegins, ServeOnly
  <1>5. j \in JobType /\ h \in SessionType BY <1>2 DEF JobType, SessionType
  <1>6. /\ j.sid = s /\ j.at = "running" /\ j.status = job[c].status
        /\ j.armed = job[c].armed /\ j.epoch = job[c].epoch
        /\ h.phase = "arming" /\ h.busy = heap[s].busy /\ h.epoch = heap[s].epoch
        /\ h.result = heap[s].result
    BY <1>2 DEF JobType, SessionType
  <1>7. LocalInv(j, h) BY <1>1, <1>2, <1>6 DEF LocalInv, OwnerStates, Worker
  <1>8. Owns(c) BY <1>1 DEF Owns, Worker
  <1> HIDE DEF h, j
  <1> QED BY <1>1, <1>2, <1>4, <1>5, <1>6, <1>7, <1>8, WorkerKeeps

\* A step of the run, which leaves the worker where it is.
LEMMA RunKeeps ==
  ASSUME Inv, NEW c \in Clients, Worker(c, "running"), NEW h \in SessionType,
         heap' = [heap EXCEPT ![job[c].sid] = h], UNCHANGED <<job, sessions>>,
         h.phase # "free", h.busy = heap[job[c].sid].busy,
         h.epoch = heap[job[c].sid].epoch, h.result = heap[job[c].sid].result,
         job[c].armed => /\ h.phase # "arming"
                         /\ h.phase = "working" => h.stop
                         /\ h.phase = "ending" => ~h.mayBeOk
  PROVE  SessionsInv'
  <1> DEFINE s == job[c].sid
             j == job[c]
  <1>1. ~Worker(c, "none") BY DEF Worker
  <1>2. /\ job[c] \in JobType /\ s \in Sids /\ heap[s] \in SessionType
        /\ LocalInv(job[c], heap[s]) /\ job = [job EXCEPT ![c] = job[c]]
        /\ heap[s].result # NoResult => heap[s].result.epoch = heap[s].epoch
    BY <1>1, AtWork
  <1>3. LocalInv(j, h) BY <1>2 DEF LocalInv, OwnerStates, Worker
  <1>4. Owns(c) /\ j.at = "running" BY DEF Owns, Worker
  <1>5. job' = [job EXCEPT ![c] = j] BY <1>2
  <1> QED BY <1>1, <1>2, <1>3, <1>4, <1>5, WorkerKeeps

LEMMA RunArmsKeeps ==
  ASSUME Inv, NEW c \in Clients, RunArms(c)
  PROVE  SessionsInv'
  <1> DEFINE s == job[c].sid
             h == [heap[s] EXCEPT !.phase = "working", !.stop = FALSE]
  <1>1. Worker(c, "running") /\ ~Worker(c, "none") BY DEF RunArms, Worker
  <1>2. s \in Sids /\ heap[s] \in SessionType /\ LocalInv(job[c], heap[s]) BY <1>1, AtWork
  <1>3. ~job[c].armed BY <1>1, <1>2 DEF RunArms, LocalInv, Worker
  <1>4. heap' = [heap EXCEPT ![s] = h] /\ UNCHANGED <<job, sessions>>
    BY DEF RunArms, ServeOnly
  <1>5. /\ h \in SessionType /\ h.phase = "working" /\ h.busy = heap[s].busy
        /\ h.epoch = heap[s].epoch /\ h.result = heap[s].result
    BY <1>2 DEF SessionType
  <1> HIDE DEF h
  <1> QED BY <1>1, <1>3, <1>4, <1>5, RunKeeps

LEMMA RunConcludesKeeps ==
  ASSUME Inv, NEW c \in Clients, RunConcludes(c)
  PROVE  SessionsInv'
  <1> DEFINE s == job[c].sid
  <1>1. Worker(c, "running") /\ ~Worker(c, "none") BY DEF RunConcludes, Worker
  <1>2. s \in Sids /\ heap[s] \in SessionType /\ LocalInv(job[c], heap[s]) BY <1>1, AtWork
  <1>3. PICK ok \in {FALSE, ~heap[s].stop} :
          heap' = [heap EXCEPT ![s].phase = "ending", ![s].mayBeOk = ok]
    BY DEF RunConcludes
  <1> DEFINE h == [heap[s] EXCEPT !.phase = "ending", !.mayBeOk = ok]
  <1>4. heap' = [heap EXCEPT ![s] = h] /\ UNCHANGED <<job, sessions>>
    BY SMTT(20), ZenonT(30), <1>3 DEF RunConcludes, ServeOnly
  <1>5. ok \in BOOLEAN BY <1>2, <1>3 DEF SessionType
  <1>6. /\ h \in SessionType /\ h.phase = "ending" /\ h.busy = heap[s].busy
        /\ h.epoch = heap[s].epoch /\ h.result = heap[s].result /\ h.mayBeOk = ok
    BY <1>2, <1>5 DEF SessionType
  <1>7. job[c].armed => ~ok
    BY <1>1, <1>2, <1>3 DEF RunConcludes, LocalInv, Worker
  <1> HIDE DEF h
  <1> QED BY <1>1, <1>4, <1>6, <1>7, RunKeeps

LEMMA RunReturnsKeeps ==
  ASSUME Inv, NEW c \in Clients, RunReturns(c)
  PROVE  SessionsInv'
  <1> DEFINE s == job[c].sid
  <1>1. Worker(c, "running") /\ ~Worker(c, "none") BY DEF RunReturns, Worker
  <1>2. /\ job[c] \in JobType /\ s \in Sids /\ heap[s] \in SessionType
        /\ LocalInv(job[c], heap[s])
        /\ heap[s].result # NoResult => heap[s].result.epoch = heap[s].epoch
    BY <1>1, AtWork
  <1>3. PICK status \in {"cancelled", "failed"} \cup
                          (IF heap[s].mayBeOk THEN {"ok"} ELSE {}) :
          /\ heap' = [heap EXCEPT ![s].phase = "free", ![s].mayBeOk = FALSE,
                                  ![s].last = status]
          /\ job' = [job EXCEPT ![c].at = "returned", ![c].status = status]
    BY DEF RunReturns
  <1> DEFINE h == [heap[s] EXCEPT !.phase = "free", !.mayBeOk = FALSE, !.last = status]
             j == [job[c] EXCEPT !.at = "returned", !.status = status]
  <1>4. heap' = [heap EXCEPT ![s] = h] /\ job' = [job EXCEPT ![c] = j] /\ UNCHANGED sessions
    BY <1>3 DEF RunReturns, ServeOnly
  <1>5. status \in Outcomes /\ (status = "ok" => heap[s].mayBeOk) BY <1>3 DEF Outcomes
  <1>6. j \in JobType /\ h \in SessionType BY <1>2, <1>5 DEF JobType, SessionType
  <1>7. /\ j.sid = s /\ j.at = "returned" /\ j.status = status
        /\ j.armed = job[c].armed /\ j.epoch = job[c].epoch
        /\ h.phase = "free" /\ h.busy = heap[s].busy /\ h.epoch = heap[s].epoch
        /\ h.result = heap[s].result
    BY <1>2 DEF JobType, SessionType
  <1>8. heap[s].phase = "ending" BY DEF RunReturns
  <1>9. LocalInv(j, h) BY <1>1, <1>2, <1>5, <1>7, <1>8 DEF LocalInv, OwnerStates, Worker
  <1>10. Owns(c) BY <1>1 DEF Owns, Worker
  <1> HIDE DEF h, j
  <1> QED BY <1>1, <1>2, <1>4, <1>6, <1>7, <1>9, <1>10, WorkerKeeps

LEMMA StoreResultKeeps ==
  ASSUME Inv, NEW c \in Clients, StoreResult(c)
  PROVE  SessionsInv'
  <1> DEFINE s == job[c].sid
             r == [id |-> job[c].id, status |-> job[c].status, epoch |-> job[c].epoch]
             h == [heap[s] EXCEPT !.result = r]
             j == [job[c] EXCEPT !.at = "stored"]
  <1>1. Worker(c, "returned") /\ ~Worker(c, "none") BY DEF StoreResult, Worker
  <1>2. /\ job[c] \in JobType /\ s \in Sids /\ heap[s] \in SessionType
        /\ LocalInv(job[c], heap[s])
    BY <1>1, AtWork
  <1>3. heap' = [heap EXCEPT ![s] = h] /\ job' = [job EXCEPT ![c] = j] /\ UNCHANGED sessions
    BY DEF StoreResult, ServeOnly
  <1>4. r \in [id : Nat, status : Outcomes, epoch : Nat] BY <1>2 DEF JobType
  <1>5. j \in JobType /\ h \in SessionType BY <1>2, <1>4 DEF JobType, SessionType
  <1>6. /\ j.sid = s /\ j.at = "stored" /\ j.status = job[c].status
        /\ j.armed = job[c].armed /\ j.epoch = job[c].epoch
        /\ h.phase = heap[s].phase /\ h.busy = heap[s].busy /\ h.epoch = heap[s].epoch
        /\ h.result.epoch = job[c].epoch
    BY <1>2 DEF JobType, SessionType
  <1>7. LocalInv(j, h) /\ h.phase = "free" /\ h.result.epoch = h.epoch
    BY <1>1, <1>2, <1>6 DEF LocalInv, OwnerStates, Worker
  <1>8. Owns(c) BY <1>1 DEF Owns, Worker
  <1> HIDE DEF h, j
  <1> QED BY <1>1, <1>2, <1>3, <1>5, <1>6, <1>7, <1>8, WorkerKeeps

LEMMA ReleaseBusyKeeps ==
  ASSUME Inv, NEW c \in Clients, ReleaseBusy(c)
  PROVE  SessionsInv'
  <1> DEFINE s == job[c].sid
             h == [heap[s] EXCEPT !.busy = FALSE]
             j == [job[c] EXCEPT !.at = "released"]
  <1>1. Worker(c, "stored") /\ ~Worker(c, "none") BY DEF ReleaseBusy, Worker
  <1>2. /\ job[c] \in JobType /\ s \in Sids /\ heap[s] \in SessionType
        /\ LocalInv(job[c], heap[s])
        /\ heap[s].result # NoResult => heap[s].result.epoch = heap[s].epoch
    BY <1>1, AtWork
  <1>3. heap' = [heap EXCEPT ![s] = h] /\ job' = [job EXCEPT ![c] = j] /\ UNCHANGED sessions
    BY DEF ReleaseBusy, ServeOnly
  <1>4. j \in JobType /\ h \in SessionType BY <1>2 DEF JobType, SessionType
  <1>5. /\ j.sid = s /\ j.at = "released" /\ j.status = job[c].status
        /\ j.armed = job[c].armed /\ h.phase = heap[s].phase /\ h.epoch = heap[s].epoch
        /\ h.result = heap[s].result
    BY <1>2 DEF JobType, SessionType
  <1>6. LocalInv(j, h) /\ h.phase = "free"
    BY <1>1, <1>2, <1>5 DEF LocalInv, OwnerStates, Worker
  <1>7. Owns(c) BY <1>1 DEF Owns, Worker
  <1> HIDE DEF h, j
  <1> QED BY <1>1, <1>2, <1>3, <1>4, <1>5, <1>6, <1>7, WorkerKeeps

\* The thread ends.
LEMMA PostReplyKeeps ==
  ASSUME Inv, NEW c \in Clients, PostReply(c), ~job[c].long
  PROVE  SessionsInv'
  <1>1. /\ job[c].at = "released" /\ job' = [job EXCEPT ![c] = NoJob]
        /\ UNCHANGED <<sessions, heap>>
    BY DEF PostReply, Worker
  <1>2. /\ job \in [Clients -> JobType] /\ job' \in [Clients -> JobType] /\ job'[c] = NoJob
        /\ \A d \in Clients : d # c => job'[d] = job[d]
    BY <1>1, Constructed DEF Inv, TypeOK
  <1>3. JobInv' BY <1>1, <1>2, Constructed DEF Inv, JobInv, Worker, LocalInv, OwnerStates
  <1>4. SoleInv' BY <1>2, Constructed DEF Inv, SoleInv, Owns
  <1>5. PhaseInv' BY <1>1, <1>2 DEF Inv, PhaseInv, Worker
  <1>6. ResultsStayHome' BY <1>1 DEF Inv, ResultsStayHome
  <1> QED BY <1>1, <1>2, <1>3, <1>4, <1>5, <1>6 DEF SessionsInv, Inv, TypeOK

\* A cancellation changes the stop flag of its targets and the history of their runs.
LEMMA CancelKeeps ==
  ASSUME Inv, NEW targets, NEW acknowledged \in BOOLEAN,
         CancelPipelines(targets, acknowledged),
         sessions' \in [WorkIds -> Sids \cup {Null}]
  PROVE  /\ SessionsInv'
         /\ \A c \in Clients : job'[c].at = job[c].at /\ job'[c].id = job[c].id
  <1> DEFINE Hit(c) == job[c].sid \in targets /\ job[c].at \in {"spawned", "running"}
  <1>0. heap \in [Sids -> SessionType] /\ job \in [Clients -> JobType]
    BY DEF Inv, TypeOK
  <1>1. \A s \in Sids :
          /\ heap'[s] \in SessionType /\ heap'[s].phase = heap[s].phase
          /\ heap'[s].busy = heap[s].busy /\ heap'[s].epoch = heap[s].epoch
          /\ heap'[s].result = heap[s].result /\ heap'[s].mayBeOk = heap[s].mayBeOk
          /\ s \in targets => heap'[s].stop
          /\ s \notin targets => heap'[s] = heap[s]
    <2> SUFFICES ASSUME NEW s \in Sids
                 PROVE  /\ heap'[s] \in SessionType /\ heap'[s].phase = heap[s].phase
                        /\ heap'[s].busy = heap[s].busy /\ heap'[s].epoch = heap[s].epoch
                        /\ heap'[s].result = heap[s].result
                        /\ heap'[s].mayBeOk = heap[s].mayBeOk
                        /\ s \in targets => heap'[s].stop
                        /\ s \notin targets => heap'[s] = heap[s]
      OBVIOUS
    <2>1. heap'[s] = IF s \in targets THEN [heap[s] EXCEPT !.stop = TRUE] ELSE heap[s]
      BY DEF CancelPipelines
    <2>2. heap[s] \in SessionType BY <1>0
    <2>3. CASE s \in targets
      <3>1. heap'[s] = [heap[s] EXCEPT !.stop = TRUE] BY <2>1, <2>3
      <3> QED BY <2>2, <2>3, <3>1 DEF SessionType
    <2>4. CASE s \notin targets
      <3>1. heap'[s] = heap[s] BY <2>1, <2>4
      <3> QED BY <2>2, <2>4, <3>1
    <2> QED BY <2>3, <2>4
  <1>2. \A c \in Clients :
          /\ job'[c] \in JobType /\ job'[c].at = job[c].at /\ job'[c].id = job[c].id
          /\ job'[c].sid = job[c].sid /\ job'[c].status = job[c].status
          /\ job'[c].epoch = job[c].epoch
          /\ ~Hit(c) => job'[c] = job[c]
          /\ Hit(c) => job'[c].armed = (job[c].armed \/ heap[job[c].sid].phase = "working")
    <2> SUFFICES ASSUME NEW c \in Clients
                 PROVE  /\ job'[c] \in JobType /\ job'[c].at = job[c].at
                        /\ job'[c].id = job[c].id
                        /\ job'[c].sid = job[c].sid /\ job'[c].status = job[c].status
                        /\ job'[c].epoch = job[c].epoch
                        /\ ~Hit(c) => job'[c] = job[c]
                        /\ Hit(c) => job'[c].armed =
                             (job[c].armed \/ heap[job[c].sid].phase = "working")
      OBVIOUS
    <2> DEFINE a == job[c].armed \/ heap[job[c].sid].phase = "working"
               k == job[c].acked \/ (acknowledged /\ heap[job[c].sid].phase # "ending")
    <2>1. job'[c] = IF Hit(c) THEN [job[c] EXCEPT !.acked = k, !.armed = a] ELSE job[c]
      BY <1>0 DEF CancelPipelines, JobType
    <2>2. job[c] \in JobType BY <1>0
    <2>3. a \in BOOLEAN /\ k \in BOOLEAN BY <2>2 DEF JobType
    <2> HIDE DEF a, k, Hit
    <2>4. /\ job'[c] \in JobType /\ job'[c].at = job[c].at /\ job'[c].id = job[c].id
          /\ job'[c].sid = job[c].sid /\ job'[c].status = job[c].status
          /\ job'[c].epoch = job[c].epoch
      BY <2>1, <2>2, <2>3 DEF JobType
    <2>5. Hit(c) => job'[c].armed = a BY <2>1, <2>2 DEF JobType
    <2> QED BY <2>1, <2>4, <2>5 DEF a
  <1>3. heap' \in [Sids -> SessionType] /\ job' \in [Clients -> JobType]
    BY <1>1, <1>2 DEF CancelPipelines
  <1>4. JobInv'
    <2> SUFFICES ASSUME NEW c \in Clients
                 PROVE  /\ job'[c].at = "none" => job'[c] = NoJob
                        /\ job'[c].at # "none" =>
                             job'[c].sid \in Sids /\ LocalInv(job'[c], heap'[job'[c].sid])
      BY DEF JobInv, Worker, LocalInv, OwnerStates
    <2>1. CASE job[c].at = "none" BY <2>1, <1>2 DEF Inv, JobInv, Worker
    <2>2. CASE job[c].at # "none"
      <3> DEFINE s == job[c].sid
      <3>1. s \in Sids /\ LocalInv(job[c], heap[s]) /\ heap[s] \in SessionType
        BY <2>2, <1>0 DEF Inv, JobInv, Worker
      <3>2. CASE Hit(c)
        <4>1. s \in targets /\ job[c].at \in {"spawned", "running"} BY <3>2
        <4>2. job'[c].armed = (job[c].armed \/ heap[s].phase = "working") BY <1>2, <3>2
        <4>3. /\ heap'[s].stop /\ heap'[s].phase = heap[s].phase
              /\ heap'[s].busy = heap[s].busy /\ heap'[s].epoch = heap[s].epoch
              /\ heap'[s].mayBeOk = heap[s].mayBeOk
          BY <1>1, <3>1, <4>1
        <4>4. /\ job'[c].at = job[c].at /\ job'[c].sid = s
              /\ job'[c].status = job[c].status /\ job'[c].epoch = job[c].epoch
          BY <1>2
        <4> HIDE DEF s, Hit
        <4>5. LocalInv(job'[c], heap'[s])
          BY <3>1, <4>1, <4>2, <4>3, <4>4 DEF LocalInv, OwnerStates
        <4> QED BY <2>2, <3>1, <4>4, <4>5
      <3>3. CASE ~Hit(c)
        <4>1. job'[c] = job[c] BY <1>2, <3>3
        <4>2. CASE s \in targets
          <5>1. job[c].at \notin {"spawned", "running"} BY <3>3, <4>2
          <5>2. /\ heap'[s].phase = heap[s].phase
                /\ heap'[s].busy = heap[s].busy /\ heap'[s].epoch = heap[s].epoch
            BY <1>1, <3>1
          <5> QED BY <2>2, <3>1, <4>1, <5>1, <5>2 DEF LocalInv, OwnerStates
        <4>3. CASE s \notin targets BY <2>2, <3>1, <4>1, <4>3, <1>1
        <4> QED BY <4>2, <4>3
      <3> QED BY <3>2, <3>3
    <2> QED BY <2>1, <2>2
  <1>5. SoleInv' BY <1>2 DEF Inv, SoleInv, Owns
  <1>6. PhaseInv' BY <1>1, <1>2 DEF Inv, PhaseInv, Worker
  <1>7. ResultsStayHome' BY <1>1 DEF Inv, ResultsStayHome
  <1> QED BY <1>2, <1>3, <1>4, <1>5, <1>6, <1>7 DEF SessionsInv

\* An object nothing refers to becomes a new session.
LEMMA SetupKeeps ==
  ASSUME Inv, NEW s \in Unreferenced, UNCHANGED job,
         heap' = [heap EXCEPT ![s] = NewSession(@.epoch + 1)],
         sessions' \in [WorkIds -> Sids \cup {Null}]
  PROVE  SessionsInv'
  <1>1. s \in Sids /\ \A c \in Clients : job[c].sid # s BY DEF Unreferenced, Referenced
  <1>2. heap \in [Sids -> SessionType] /\ job \in [Clients -> JobType] BY DEF Inv, TypeOK
  <1>3. heap[s].epoch + 1 \in Nat BY <1>1, <1>2 DEF SessionType
  <1>4. /\ heap' \in [Sids -> SessionType] /\ heap'[s] = NewSession(heap[s].epoch + 1)
        /\ \A t \in Sids : t # s => heap'[t] = heap[t]
    BY <1>1, <1>2, <1>3, NewSessionType
  <1>5. JobInv'
    <2> SUFFICES ASSUME NEW c \in Clients, job[c].at # "none"
                 PROVE  job[c].sid \in Sids /\ LocalInv(job[c], heap'[job[c].sid])
      BY DEF JobInv, Worker, LocalInv, OwnerStates, Inv
    <2> QED BY <1>1, <1>4 DEF Inv, JobInv, Worker
  <1>6. SoleInv' BY DEF Inv, SoleInv, Owns
  <1>7. PhaseInv' BY <1>3, <1>4, NewSessionType DEF Inv, PhaseInv, Worker
  <1>8. ResultsStayHome' BY <1>3, <1>4, NewSessionType DEF Inv, ResultsStayHome
  <1> QED BY <1>2, <1>4, <1>5, <1>6, <1>7, <1>8 DEF SessionsInv

\* The session the serving thread found free has no worker that holds it.
LEMMA FreeSession ==
  ASSUME Inv, NEW s \in Sids, ~heap[s].busy
  PROVE  /\ \A c \in Clients : Owns(c) => job[c].sid # s
         /\ heap[s].phase = "free"
  <1>1. \A c \in Clients : Owns(c) => job[c].sid # s
    BY DEF Inv, JobInv, LocalInv, Owns, OwnerStates, Worker
  <1> QED BY <1>1 DEF Inv, PhaseInv, Owns, Worker

\* Taking the flag of a session nobody is in, with a worker of client c or without one.
LEMMA TakeKeeps ==
  ASSUME Inv, NEW c \in Clients, NEW s \in Sids, UNCHANGED sessions,
         \A d \in Clients : Owns(d) => job[d].sid # s,
         heap' = [heap EXCEPT ![s].busy = TRUE],
         NEW j \in JobType, job' = [job EXCEPT ![c] = j], Worker(c, "none"),
         j = NoJob \/ (/\ j.at = "spawned" /\ j.sid = s /\ j.status = "none" /\ ~j.armed
                       /\ j.epoch = heap[s].epoch)
  PROVE  SessionsInv'
  <1> DEFINE h == [heap[s] EXCEPT !.busy = TRUE]
  <1>0. heap \in [Sids -> SessionType] /\ job \in [Clients -> JobType]
    BY DEF Inv, TypeOK
  <1>1. (\A d \in Clients : Owns(d) => job[d].sid # s) /\ heap[s].phase = "free"
    BY DEF Inv, PhaseInv, Owns, Worker
  <1>2. /\ h \in SessionType /\ h.busy /\ h.phase = "free" /\ h.epoch = heap[s].epoch
        /\ h.result = heap[s].result
    BY <1>0, <1>1 DEF SessionType
  <1>3. heap' = [heap EXCEPT ![s] = h] OBVIOUS
  <1> HIDE DEF h
  <1>4. /\ heap' \in [Sids -> SessionType] /\ job' \in [Clients -> JobType]
        /\ heap'[s] = h /\ job'[c] = j
        /\ \A t \in Sids : t # s => heap'[t] = heap[t]
        /\ \A d \in Clients : d # c => job'[d] = job[d]
    BY <1>0, <1>2, <1>3
  <1>5. JobInv'
    <2> SUFFICES ASSUME NEW d \in Clients
                 PROVE  /\ job'[d].at = "none" => job'[d] = NoJob
                        /\ job'[d].at # "none" =>
                             job'[d].sid \in Sids /\ LocalInv(job'[d], heap'[job'[d].sid])
      BY DEF JobInv, Worker, LocalInv, OwnerStates
    <2>1. CASE d = c
      BY <2>1, <1>2, <1>4, Constructed DEF LocalInv, OwnerStates
    <2>2. CASE d # c
      <3>1. /\ job'[d] = job[d] /\ job[d] \in JobType
            /\ job[d].at = "none" => job[d] = NoJob
            /\ job[d].at # "none" => job[d].sid \in Sids /\ LocalInv(job[d], heap[job[d].sid])
        BY <2>2, <1>0, <1>4 DEF Inv, JobInv, Worker
      <3>2. CASE job[d].sid # s BY <3>1, <3>2, <1>4
      <3>3. CASE job[d].sid = s
        <4>1. job[d].at \notin OwnerStates BY <3>3, <1>1, <2>2 DEF Owns, OwnerStates
        <4> QED BY <4>1, <3>1 DEF LocalInv, OwnerStates
      <3> QED BY <3>2, <3>3
    <2> QED BY <2>1, <2>2
  <1>6. SoleInv' BY <1>1, <1>4, Constructed DEF SoleInv, Inv, Owns
  <1>7. PhaseInv' BY <1>2, <1>4 DEF PhaseInv, Inv, Worker
  <1>8. ResultsStayHome' BY <1>2, <1>4 DEF Inv, ResultsStayHome
  <1> QED BY <1>4, <1>5, <1>6, <1>7, <1>8 DEF SessionsInv, Inv, TypeOK

\* The worker of a request whose session is known.
LEMMA SpawnedJob ==
  ASSUME Inv, NEW c \in Clients, Target(c) \in Sids, wire[c] # NoRequest
  PROVE  /\ Spawned(c) \in JobType /\ Spawned(c).at = "spawned"
         /\ Spawned(c).sid = Target(c) /\ Spawned(c).status = "none" /\ ~Spawned(c).armed
         /\ Spawned(c).epoch = heap[Target(c)].epoch /\ Spawned(c).id = wire[c].id
  <1>1. wire[c] \in RequestType /\ heap[Target(c)] \in SessionType BY DEF Inv, TypeOK
  <1> QED BY <1>1 DEF Spawned, NoJob, JobType, RequestType, SessionType, Outcomes

LEMMA SessionsUntouched ==
  ASSUME Inv, UNCHANGED <<heap, job>>, sessions' \in [WorkIds -> Sids \cup {Null}]
  PROVE  SessionsInv'
  BY DEF Inv, SessionsInv, TypeOK, JobInv, SoleInv, PhaseInv, ResultsStayHome, Worker,
         Owns, LocalInv, OwnerStates

-----------------------------------------------------------------------------
(* The requests and their replies *)

\* The serving thread is done with reading the request of c.
Taken(c) ==
  /\ closing = "open" /\ wire[c] # NoRequest
  /\ wire' = [wire EXCEPT ![c] = NoRequest]

LEMMA TakesTaken ==
  ASSUME NEW c, NEW kind, Takes(c, kind)
  PROVE  Taken(c) /\ recording = Null
  BY DEF Takes, Taken, Serving

LEMMA RequestTaken ==
  ASSUME Inv, NEW c \in Clients, Taken(c)
  PROVE  /\ closing = "open" /\ waiting[c] /\ Worker(c, "none") /\ Posted(c) = {} /\ mail[c] = {}
         /\ wire[c].id = sent[c] /\ wire[c].id \in Nat /\ wire[c].w \in WorkIds
         /\ Target(c) \in Sids \cup {Null}
         /\ wire' \in [Clients -> RequestType] /\ wire'[c] = NoRequest
         /\ \A d \in Clients : d # c => wire'[d] = wire[d]
  <1>1. closing = "open" /\ wire[c] # NoRequest /\ wire' = [wire EXCEPT ![c] = NoRequest]
    BY DEF Taken
  <1>2. /\ wire \in [Clients -> RequestType] /\ sessions \in [WorkIds -> Sids \cup {Null}]
        /\ waiting \in [Clients -> BOOLEAN]
    BY DEF Inv, TypeOK
  <1>3. /\ Worker(c, "none") /\ Posted(c) = {} /\ mail[c] = {} /\ waiting[c]
        /\ wire[c].id = sent[c] /\ wire[c].w \in WorkIds
    BY <1>1, <1>2 DEF Inv, OwedInv
  <1>4. wire[c].id \in Nat BY <1>2 DEF RequestType
  <1>5. Target(c) \in Sids \cup {Null} BY <1>2, <1>3 DEF Target
  <1> QED BY <1>1, <1>2, <1>3, <1>4, <1>5, Constructed

\* The serving thread answers itself.
LEMMA AnswerKeeps ==
  ASSUME Inv, NEW c \in Clients, Taken(c),
         NEW status \in Outcomes \cup Errors, Reply(c, status),
         UNCHANGED <<posted, microphone>>,
         \A d \in Clients : job'[d].at = job[d].at /\ job'[d].id = job[d].id
  PROVE  RepliesInv' /\ Rest'
  <1> DEFINE r == [id |-> wire[c].id, status |-> status]
  <1>1. /\ closing = "open" /\ waiting[c] /\ Worker(c, "none") /\ Posted(c) = {}
        /\ mail[c] = {} /\ wire[c].id = sent[c] /\ wire[c].id \in Nat
        /\ wire' \in [Clients -> RequestType] /\ wire'[c] = NoRequest
        /\ \A d \in Clients : d # c => wire'[d] = wire[d]
    BY RequestTaken
  <1>2. /\ UNCHANGED <<waiting, sent>> /\ mail \in [Clients -> SUBSET ReplyType]
        /\ UNCHANGED <<recording, broken, posted>>
    BY DEF Reply, Inv, TypeOK, microphone
  <1>3. CASE wire[c].long
    <2>1. closing' = "ended" /\ UNCHANGED mail BY <1>3 DEF Reply
    <2>2. OwedInv' BY <1>1, <1>2, <2>1 DEF Inv, OwedInv, Worker, Posted
    <2> QED BY <1>1, <1>2, <2>1, <2>2 DEF RepliesInv, Rest, QuietInv, Inv, TypeOK
  <1>4. CASE ~wire[c].long
    <2>1. mail' = [mail EXCEPT ![c] = @ \cup {r}] /\ UNCHANGED closing
      BY <1>4 DEF Reply
    <2>2. r \in ReplyType /\ r.id = sent[c] BY <1>1 DEF ReplyType
    <2> HIDE DEF r
    <2>3. /\ mail' \in [Clients -> SUBSET ReplyType] /\ mail'[c] = {r}
          /\ \A d \in Clients : d # c => mail'[d] = mail[d]
      BY <1>1, <1>2, <2>1, <2>2
    <2>4. OwedInv'
      BY <1>1, <1>2, <2>1, <2>2, <2>3 DEF Inv, OwedInv, Worker, Posted
    <2> QED BY <1>1, <1>2, <2>1, <2>3, <2>4 DEF RepliesInv, Rest, QuietInv, Inv, TypeOK
  <1> QED BY <1>3, <1>4

\* It leaves the answer to a worker.
LEMMA HandOverKeeps ==
  ASSUME Inv, NEW c \in Clients, Taken(c),
         UNCHANGED <<waiting, sent, mail, posted, broken, closing>>,
         recording' \in {recording, Null},
         job'[c].at # "none", job'[c].id = wire[c].id,
         \A d \in Clients : d # c => job'[d] = job[d]
  PROVE  RepliesInv' /\ Rest'
  <1>1. /\ closing = "open" /\ waiting[c] /\ Worker(c, "none") /\ Posted(c) = {}
        /\ mail[c] = {} /\ wire[c].id = sent[c] /\ wire[c].id \in Nat
        /\ wire' \in [Clients -> RequestType] /\ wire'[c] = NoRequest
        /\ \A d \in Clients : d # c => wire'[d] = wire[d]
    BY RequestTaken
  <1>2. OwedInv' BY <1>1 DEF Inv, OwedInv, Worker, Posted
  <1> QED BY <1>1, <1>2 DEF RepliesInv, Rest, QuietInv, Inv, TypeOK

\* Steps of the workers, and the end of the serving loop.
LEMMA RepliesUntouched ==
  ASSUME Inv, UNCHANGED <<clients, posted>>,
         closing' \in {closing, "ended"} \/ (closing = "open" /\ closing' = "joining"),
         recording' \in Clients \cup {Null}, broken' \in BOOLEAN,
         \A d \in Clients : /\ job'[d].at = "none" <=> job[d].at = "none"
                            /\ job'[d].id = job[d].id
  PROVE  RepliesInv' /\ Rest'
  <1>1. UNCHANGED <<wire, waiting, sent, mail, posted>> BY DEF clients
  <1>2. OwedInv' BY <1>1 DEF Inv, OwedInv, Worker, Posted
  <1> QED BY <1>1, <1>2 DEF RepliesInv, Rest, QuietInv, Inv, TypeOK, Worker

LEMMA SendKeeps ==
  ASSUME Inv, NEW c \in Clients, Send(c)
  PROVE  RepliesInv' /\ Rest'
  <1>1. PICK kind \in Kinds, w \in WorkIds, long \in BOOLEAN :
          wire' = [wire EXCEPT ![c] = [id |-> sent[c] + 1, kind |-> kind, w |-> w,
                                       long |-> long]]
    BY DEF Send
  <1> DEFINE q == [id |-> sent[c] + 1, kind |-> kind, w |-> w, long |-> long]
  <1>2. /\ ~waiting[c] /\ sent' = [sent EXCEPT ![c] = @ + 1]
        /\ waiting' = [waiting EXCEPT ![c] = TRUE]
        /\ UNCHANGED <<mail, job, posted, closing, recording, broken>>
    BY DEF Send, microphone
  <1>3. /\ wire \in [Clients -> RequestType] /\ waiting \in [Clients -> BOOLEAN]
        /\ sent \in [Clients -> Nat]
    BY DEF Inv, TypeOK
  <1>4. wire' = [wire EXCEPT ![c] = q] BY <1>1
  <1>5. q \in RequestType /\ q.id = sent[c] + 1 /\ q.w = w /\ q # NoRequest
    BY <1>3 DEF RequestType, NoRequest
  <1> HIDE DEF q
  <1>6. /\ wire' \in [Clients -> RequestType] /\ waiting' \in [Clients -> BOOLEAN]
        /\ sent' \in [Clients -> Nat] /\ wire'[c] = q /\ waiting'[c]
        /\ sent'[c] = sent[c] + 1
        /\ \A d \in Clients : d # c => /\ wire'[d] = wire[d] /\ waiting'[d] = waiting[d]
                                       /\ sent'[d] = sent[d]
    BY <1>2, <1>3, <1>4, <1>5
  <1>7. Worker(c, "none") /\ Posted(c) = {} /\ mail[c] = {} BY <1>2 DEF Inv, OwedInv
  <1>8. OwedInv' BY <1>2, <1>5, <1>6, <1>7 DEF Inv, OwedInv, Worker, Posted
  <1> QED BY <1>2, <1>6, <1>8 DEF RepliesInv, Rest, QuietInv, Inv, TypeOK, Worker

LEMMA ReceiveKeeps ==
  ASSUME Inv, NEW c \in Clients, Receive(c)
  PROVE  RepliesInv' /\ Rest'
  <1>1. PICK r \in mail[c] : mail' = [mail EXCEPT ![c] = @ \ {r}]
    BY DEF Receive
  <1>2. /\ waiting' = [waiting EXCEPT ![c] = FALSE]
        /\ UNCHANGED <<wire, sent, job, posted, closing, recording, broken>>
    BY DEF Receive, microphone
  <1>3. mail \in [Clients -> SUBSET ReplyType] /\ waiting \in [Clients -> BOOLEAN]
    BY DEF Inv, TypeOK
  <1>4. mail[c] = {r} /\ wire[c] = NoRequest /\ Worker(c, "none") /\ Posted(c) = {}
    BY <1>1 DEF Inv, OwedInv
  <1>5. /\ mail' \in [Clients -> SUBSET ReplyType] /\ waiting' \in [Clients -> BOOLEAN]
        /\ mail'[c] = {} /\ ~waiting'[c]
        /\ \A d \in Clients : d # c => mail'[d] = mail[d] /\ waiting'[d] = waiting[d]
    BY <1>1, <1>2, <1>3, <1>4
  <1>6. OwedInv' BY <1>2, <1>4, <1>5 DEF Inv, OwedInv, Worker, Posted
  <1> QED BY <1>2, <1>5, <1>6 DEF RepliesInv, Rest, QuietInv, Inv, TypeOK, Worker

LEMMA ForwardKeeps ==
  ASSUME Inv, Forward
  PROVE  RepliesInv' /\ Rest'
  <1>1. PICK r \in posted :
          /\ posted' = posted \ {r}
          /\ mail' = [mail EXCEPT ![r.client] = @ \cup {[id |-> r.id, status |-> r.status]}]
    BY DEF Forward
  <1> DEFINE c == r.client
             m == [id |-> r.id, status |-> r.status]
  <1>2. /\ closing = "open"
        /\ UNCHANGED <<wire, waiting, sent, job, closing, recording, broken>>
    BY DEF Forward, Serving, microphone
  <1>3. /\ mail \in [Clients -> SUBSET ReplyType]
        /\ posted \subseteq [client : Clients, id : Nat, status : Outcomes]
    BY DEF Inv, TypeOK
  <1>4. c \in Clients /\ m \in ReplyType /\ m.id = r.id /\ r \in Posted(c)
    BY <1>3 DEF ReplyType, Posted
  <1>5. /\ Posted(c) = {r} /\ r.id = sent[c] /\ mail[c] = {} /\ wire[c] = NoRequest
        /\ Worker(c, "none") /\ waiting[c]
    BY <1>3, <1>4 DEF Inv, OwedInv, TypeOK
  <1>6. mail' = [mail EXCEPT ![c] = @ \cup {m}] BY <1>1
  <1>7. /\ Posted(c)' = {} /\ \A d \in Clients : d # c => Posted(d)' = Posted(d)
    BY <1>1, <1>5 DEF Posted
  <1> HIDE DEF c, m
  <1>8. /\ mail' \in [Clients -> SUBSET ReplyType] /\ mail'[c] = {m}
        /\ \A d \in Clients : d # c => mail'[d] = mail[d]
    BY <1>3, <1>4, <1>5, <1>6
  <1>9. OwedInv' BY <1>2, <1>4, <1>5, <1>7, <1>8 DEF Inv, OwedInv, Worker
  <1> QED BY <1>1, <1>2, <1>3, <1>8, <1>9 DEF RepliesInv, Rest, QuietInv, Inv, TypeOK, Worker

LEMMA ReplyPosted ==
  ASSUME Inv, NEW c \in Clients, PostReply(c), ~job[c].long
  PROVE  RepliesInv' /\ Rest'
  <1> DEFINE r == [client |-> c, id |-> job[c].id, status |-> job[c].status]
  <1>1. /\ Worker(c, "released") /\ ~Worker(c, "none")
        /\ posted' = posted \cup {r} /\ job' = [job EXCEPT ![c] = NoJob]
        /\ UNCHANGED <<wire, waiting, sent, mail, closing, recording, broken>>
    BY DEF PostReply, clients, microphone, Worker
  <1>2. /\ job \in [Clients -> JobType] /\ job[c] \in JobType
        /\ posted \subseteq [client : Clients, id : Nat, status : Outcomes]
    BY DEF Inv, TypeOK
  <1>3. job[c].id = sent[c] /\ Posted(c) = {} /\ mail[c] = {} /\ wire[c] = NoRequest /\ waiting[c]
    BY <1>1 DEF Inv, OwedInv, TypeOK
  <1>4. /\ r \in [client : Clients, id : Nat, status : Outcomes]
        /\ r.client = c /\ r.id = sent[c]
    BY <1>2, <1>3 DEF JobType
  <1>5. Posted(c)' = {r} /\ \A d \in Clients : d # c => Posted(d)' = Posted(d)
    BY <1>1, <1>3, <1>4 DEF Posted
  <1> HIDE DEF r
  <1>6. /\ job'[c] = NoJob /\ \A d \in Clients : d # c => job'[d] = job[d]
    BY <1>1, <1>2
  <1>7. OwedInv' BY <1>1, <1>3, <1>4, <1>5, <1>6, Constructed DEF Inv, OwedInv, Worker
  <1>8. QuietInv' BY <1>1, <1>6, Constructed DEF Inv, QuietInv, Worker
  <1> QED BY <1>1, <1>2, <1>4, <1>7, <1>8 DEF RepliesInv, Rest, Inv, TypeOK

LEMMA CloseReturnsKeeps ==
  ASSUME Inv, CloseReturns
  PROVE  RepliesInv' /\ Rest'
  <1>1. /\ \A c \in Clients : Worker(c, "none")
        /\ closing' = "closed" /\ posted' = {} /\ UNCHANGED <<wire, waiting, sent, mail, job>>
        /\ UNCHANGED <<recording, broken>>
    BY DEF CloseReturns, clients, microphone
  <1>2. \A c \in Clients : Posted(c)' = {} BY <1>1 DEF Posted
  <1>3. OwedInv' BY <1>1, <1>2 DEF Inv, OwedInv, Worker
  <1> QED BY <1>1, <1>3 DEF RepliesInv, Rest, QuietInv, Inv, TypeOK, Worker

-----------------------------------------------------------------------------
(* The recording *)

LEMMA NotRecording == ASSUME recording' = Null PROVE RecordInv'
  BY DEF RecordInv

\* What the other threads do while the serving thread records.
LEMMA RecordKeeps ==
  ASSUME Inv, UNCHANGED <<sessions, recording>>, closing' \in {closing, "ended"},
         recording # Null => wire'[recording] = wire[recording],
         \A s \in Sids : heap[s].busy =>
           heap'[s].busy \/ \E c \in Clients : Owns(c) /\ job[c].sid = s,
         \A c \in Clients : Owns(c)' => Owns(c) /\ job'[c].sid = job[c].sid
  PROVE  RecordInv'
  BY DEF Inv, RecordInv, Target

LEMMA WorkerRecords ==
  ASSUME Inv, NEW c \in Clients,
         \/ RunBegins(c) \/ RunArms(c) \/ RunConcludes(c) \/ RunReturns(c)
         \/ StoreResult(c) \/ ReleaseBusy(c)
  PROVE  RecordInv'
  <1>1. heap \in [Sids -> SessionType] /\ job \in [Clients -> JobType] BY DEF Inv, TypeOK
  <1>2. UNCHANGED <<sessions, recording, wire, closing>>
    BY DEF RunBegins, RunArms, RunConcludes, RunReturns, StoreResult, ReleaseBusy,
           ServeOnly, clients, microphone
  <1>3. Owns(c)
    BY DEF RunBegins, RunArms, RunConcludes, RunReturns, StoreResult, ReleaseBusy, Owns,
           Worker
  <1>4. \A d \in Clients : job'[d].sid = job[d].sid /\ (d # c => job'[d] = job[d])
    <2> SUFFICES ASSUME NEW d \in Clients
                 PROVE  job'[d].sid = job[d].sid /\ (d # c => job'[d] = job[d])
      OBVIOUS
    <2>1. CASE RunBegins(c) BY <1>1, <2>1 DEF RunBegins, JobType
    <2>2. CASE RunArms(c) \/ RunConcludes(c) BY <2>2 DEF RunArms, RunConcludes
    <2>3. CASE RunReturns(c)
      <3>1. PICK status \in {"cancelled", "failed"} \cup
                              (IF heap[job[c].sid].mayBeOk THEN {"ok"} ELSE {}) :
              job' = [job EXCEPT ![c].at = "returned", ![c].status = status]
        BY <2>3 DEF RunReturns
      <3> QED BY <1>1, <3>1 DEF JobType
    <2>4. CASE StoreResult(c) BY <1>1, <2>4 DEF StoreResult, JobType
    <2>5. CASE ReleaseBusy(c) BY <1>1, <2>5 DEF ReleaseBusy, JobType
    <2> QED BY <2>1, <2>2, <2>3, <2>4, <2>5
  <1>5. \A s \in Sids : s # job[c].sid => heap'[s] = heap[s]
    <2> SUFFICES ASSUME NEW s \in Sids, s # job[c].sid PROVE heap'[s] = heap[s]
      OBVIOUS
    <2>1. CASE RunBegins(c) BY <1>1, <2>1 DEF RunBegins
    <2>2. CASE RunArms(c) BY <1>1, <2>2 DEF RunArms
    <2>3. CASE RunConcludes(c) BY <1>1, <2>3 DEF RunConcludes
    <2>4. CASE RunReturns(c) BY <1>1, <2>4 DEF RunReturns
    <2>5. CASE StoreResult(c) \/ ReleaseBusy(c) BY <1>1, <2>5 DEF StoreResult, ReleaseBusy
    <2> QED BY <2>1, <2>2, <2>3, <2>4, <2>5
  <1>6. \A d \in Clients : Owns(d)' => Owns(d) /\ job'[d].sid = job[d].sid
    BY <1>3, <1>4 DEF Owns
  <1>7. \A s \in Sids : heap[s].busy =>
           heap'[s].busy \/ \E d \in Clients : Owns(d) /\ job[d].sid = s
    BY <1>3, <1>5
  <1> QED BY <1>2, <1>6, <1>7, RecordKeeps

-----------------------------------------------------------------------------
(* The invariant *)

LEMMA InitOK == Init => Inv
  <1> SUFFICES ASSUME Init PROVE Inv OBVIOUS
  <1>1. TypeOK
    <2>1. /\ heap \in [Sids -> SessionType] /\ job \in [Clients -> JobType]
          /\ wire \in [Clients -> RequestType]
      BY Constructed, NewSessionType DEF Init
    <2>2. recording \in Clients \cup {Null} /\ broken \in BOOLEAN BY DEF Init
    <2> QED BY <2>1, <2>2 DEF Init, TypeOK
  <1>2. JobInv /\ SoleInv BY Constructed DEF Init, JobInv, SoleInv, Worker, Owns
  <1>3. PhaseInv /\ ResultsStayHome
    BY NewSessionType DEF Init, PhaseInv, ResultsStayHome
  <1>4. OwedInv /\ QuietInv /\ RecordInv
    BY Constructed DEF Init, OwedInv, QuietInv, RecordInv, Worker, Posted
  <1> QED BY <1>1, <1>2, <1>3, <1>4 DEF Inv

LEMMA HandleKeeps ==
  ASSUME Inv, NEW c \in Clients, Handle(c)
  PROVE  Inv'
  <1> USE Parts
  <1>0. sessions \in [WorkIds -> Sids \cup {Null}] BY DEF Inv, TypeOK
  <1>1. CASE Setup(c)
    <2>1. Taken(c) /\ recording = Null /\ UNCHANGED <<job, posted, microphone>>
      BY <1>1, TakesTaken DEF Setup
    <2>2. PICK status \in Outcomes \cup Errors : Reply(c, status)
      BY <1>1 DEF Setup, Outcomes, Errors
    <2>3. RepliesInv' /\ Rest' BY <2>1, <2>2, AnswerKeeps
    <2>5. RecordInv' BY <2>1, NotRecording DEF microphone
    <2>4. SessionsInv'
      <3>1. CASE UNCHANGED <<sessions, heap>> BY <1>0, <2>1, <3>1, SessionsUntouched
      <3>2. CASE \E s \in Unreferenced :
                   /\ heap' = [heap EXCEPT ![s] = NewSession(@.epoch + 1)]
                   /\ sessions' = [sessions EXCEPT ![wire[c].w] = s]
        <4>1. PICK s \in Unreferenced :
                /\ heap' = [heap EXCEPT ![s] = NewSession(@.epoch + 1)]
                /\ sessions' = [sessions EXCEPT ![wire[c].w] = s]
          BY <3>2
        <4>2. s \in Sids BY DEF Unreferenced
        <4>3. sessions' \in [WorkIds -> Sids \cup {Null}] BY <1>0, <4>1, <4>2
        <4> QED BY <2>1, <4>1, <4>3, SetupKeeps
      <3> QED BY <1>1, <3>1, <3>2 DEF Setup
    <2> QED BY <2>3, <2>4, <2>5
  <1>2. CASE Unknown(c) \/ Invalid(c) \/ Busy(c) \/ TaskInfo(c)
    <2>1. Taken(c) /\ recording = Null
      BY <1>2, TakesTaken DEF Unknown, Invalid, Busy, TaskInfo
    <2>2. PICK status \in Outcomes \cup Errors : Reply(c, status)
      BY <1>2 DEF Unknown, Invalid, Busy, TaskInfo, Outcomes, Errors
    <2>3. UNCHANGED <<sessions, heap, job, posted, microphone>>
      BY <1>2 DEF Unknown, Invalid, Busy, TaskInfo
    <2>4. RepliesInv' /\ Rest' BY <2>1, <2>2, <2>3, AnswerKeeps
    <2>5. SessionsInv' BY <1>0, <2>3, SessionsUntouched
    <2> QED BY <2>1, <2>3, <2>4, <2>5, NotRecording DEF microphone
  <1>3. CASE Infer(c)
    <2> DEFINE s == Target(c)
    <2>1. Taken(c) /\ recording = Null BY <1>3, TakesTaken DEF Infer
    <2>2. /\ s \in Sids \cup {Null} /\ Worker(c, "none") /\ job \in [Clients -> JobType]
      BY <2>1, RequestTaken DEF Inv, TypeOK
    <2>3. /\ s \in Sids /\ ~heap[s].busy
          /\ heap' = [heap EXCEPT ![s].busy = TRUE] /\ job' = [job EXCEPT ![c] = Spawned(c)]
          /\ UNCHANGED <<sessions, waiting, sent, mail, posted, recording, broken, closing>>
      BY <1>3, <2>2 DEF Infer, Known, microphone
    <2>5. /\ Spawned(c) \in JobType /\ Spawned(c).at = "spawned" /\ Spawned(c).sid = s
          /\ Spawned(c).status = "none" /\ ~Spawned(c).armed
          /\ Spawned(c).epoch = heap[s].epoch /\ Spawned(c).id = wire[c].id
      BY <2>1, <2>3, SpawnedJob DEF Taken
    <2> HIDE DEF s
    <2>6. SessionsInv' BY <2>2, <2>3, <2>5, FreeSession, TakeKeeps
    <2>7. job'[c] = Spawned(c) /\ \A d \in Clients : d # c => job'[d] = job[d]
      BY <2>2, <2>3
    <2>8. RepliesInv' /\ Rest' BY <2>1, <2>3, <2>5, <2>7, HandOverKeeps
    <2> QED BY <2>1, <2>3, <2>6, <2>8, NotRecording
  <1>4. CASE MicFails(c)
    <2> DEFINE s == Target(c)
    <2>1. /\ Taken(c) /\ recording = Null
          /\ Reply(c, "mic_failed") /\ "mic_failed" \in Outcomes \cup Errors
      BY <1>4, TakesTaken DEF MicFails, Errors
    <2>2. /\ s \in Sids \cup {Null} /\ Worker(c, "none") /\ job \in [Clients -> JobType]
      BY <2>1, RequestTaken DEF Inv, TypeOK
    <2>3. /\ s \in Sids /\ ~heap[s].busy /\ heap' = [heap EXCEPT ![s].busy = TRUE]
          /\ UNCHANGED <<sessions, job, posted, microphone>>
      BY <1>4, <2>2 DEF MicFails, Known
    <2>4. job' = [job EXCEPT ![c] = NoJob] BY <2>2, <2>3 DEF Inv, JobInv
    <2> HIDE DEF s
    <2>5. SessionsInv' BY <2>2, <2>3, <2>4, Constructed, FreeSession, TakeKeeps
    <2>6. RepliesInv' /\ Rest' BY <2>1, <2>3, AnswerKeeps
    <2> QED BY <2>1, <2>3, <2>5, <2>6, NotRecording DEF microphone
  <1>6. CASE Misread(c)
    <2> DEFINE s == Target(c)
    <2>1. Taken(c) /\ recording = Null BY <1>6, TakesTaken DEF Misread
    <2>2. /\ s \in Sids \cup {Null} /\ Worker(c, "none") /\ job \in [Clients -> JobType]
          /\ waiting[c] /\ Posted(c) = {} /\ mail[c] = {}
          /\ wire' \in [Clients -> RequestType] /\ wire'[c] = NoRequest
          /\ \A d \in Clients : d # c => wire'[d] = wire[d]
      BY <2>1, RequestTaken DEF Inv, TypeOK
    <2>3. /\ s \in Sids /\ ~heap[s].busy /\ heap' = [heap EXCEPT ![s].busy = TRUE]
          /\ UNCHANGED <<sessions, job, waiting, sent, mail, posted, recording, broken>>
          /\ closing' = "ended"
      BY <1>6, <2>2 DEF Misread, Known, microphone
    <2>4. job' = [job EXCEPT ![c] = NoJob] BY <2>2, <2>3 DEF Inv, JobInv
    <2> HIDE DEF s
    <2>5. SessionsInv' BY <2>2, <2>3, <2>4, Constructed, FreeSession, TakeKeeps
    <2>6. OwedInv' BY <2>2, <2>3 DEF Inv, OwedInv, Worker, Posted
    <2>7. RepliesInv' /\ Rest'
      BY <2>2, <2>3, <2>6 DEF RepliesInv, Rest, QuietInv, Inv, TypeOK
    <2> QED BY <2>1, <2>3, <2>5, <2>7, NotRecording
  <1>7. CASE MicOpens(c)
    <2> DEFINE s == Target(c)
    <2>1. /\ closing = "open" /\ wire[c] # NoRequest /\ s # Null /\ ~heap[s].busy
          /\ heap' = [heap EXCEPT ![s].busy = TRUE] /\ recording' = c
          /\ UNCHANGED <<sessions, clients, job, posted, broken, closing>>
      BY <1>7 DEF MicOpens, Known, Serving
    <2>2. /\ wire[c].w \in WorkIds /\ Worker(c, "none") /\ job \in [Clients -> JobType]
          /\ heap \in [Sids -> SessionType] /\ broken \in BOOLEAN
      BY <2>1 DEF Inv, OwedInv, TypeOK
    <2>3. s \in Sids BY <1>0, <2>1, <2>2 DEF Target
    <2>4. \A d \in Clients : Owns(d) => job[d].sid # s BY <2>1, <2>3, FreeSession
    <2>5. job' = [job EXCEPT ![c] = NoJob] BY <2>1, <2>2 DEF Inv, JobInv
    <2>6. Target(c)' = s /\ heap'[s].busy BY <2>1, <2>2, <2>3 DEF Target, clients, SessionType
    <2>7. RecordInv'
      <3>1. wire'[c] # NoRequest BY <2>1 DEF clients
      <3>2. \A d \in Clients : Owns(d)' => job'[d].sid # s BY <2>1, <2>4 DEF Owns
      <3> HIDE DEF s
      <3> QED BY <2>1, <2>3, <2>6, <3>1, <3>2 DEF RecordInv, Target
    <2> HIDE DEF s
    <2>8. SessionsInv' BY <2>1, <2>2, <2>3, <2>4, <2>5, Constructed, TakeKeeps
    <2>9. RepliesInv' /\ Rest' BY <2>1, <2>2, RepliesUntouched
    <2> QED BY <2>7, <2>8, <2>9
  <1>8. CASE RecordingEnds(c)
    <2> DEFINE s == Target(c)
    <2>1. /\ closing = "open" /\ recording = c /\ recording' = Null
          /\ wire' = [wire EXCEPT ![c] = NoRequest]
          /\ job' = [job EXCEPT ![c] = Spawned(c)]
          /\ UNCHANGED <<sessions, heap, waiting, sent, mail, posted, broken, closing>>
      BY <1>8 DEF RecordingEnds
    <2>2. /\ wire[c] # NoRequest /\ s \in Sids /\ heap[s].busy
          /\ \A d \in Clients : Owns(d) => job[d].sid # s
      BY <2>1, SessionNodeAssumption DEF Inv, RecordInv
    <2>3. /\ Worker(c, "none") /\ job \in [Clients -> JobType]
          /\ heap \in [Sids -> SessionType]
      BY <2>2 DEF Inv, OwedInv, TypeOK
    <2>4. heap' = [heap EXCEPT ![s].busy = TRUE] BY <2>1, <2>2, <2>3 DEF SessionType
    <2>5. /\ Spawned(c) \in JobType /\ Spawned(c).at = "spawned" /\ Spawned(c).sid = s
          /\ Spawned(c).status = "none" /\ ~Spawned(c).armed
          /\ Spawned(c).epoch = heap[s].epoch /\ Spawned(c).id = wire[c].id
      BY <2>2, SpawnedJob
    <2> HIDE DEF s
    <2>6. SessionsInv' BY <2>1, <2>2, <2>3, <2>4, <2>5, TakeKeeps
    <2>7. job'[c] = Spawned(c) /\ \A d \in Clients : d # c => job'[d] = job[d]
      BY <2>1, <2>3
    <2>8. Taken(c) BY <2>1, <2>2 DEF Taken
    <2>9. RepliesInv' /\ Rest' BY <2>1, <2>5, <2>7, <2>8, HandOverKeeps
    <2> QED BY <2>1, <2>6, <2>9, NotRecording
  <1>5. CASE Cancel(c) \/ Exit(c)
    <2>1. Taken(c) /\ recording = Null BY <1>5, TakesTaken DEF Cancel, Exit
    <2>2. /\ CancelPipelines({Target(c)}, TRUE) /\ Reply(c, "ok")
          /\ UNCHANGED <<posted, microphone>> /\ "ok" \in Outcomes \cup Errors
      BY <1>5 DEF Cancel, Exit, Outcomes
    <2>3. sessions' \in [WorkIds -> Sids \cup {Null}] BY <1>0, <1>5 DEF Cancel, Exit
    <2>4. SessionsInv' /\ \A d \in Clients : job'[d].at = job[d].at /\ job'[d].id = job[d].id
      BY <2>2, <2>3, CancelKeeps
    <2>5. RepliesInv' /\ Rest' BY <2>1, <2>2, <2>4, AnswerKeeps
    <2> QED BY <2>1, <2>2, <2>4, <2>5, NotRecording DEF microphone
  <1> QED BY <1>1, <1>2, <1>3, <1>4, <1>5, <1>6, <1>7, <1>8 DEF Handle

LEMMA WorkerStepKeeps ==
  ASSUME Inv, NEW c \in Clients, WorkerStep(c)
  PROVE  Inv'
  <1> USE Parts
  <1>0. sessions \in [WorkIds -> Sids \cup {Null}] BY DEF Inv, TypeOK
  <1>1. CASE PostReply(c)
    <2>1. /\ UNCHANGED <<sessions, heap, clients, recording, broken, wire>>
          /\ job \in [Clients -> JobType]
      BY <1>1 DEF PostReply, microphone, clients, Inv, TypeOK
    <2>2. CASE job[c].long
      <3>1. closing' = "ended" /\ UNCHANGED <<job, posted>> BY <1>1, <2>2 DEF PostReply
      <3>2. SessionsInv' BY <1>0, <2>1, <3>1, SessionsUntouched
      <3>3. RepliesInv' /\ Rest' BY <2>1, <3>1, RepliesUntouched DEF Inv, TypeOK
      <3>4. RecordInv' BY <2>1, <3>1, RecordKeeps DEF Owns
      <3> QED BY <3>2, <3>3, <3>4
    <2>3. CASE ~job[c].long
      <3>1. job' = [job EXCEPT ![c] = NoJob] /\ UNCHANGED closing
        BY <1>1, <2>3 DEF PostReply
      <3>2. \A d \in Clients : Owns(d)' => Owns(d) /\ job'[d].sid = job[d].sid
        BY <2>1, <3>1, Constructed DEF Owns
      <3>3. RecordInv' BY <2>1, <3>1, <3>2, RecordKeeps
      <3> QED BY <1>1, <2>3, <3>3, PostReplyKeeps, ReplyPosted
    <2> QED BY <2>2, <2>3
  <1>2. CASE \/ RunBegins(c) \/ RunArms(c) \/ RunConcludes(c) \/ RunReturns(c)
             \/ StoreResult(c) \/ ReleaseBusy(c)
    <2>1. SessionsInv'
      BY <1>2, RunBeginsKeeps, RunArmsKeeps, RunConcludesKeeps, RunReturnsKeeps,
         StoreResultKeeps, ReleaseBusyKeeps
    <2>2. UNCHANGED <<clients, posted, closing, recording, broken>>
      BY <1>2 DEF RunBegins, RunArms, RunConcludes, RunReturns, StoreResult, ReleaseBusy,
                  ServeOnly, microphone
    <2>3. job \in [Clients -> JobType] BY DEF Inv, TypeOK
    <2>4. \A d \in Clients : /\ job'[d].at = "none" <=> job[d].at = "none"
                            /\ job'[d].id = job[d].id
      <3> SUFFICES ASSUME NEW d \in Clients
                   PROVE  /\ job'[d].at = "none" <=> job[d].at = "none"
                          /\ job'[d].id = job[d].id
        OBVIOUS
      <3>1. job[c].at # "none"
        BY <1>2 DEF RunBegins, RunArms, RunConcludes, RunReturns, StoreResult, ReleaseBusy,
                    Worker
      <3>2. CASE RunBegins(c) BY <2>3, <3>1, <3>2 DEF RunBegins, JobType
      <3>3. CASE RunArms(c) \/ RunConcludes(c) BY <3>3 DEF RunArms, RunConcludes
      <3>4. CASE RunReturns(c) BY <2>3, <3>1, <3>4 DEF RunReturns, JobType
      <3>5. CASE StoreResult(c) BY <2>3, <3>1, <3>5 DEF StoreResult, JobType
      <3>6. CASE ReleaseBusy(c) BY <2>3, <3>1, <3>6 DEF ReleaseBusy, JobType
      <3> QED BY <1>2, <3>2, <3>3, <3>4, <3>5, <3>6
    <2>5. RepliesInv' /\ Rest' BY <2>2, <2>4, RepliesUntouched DEF Inv, TypeOK
    <2> QED BY <1>2, <2>1, <2>5, WorkerRecords
  <1> QED BY <1>1, <1>2 DEF WorkerStep

LEMMA StepKeeps == Inv /\ [Next]_vars => Inv'
  <1> SUFFICES ASSUME Inv, [Next]_vars PROVE Inv' OBVIOUS
  <1> USE Parts
  <1>0. sessions \in [WorkIds -> Sids \cup {Null}] BY DEF Inv, TypeOK
  <1>1. CASE UNCHANGED vars
    <2>1. SessionsInv' BY <1>0, <1>1, SessionsUntouched DEF vars
    <2>2. RepliesInv' /\ Rest'
      BY <1>1, RepliesUntouched DEF vars, clients, microphone, Inv, TypeOK
    <2>3. RecordInv' BY <1>1, RecordKeeps DEF vars, clients, microphone, Owns
    <2> QED BY <2>1, <2>2, <2>3
  <1>2. ASSUME NEW c \in Clients, Send(c) \/ Receive(c)
        PROVE  Inv'
    <2>1. UNCHANGED <<sessions, heap, job, recording, closing>>
      BY <1>2 DEF Send, Receive, microphone
    <2>2. SessionsInv' BY <1>0, <2>1, SessionsUntouched
    <2>3. recording # Null => wire'[recording] = wire[recording]
      <3>1. wire \in [Clients -> RequestType] /\ recording \in Clients \cup {Null}
        BY DEF Inv, TypeOK
      <3>2. CASE Send(c)
        <4>1. wire[c] = NoRequest BY <3>2 DEF Send, Inv, OwedInv
        <4>2. recording # Null => recording # c BY <4>1 DEF Inv, RecordInv
        <4> QED BY <3>1, <3>2, <4>2 DEF Send
      <3> QED BY <1>2, <3>2 DEF Receive
    <2>4. RecordInv' BY <2>1, <2>3, RecordKeeps DEF Owns
    <2> QED BY <1>2, <2>2, <2>4, SendKeeps, ReceiveKeeps
  <1>3. CASE Forward
    <2>1. SessionsInv' BY <1>0, <1>3, SessionsUntouched DEF Forward
    <2>2. RecordInv' BY <1>3, NotRecording DEF Forward, Serving, microphone
    <2> QED BY <1>3, <2>1, <2>2, ForwardKeeps
  <1>6. CASE DeviceBreaks
    <2>1. /\ UNCHANGED <<sessions, heap, clients, wire, job, posted, recording, closing>>
          /\ broken' = TRUE
      BY <1>6 DEF DeviceBreaks, clients
    <2>2. SessionsInv' BY <1>0, <2>1, SessionsUntouched
    <2>3. RepliesInv' /\ Rest' BY <2>1, RepliesUntouched DEF Inv, TypeOK
    <2>4. RecordInv' BY <2>1, RecordKeeps DEF Owns
    <2> QED BY <2>2, <2>3, <2>4
  <1>4. CASE CloseCancels
    <2>1. /\ CancelPipelines({sessions[w] : w \in WorkIds}, FALSE)
          /\ closing = "open" /\ closing' = "joining" /\ UNCHANGED <<sessions, clients, posted>>
          /\ recording = Null /\ UNCHANGED <<recording, broken>>
      BY <1>4 DEF CloseCancels, Serving, microphone
    <2>2. SessionsInv' /\ \A d \in Clients : job'[d].at = job[d].at /\ job'[d].id = job[d].id
      BY <1>0, <2>1, CancelKeeps
    <2>3. RepliesInv' /\ Rest' BY <2>1, <2>2, RepliesUntouched DEF Inv, TypeOK
    <2> QED BY <2>1, <2>2, <2>3, NotRecording
  <1>5. CASE CloseReturns
    <2>1. UNCHANGED <<heap, job>> /\ sessions' \in [WorkIds -> Sids \cup {Null}]
      BY <1>5 DEF CloseReturns
    <2>2. SessionsInv' BY <2>1, SessionsUntouched
    <2>3. recording' = Null
      BY <1>5 DEF CloseReturns, microphone, Inv, RecordInv
    <2> QED BY <1>5, <2>2, <2>3, CloseReturnsKeeps, NotRecording
  <1> QED BY <1>1, <1>2, <1>3, <1>4, <1>5, <1>6, HandleKeeps, WorkerStepKeeps DEF Next

\* The invariant holds throughout.
THEOREM Invariance == Spec => []Inv
  BY InitOK, StepKeeps, PTL DEF Spec

\* Every variable has its type.
THEOREM TypeCorrect == Spec => []TypeOK
  <1>1. Inv => TypeOK BY DEF Inv
  <1> QED BY <1>1, Invariance, PTL

\* A session's busy flag has one holder, which alone is inside run().
THEOREM OneRunEach == Spec => []OneRunPerSession
  <1>1. Inv => OneRunPerSession
    BY DEF Inv, SoleInv, JobInv, LocalInv, OneRunPerSession, Owns, OwnerStates, Worker
  <1> QED BY <1>1, Invariance, PTL

\* Every request of a client is owed exactly one reply until the node closes or its
\* process ends, and never gets two.
THEOREM OneReply == Spec => []OneReplyEach
  <1>1. Inv => OneReplyEach
    <2> SUFFICES ASSUME Inv, NEW c \in Clients
                 PROVE  LET owed == (IF wire[c] # NoRequest THEN 1 ELSE 0)
                                  + (IF ~Worker(c, "none") THEN 1 ELSE 0)
                                  + Cardinality(Posted(c)) + Cardinality(mail[c])
                        IN  /\ owed <= (IF waiting[c] THEN 1 ELSE 0)
                            /\ waiting[c] /\ closing = "open" => owed = 1
                            /\ \A r \in mail[c] : r.id = sent[c]
      BY DEF OneReplyEach, Posted
    <2> DEFINE A == IF wire[c] # NoRequest THEN 1 ELSE 0
               B == IF ~Worker(c, "none") THEN 1 ELSE 0
    <2>1. ASSUME NEW S, \A r, q \in S : r = q
          PROVE  Cardinality(S) = IF S = {} THEN 0 ELSE 1
      <3>1. CASE S = {} BY <3>1, FS_EmptySet
      <3>2. CASE S # {}
        <4>1. PICK r \in S : TRUE BY <3>2
        <4>2. S = {r} BY <2>1, <4>1
        <4> QED BY <3>2, <4>2, FS_Singleton
      <3> QED BY <3>1, <3>2
    <2>2. Cardinality(Posted(c)) = IF Posted(c) = {} THEN 0 ELSE 1
      BY <2>1 DEF Inv, OwedInv
    <2>3. Cardinality(mail[c]) = IF mail[c] = {} THEN 0 ELSE 1
      BY <2>1 DEF Inv, OwedInv
    <2>4. waiting[c] \in BOOLEAN BY DEF Inv, TypeOK
    <2>5. A + B + Cardinality(Posted(c)) + Cardinality(mail[c])
            <= IF waiting[c] THEN 1 ELSE 0
      BY <2>2, <2>3, <2>4 DEF Inv, OwedInv
    <2>6. waiting[c] /\ closing = "open" =>
            A + B + Cardinality(Posted(c)) + Cardinality(mail[c]) = 1
      BY <2>2, <2>3 DEF Inv, OwedInv
    <2>7. \A r \in mail[c] : r.id = sent[c] BY DEF Inv, OwedInv
    <2> QED BY <2>5, <2>6, <2>7
  <1> QED BY <1>1, Invariance, PTL

\* No session shows a result of the session it replaced under its work_id.
THEOREM ResultsHome == Spec => []ResultsStayHome
  <1>1. Inv => ResultsStayHome BY DEF Inv
  <1> QED BY <1>1, Invariance, PTL

\* A run cancelled during its working phase does not end ok.
THEOREM CancelHonoured == Spec => []ArmedCancelHonoured
  <1>1. Inv => ArmedCancelHonoured
    BY Constructed DEF Inv, JobInv, LocalInv, ArmedCancelHonoured
  <1> QED BY <1>1, Invariance, PTL

\* Once close() has returned nothing of the node is at work.
THEOREM ClosedQuiet == Spec => []ClosedIsQuiet
  <1>1. Inv => ClosedIsQuiet BY DEF Inv, QuietInv, PhaseInv, ClosedIsQuiet, Worker
  <1> QED BY <1>1, Invariance, PTL
=============================================================================
