---------------------------- MODULE SessionNode ----------------------------
(***************************************************************************)
(* apps/session_node: the process that owns the sessions.                  *)
(*                                                                         *)
(* One serving thread takes requests off a ROUTER socket, answers setup,   *)
(* cancel, taskinfo and exit itself and gives each accepted inference a    *)
(* worker thread of its own; the workers' replies come back through an     *)
(* inproc pipe and leave by the serving thread.  A session is a shared     *)
(* object: the map and every worker running on it hold a reference, so an  *)
(* exited session lives on until its worker is done, next to the session a *)
(* new setup of the same work_id created.                                  *)
(*                                                                         *)
(* A pipeline is known here by its contract alone (PipelineContract, which *)
(* SessionPipeline implements; what happens there between its arming and   *)
(* its last look at the cancellation is one phase here).  Clients are REQ  *)
(* sockets, one request outstanding each, named by its rank at its client. *)
(*                                                                         *)
(* Nothing catches what a handler throws past its error replies: the       *)
(* process then ends, whoever waits.                                       *)
(***************************************************************************)
EXTENDS Naturals, FiniteSets

CONSTANTS
  Clients,      \* the REQ peers
  WorkIds,
  Sids,         \* the Session objects that can be alive at a time
  Null,         \* no session, no client, no work_id
  MaxRequests   \* bound: requests per client

ASSUME SessionNodeAssumption ==
  Null \notin Sids \cup Clients \cup WorkIds /\ MaxRequests \in Nat

VARIABLES
  sessions,  \* sessions_: work_id to Session, Null when absent
  heap,      \* the Session objects, alive or not
  wire,      \* per client, its request on the way to the ROUTER
  waiting,   \* per client, whether it awaits a reply
  sent,      \* per client, the requests sent so far
  mail,      \* per client, the replies on the way to it
  job,       \* per client, the worker thread serving its inference
  posted,    \* the replies in the inproc pipe
  recording, \* the client whose inference the serving thread is recording for
  broken,    \* the recording device has failed
  closing    \* close(): not called, joining the workers, or returned; or the
             \* process has ended by an exception

clients == <<wire, waiting, sent, mail>>
microphone == <<recording, broken>>
vars == <<sessions, heap, clients, job, posted, microphone, closing>>

-----------------------------------------------------------------------------
(* Types *)

\* "mic" is an inference whose input is recorded before the worker starts,
\* "misshapen" one whose payload is no object or has a field of a wrong type,
\* "invalid" a frame that is not JSON or of a type the node does not serve.
Inferences == {"inference", "mic", "misshapen"}
Kinds == Inferences \cup {"setup", "cancel", "taskinfo", "exit", "invalid"}
Outcomes == {"none", "ok", "cancelled", "failed"}
Errors == {"bad_state", "unavailable", "unknown", "busy", "mic_failed", "invalid"}

NoRequest == [id |-> 0, kind |-> "invalid", w |-> Null, long |-> FALSE]
NoResult == [id |-> 0, status |-> "none", epoch |-> 0]
NoJob == [at |-> "none", id |-> 0, sid |-> Null, status |-> "none",
          epoch |-> 0, armed |-> FALSE, acked |-> FALSE, long |-> FALSE]

\* long: the request's names, echoed, put its reply beyond the limit of to_json.
RequestType == [id : Nat, kind : Kinds, w : WorkIds \cup {Null}, long : BOOLEAN]
ReplyType == [id : Nat, status : Outcomes \cup Errors]

\* A session: busy, last_result and last_request_id, and its pipeline.  epoch
\* counts the sessions the object has been: history, as are the epochs below.
SessionType == [busy : BOOLEAN, result : [id : Nat, status : Outcomes, epoch : Nat],
                phase : {"free", "arming", "working", "ending"}, stop : BOOLEAN,
                mayBeOk : BOOLEAN, last : Outcomes, epoch : Nat]

\* armed and acked are history: the pipeline was cancelled during the working
\* phase of the run; a cancel or exit was acknowledged before its end.
JobType == [at : {"none", "spawned", "running", "returned", "stored", "released"},
            id : Nat, sid : Sids \cup {Null}, status : Outcomes,
            epoch : Nat, armed : BOOLEAN, acked : BOOLEAN, long : BOOLEAN]

TypeOK ==
  /\ sessions \in [WorkIds -> Sids \cup {Null}]
  /\ heap \in [Sids -> SessionType]
  /\ wire \in [Clients -> RequestType]
  /\ waiting \in [Clients -> BOOLEAN]
  /\ sent \in [Clients -> Nat]
  /\ mail \in [Clients -> SUBSET ReplyType]
  /\ job \in [Clients -> JobType]
  /\ posted \subseteq [client : Clients, id : Nat, status : Outcomes]
  /\ recording \in Clients \cup {Null} /\ broken \in BOOLEAN
  /\ closing \in {"open", "joining", "closed", "ended"}

-----------------------------------------------------------------------------
(* Helpers *)

NewSession(epoch) ==
  [busy |-> FALSE, result |-> NoResult, phase |-> "free", stop |-> FALSE,
   mayBeOk |-> FALSE, last |-> "none", epoch |-> epoch]

\* Mutant: the worker holds a raw pointer instead of a reference.
ReferencedByMapOnly == {sessions[w] : w \in WorkIds}

\* The objects nothing refers to: a new session is made of one of them.
Referenced == {sessions[w] : w \in WorkIds} \cup {job[c].sid : c \in Clients}
Unreferenced == Sids \ Referenced

\* The serving thread takes the request of c; it does one thing at a time.
Serving == closing = "open" /\ recording = Null

Takes(c, kind) ==
  /\ Serving
  /\ wire[c] # NoRequest /\ wire[c].kind = kind
  /\ wire' = [wire EXCEPT ![c] = NoRequest]

Target(c) == sessions[wire[c].w]
Known(c) == Target(c) # Null

\* send_reply: to_json() throws when the reply is too long.
Reply(c, status) ==
  /\ IF wire[c].long
     THEN closing' = "ended" /\ UNCHANGED mail
     ELSE /\ mail' = [mail EXCEPT ![c] = @ \cup {[id |-> wire[c].id, status |-> status]}]
          /\ UNCHANGED closing
  /\ UNCHANGED <<waiting, sent>>

\* The worker thread of the inference of c.
Spawned(c) ==
  [NoJob EXCEPT !.at = "spawned", !.id = wire[c].id, !.sid = Target(c),
                !.epoch = heap[Target(c)].epoch, !.long = wire[c].long]

\* SessionPipeline::cancel(), whatever phase the pipeline is in.
CancelPipelines(targets, acknowledged) ==
  /\ heap' = [s \in Sids |-> IF s \in targets
                             THEN [heap[s] EXCEPT !.stop = TRUE] ELSE heap[s]]
  /\ job' = [c \in Clients |->
               IF job[c].sid \in targets /\ job[c].at \in {"spawned", "running"}
               THEN [job[c] EXCEPT !.acked = @ \/ (acknowledged /\ heap[job[c].sid].phase # "ending"),
                                   !.armed = @ \/ heap[job[c].sid].phase = "working"]
               ELSE job[c]]

Init ==
  /\ sessions = [w \in WorkIds |-> Null]
  /\ heap = [s \in Sids |-> NewSession(0)]
  /\ wire = [c \in Clients |-> NoRequest]
  /\ waiting = [c \in Clients |-> FALSE]
  /\ sent = [c \in Clients |-> 0]
  /\ mail = [c \in Clients |-> {}]
  /\ job = [c \in Clients |-> NoJob]
  /\ posted = {} /\ closing = "open"
  /\ recording = Null /\ broken = FALSE

-----------------------------------------------------------------------------
(* The clients *)

Send(c) ==
  /\ ~waiting[c] /\ sent[c] < MaxRequests
  /\ \E kind \in Kinds, w \in WorkIds, long \in BOOLEAN :
       wire' = [wire EXCEPT ![c] =
                  [id |-> sent[c] + 1, kind |-> kind, w |-> w, long |-> long]]
  /\ sent' = [sent EXCEPT ![c] = @ + 1]
  /\ waiting' = [waiting EXCEPT ![c] = TRUE]
  /\ UNCHANGED <<sessions, heap, mail, job, posted, microphone, closing>>

Receive(c) ==
  /\ \E r \in mail[c] : mail' = [mail EXCEPT ![c] = @ \ {r}]
  /\ waiting' = [waiting EXCEPT ![c] = FALSE]
  /\ UNCHANGED <<sessions, heap, wire, sent, job, posted, microphone, closing>>

-----------------------------------------------------------------------------
(* The serving thread *)

\* A work_id in use is refused; a backend that cannot be created (a remote
\* node that does not answer) leaves no session behind.
Setup(c) ==
  /\ Takes(c, "setup")
  /\ \/ Known(c) /\ Reply(c, "bad_state") /\ UNCHANGED <<sessions, heap>>
     \/ ~Known(c) /\ Reply(c, "unavailable") /\ UNCHANGED <<sessions, heap>>
     \/ /\ ~Known(c)
        /\ \E s \in Unreferenced :
             /\ heap' = [heap EXCEPT ![s] = NewSession(@.epoch + 1)]
             /\ sessions' = [sessions EXCEPT ![wire[c].w] = s]
        /\ Reply(c, "ok")
  /\ UNCHANGED <<job, posted, microphone>>

\* A request for a work_id that is not in the map.
Unknown(c) ==
  /\ \E kind \in Inferences \cup {"cancel", "taskinfo", "exit"} : Takes(c, kind)
  /\ ~Known(c) /\ Reply(c, "unknown")
  /\ UNCHANGED <<sessions, heap, job, posted, microphone>>

Invalid(c) ==
  /\ Takes(c, "invalid") /\ Reply(c, "invalid")
  /\ UNCHANGED <<sessions, heap, job, posted, microphone>>

\* Mutant: a busy session answers nothing.
BusySilent(c) ==
  /\ \E kind \in Inferences : Takes(c, kind)
  /\ Known(c) /\ heap[Target(c)].busy
  /\ UNCHANGED <<sessions, heap, waiting, sent, mail, job, posted, microphone, closing>>

\* The compare-and-swap on busy fails.
Busy(c) ==
  /\ \E kind \in Inferences : Takes(c, kind)
  /\ Known(c) /\ heap[Target(c)].busy
  /\ Reply(c, "busy")
  /\ UNCHANGED <<sessions, heap, job, posted, microphone>>

\* Mutant: busy is set without being compared.
InferUnguarded(c) ==
  /\ Takes(c, "inference") /\ Known(c)
  /\ heap' = [heap EXCEPT ![Target(c)].busy = TRUE]
  /\ job' = [job EXCEPT ![c] = Spawned(c)]
  /\ UNCHANGED <<sessions, waiting, sent, mail, posted, microphone, closing>>

\* It succeeds: a worker takes over, and will reply.
Infer(c) ==
  /\ Takes(c, "inference")
  /\ Known(c) /\ ~heap[Target(c)].busy
  /\ heap' = [heap EXCEPT ![Target(c)].busy = TRUE]
  /\ job' = [job EXCEPT ![c] = Spawned(c)]
  /\ UNCHANGED <<sessions, waiting, sent, mail, posted, microphone, closing>>

\* It succeeds, and reading the input out of the payload throws.
Misread(c) ==
  /\ Takes(c, "misshapen")
  /\ Known(c) /\ ~heap[Target(c)].busy
  /\ heap' = [heap EXCEPT ![Target(c)].busy = TRUE]
  /\ closing' = "ended"
  /\ UNCHANGED <<sessions, waiting, sent, mail, job, posted, microphone>>

\* Mutant: the return after the error reply is missing.
MicFailsFallsThrough(c) ==
  /\ Takes(c, "mic")
  /\ Known(c) /\ ~heap[Target(c)].busy
  /\ heap' = [heap EXCEPT ![Target(c)].busy = TRUE]
  /\ Reply(c, "mic_failed")
  /\ job' = [job EXCEPT ![c] = Spawned(c)]
  /\ UNCHANGED <<sessions, posted, microphone>>

\* The recording device does not open, or the build has none: an error goes
\* back, from after the compare-and-swap.
MicFails(c) ==
  /\ Takes(c, "mic")
  /\ Known(c) /\ ~heap[Target(c)].busy
  /\ heap' = [heap EXCEPT ![Target(c)].busy = TRUE]
  /\ Reply(c, "mic_failed")
  /\ UNCHANGED <<sessions, job, posted, microphone>>

\* It opens: the serving thread records, and does nothing else meanwhile.
MicOpens(c) ==
  /\ Serving /\ wire[c] # NoRequest /\ wire[c].kind = "mic"
  /\ Known(c) /\ ~heap[Target(c)].busy
  /\ heap' = [heap EXCEPT ![Target(c)].busy = TRUE]
  /\ recording' = c
  /\ UNCHANGED <<sessions, clients, job, posted, broken, closing>>

\* The device fails: every read is empty, and the loop retries the same frame.
DeviceBreaks ==
  /\ closing = "open" /\ recording # Null
  /\ broken' = TRUE
  /\ UNCHANGED <<sessions, heap, clients, job, posted, recording, closing>>

\* The frames are complete, and a worker takes over.
RecordingEnds(c) ==
  /\ closing = "open" /\ recording = c /\ ~broken
  /\ recording' = Null
  /\ wire' = [wire EXCEPT ![c] = NoRequest]
  /\ job' = [job EXCEPT ![c] = Spawned(c)]
  /\ UNCHANGED <<sessions, heap, waiting, sent, mail, posted, broken, closing>>

Cancel(c) ==
  /\ Takes(c, "cancel") /\ Known(c)
  /\ CancelPipelines({Target(c)}, TRUE)
  /\ Reply(c, "ok")
  /\ UNCHANGED <<sessions, posted, microphone>>

Exit(c) ==
  /\ Takes(c, "exit") /\ Known(c)
  /\ sessions' = [sessions EXCEPT ![wire[c].w] = Null]
  /\ CancelPipelines({Target(c)}, TRUE)
  /\ Reply(c, "ok")
  /\ UNCHANGED <<posted, microphone>>

\* taskinfo reads the last result, the state and busy one after the other, and
\* changes nothing.
TaskInfo(c) ==
  /\ Takes(c, "taskinfo") /\ Known(c)
  /\ Reply(c, "ok")
  /\ UNCHANGED <<sessions, heap, job, posted, microphone>>

\* A worker's reply is forwarded to its client.
Forward ==
  /\ Serving
  /\ \E r \in posted :
       /\ posted' = posted \ {r}
       /\ mail' = [mail EXCEPT ![r.client] = @ \cup {[id |-> r.id, status |-> r.status]}]
  /\ UNCHANGED <<sessions, heap, wire, waiting, sent, job, microphone, closing>>

-----------------------------------------------------------------------------
(* A worker thread *)

Worker(c, l) == job[c].at = l
ServeOnly == UNCHANGED <<sessions, clients, microphone, closing>>

\* run() is entered, or refused because another run is inside.
RunBegins(c) ==
  /\ Worker(c, "spawned")
  /\ LET s == job[c].sid
     IN  IF heap[s].phase = "free"
         THEN /\ heap' = [heap EXCEPT ![s].phase = "arming"]
              /\ job' = [job EXCEPT ![c].at = "running"]
         ELSE /\ job' = [job EXCEPT ![c].at = "returned", ![c].status = "failed"]
              /\ UNCHANGED heap
  /\ ServeOnly /\ UNCHANGED posted

\* run() forgets the cancellations that came before this point.
RunArms(c) ==
  /\ Worker(c, "running") /\ heap[job[c].sid].phase = "arming"
  /\ heap' = [heap EXCEPT ![job[c].sid].phase = "working", ![job[c].sid].stop = FALSE]
  /\ ServeOnly /\ UNCHANGED <<job, posted>>

\* Mutant: the run does not look at the cancellation.
RunConcludesBlind(c) ==
  /\ Worker(c, "running") /\ heap[job[c].sid].phase = "working"
  /\ \E ok \in BOOLEAN :
       heap' = [heap EXCEPT ![job[c].sid].phase = "ending", ![job[c].sid].mayBeOk = ok]
  /\ ServeOnly /\ UNCHANGED <<job, posted>>

RunConcludes(c) ==
  /\ Worker(c, "running") /\ heap[job[c].sid].phase = "working"
  /\ \E ok \in {FALSE, ~heap[job[c].sid].stop} :
       heap' = [heap EXCEPT ![job[c].sid].phase = "ending", ![job[c].sid].mayBeOk = ok]
  /\ ServeOnly /\ UNCHANGED <<job, posted>>

RunReturns(c) ==
  /\ Worker(c, "running") /\ heap[job[c].sid].phase = "ending"
  /\ \E status \in {"cancelled", "failed"} \cup
                     (IF heap[job[c].sid].mayBeOk THEN {"ok"} ELSE {}) :
       /\ heap' = [heap EXCEPT ![job[c].sid].phase = "free",
                               ![job[c].sid].mayBeOk = FALSE,
                               ![job[c].sid].last = status]
       /\ job' = [job EXCEPT ![c].at = "returned", ![c].status = status]
  /\ ServeOnly /\ UNCHANGED posted

StoreResult(c) ==
  /\ Worker(c, "returned")
  /\ heap' = [heap EXCEPT ![job[c].sid].result =
                [id |-> job[c].id, status |-> job[c].status, epoch |-> job[c].epoch]]
  /\ job' = [job EXCEPT ![c].at = "stored"]
  /\ ServeOnly /\ UNCHANGED posted

ReleaseBusy(c) ==
  /\ Worker(c, "stored")
  /\ heap' = [heap EXCEPT ![job[c].sid].busy = FALSE]
  /\ job' = [job EXCEPT ![c].at = "released"]
  /\ ServeOnly /\ UNCHANGED posted

\* The reply is pushed and the thread ends, dropping its reference; a reply
\* that is too long throws out of the thread, and ends the process.
PostReply(c) ==
  /\ Worker(c, "released")
  /\ IF job[c].long
     THEN closing' = "ended" /\ UNCHANGED <<job, posted>>
     ELSE /\ posted' = posted \cup
                        {[client |-> c, id |-> job[c].id, status |-> job[c].status]}
          /\ job' = [job EXCEPT ![c] = NoJob]
          /\ UNCHANGED closing
  /\ UNCHANGED <<sessions, heap, clients, microphone>>

-----------------------------------------------------------------------------
(* close(), by the serving thread once its loop has ended *)

CloseCancels ==
  /\ Serving
  /\ closing' = "joining"
  /\ CancelPipelines({sessions[w] : w \in WorkIds}, FALSE)
  /\ UNCHANGED <<sessions, clients, posted, microphone>>

\* Mutant: the workers are not joined.
CloseReturnsUnjoined ==
  /\ closing = "joining"
  /\ closing' = "closed"
  /\ posted' = {}
  /\ sessions' = [w \in WorkIds |-> Null]
  /\ UNCHANGED <<heap, clients, job, microphone>>

\* Mutant: close() waits for the replies to be forwarded, which it stopped.
CloseReturnsFlushed ==
  /\ closing = "joining" /\ \A c \in Clients : Worker(c, "none")
  /\ posted = {}
  /\ closing' = "closed"
  /\ sessions' = [w \in WorkIds |-> Null]
  /\ UNCHANGED <<heap, clients, job, posted, microphone>>

\* Every worker is joined; then the sockets go, with the replies not forwarded.
CloseReturns ==
  /\ closing = "joining" /\ \A c \in Clients : Worker(c, "none")
  /\ closing' = "closed"
  /\ posted' = {}
  /\ sessions' = [w \in WorkIds |-> Null]
  /\ UNCHANGED <<heap, clients, job, microphone>>

-----------------------------------------------------------------------------
(* The specification *)

Handle(c) ==
  \/ Setup(c) \/ Unknown(c) \/ Invalid(c) \/ Busy(c) \/ Infer(c) \/ Misread(c)
  \/ MicFails(c) \/ MicOpens(c) \/ RecordingEnds(c)
  \/ Cancel(c) \/ Exit(c) \/ TaskInfo(c)

WorkerStep(c) ==
  /\ closing # "ended"
  /\ \/ RunBegins(c) \/ RunArms(c) \/ RunConcludes(c) \/ RunReturns(c)
     \/ StoreResult(c) \/ ReleaseBusy(c) \/ PostReply(c)

Next ==
  \/ \E c \in Clients : Send(c) \/ Receive(c) \/ Handle(c) \/ WorkerStep(c)
  \/ DeviceBreaks \/ Forward \/ CloseCancels \/ CloseReturns

Spec == Init /\ [][Next]_vars

\* The serving loop polls both of its sockets, which queue fairly; workers are
\* threads, and their runs return (SessionPipeline's RunReturns); a recording
\* ends unless its device breaks.  Nobody has to send a request, nor to close
\* the node.
Fairness ==
  /\ \A c \in Clients : WF_vars(Handle(c)) /\ WF_vars(WorkerStep(c)) /\ WF_vars(Receive(c))
  /\ WF_vars(Forward) /\ WF_vars(CloseReturns)

FairSpec == Spec /\ Fairness

-----------------------------------------------------------------------------
(* Safety *)

\* The worker holds the session's busy flag.
Owns(c) == job[c].at \in {"spawned", "running", "returned", "stored"}

\* One stream per session: the flag has one holder, so run() never finds
\* another run inside and never reports the refusal of its compare-and-swap.
OneRunPerSession ==
  \A c \in Clients : Owns(c) =>
    LET s == heap[job[c].sid]
    IN  /\ s.busy
        /\ \A d \in Clients : Owns(d) /\ job[d].sid = job[c].sid => c = d
        /\ s.phase = "free" <=> ~Worker(c, "running")

\* A client is owed one reply at a time: it is in the mail, or posted, or the
\* duty of the one thread that serves the request, and never answered twice.
\* The duty is lost only by a close() or with the process.
OneReplyEach ==
  \A c \in Clients :
    LET owed == (IF wire[c] # NoRequest THEN 1 ELSE 0)
              + (IF ~Worker(c, "none") THEN 1 ELSE 0)
              + Cardinality({r \in posted : r.client = c})
              + Cardinality(mail[c])
    IN  /\ owed <= (IF waiting[c] THEN 1 ELSE 0)
        /\ waiting[c] /\ closing = "open" => owed = 1
        /\ \A r \in mail[c] : r.id = sent[c]

\* A session never shows the result of a run of another one: not of the one it
\* replaced under the same work_id, whose worker may end after the new setup.
ResultsStayHome ==
  \A s \in Sids : heap[s].result # NoResult => heap[s].result.epoch = heap[s].epoch

\* Cancel, exit or close during the working phase of a run: it never ends ok.
ArmedCancelHonoured ==
  \A c \in Clients : job[c].armed => job[c].status # "ok"

\* When close() has returned no thread is left to touch the sockets it reset,
\* and no pipeline is inside a run.
ClosedIsQuiet ==
  closing = "closed" => /\ \A c \in Clients : Worker(c, "none")
                        /\ \A s \in Sids : heap[s].phase = "free"

-----------------------------------------------------------------------------
(* Liveness *)

\* Every request is answered, unless the node is closed meanwhile, an exception ends
\* the process, or the recording device fails and keeps the serving thread for ever.
EveryRequestAnswered ==
  \A c \in Clients : waiting[c] ~> (~waiting[c] \/ closing # "open" \/ broken)

\* close() returns, or a worker it waits for ends the process.
CloseEnds == (closing = "joining") ~> (closing \in {"closed", "ended"})

-----------------------------------------------------------------------------
(* What the documents say, and the code does not do *)

\* An exit voids the inference in flight at once, and a cancellation ends it
\* as cancelled, from the moment the inference has been accepted.
AckedCancelHonoured ==
  \A c \in Clients : job[c].acked => job[c].status # "ok"

=============================================================================
