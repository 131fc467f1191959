# VoxOrchestra in TLA+

Specifications, model checks and machine-checked proofs of
VoxOrchestra, an offline voice assistant made of several processes: a TCP
gateway, a unit manager that hands out tasks, a session node that runs
ASR → router → LLM → TTS → audio sink, and model nodes behind it. Every
definition is translated from the C++ sources (`src/...` below is the root of
the repository); `PROJECT.json` maps each one to the lines it stands for.

    tlc -workers 2 -config MCSessionPipeline_safety.cfg MCSessionPipeline
    tlapm SessionPipelineProofs.tla

Section 1 lists the parts of the system, 2 the modules and how they correspond
to the code, 3 the runs, 4 the properties, 5 where the code and its documents
part, 6 the proofs, and 7 what is left out.

## 1. Inventory

### 1.1 The system

A client speaks NDJSON over TCP to the **edge gateway** (reactor, one loop
thread), which forwards each line over ZeroMQ REQ to the **unit manager**
(single-threaded REP server) or the **session node** (ROUTER server with worker
threads). The manager owns the `work_id`s and routes each to a node. A node is
either the session node or a **runtime node** (REP server over a `TaskRuntime`,
table of `TaskChannel`s) hosting an `IBackend`. A session runs a **pipeline**,
whose ASR, LLM and TTS are backends: local ones or **remote backends**, which
drive a runtime node through a control socket and receive its events on a
**data plane** of PUB/SUB topics.

### 1.2 The components

| Component | State | Operations | Interacts by | What is hard | Correct when |
|---|---|---|---|---|---|
| Session state machine `libs/session/.../session_state_machine` | state, mutex | `dispatch`, `reset` | called by the pipeline's driver and by cancellers | events of two threads in any order | a run leaves it idle |
| Session pipeline `libs/session/.../session_pipeline` | `running_`, `cancelled_`, `generation_`, the locals of `run()`, two workers, two queues | `run`, `cancel` | callbacks from backends, threads it starts and joins, atomics | cancel at any point, drops, timeouts, exceptions, workers over captured locals | one run at a time, workers joined, cancellation honoured, nothing lost silently, output in order |
| Bounded queue `libs/common/.../bounded_queue.hpp` | items, `closed_`, peak | `push_timeout`, `pop_timeout`, `close`, ... | two threads | close with items left, capacity 0 | bounded, FIFO, drained after close |
| Session node `apps/session_node` | map of sessions, each with `busy`, last result and a pipeline; workers; inproc pipe | setup, inference, cancel, taskinfo, exit, `close` | ROUTER socket, threads, shared ownership | a worker outlives its session; a new session of the same name; early returns after `busy` is taken | one stream per session, one reply per request, results stay in their session |
| Unit manager `apps/common/unit_manager` | routing table, round robin index | setup, relay, exit | REQ to nodes with a deadline | request lost or executed after the manager gave up; node restart | routes = registry, ids fresh, acknowledged tasks reachable |
| Task registry `libs/task_registry` | allocated ids, next id | `allocate`, `release` | called by its owner | capacity | no leak, no reuse |
| Task runtime, task channel `libs/runtime` | table of channels; per channel state and stop flag | setup, `setup_with`, inference, cancel, taskinfo, exit | two mutexes, a flag shared with the backend | channel used after the table is let go | single stream, stop signals neither lost nor misdirected |
| Runtime node `apps/common/runtime_node` | a `TaskRuntime` | one handler per request | REP | exceptions of backends | answers always |
| RPC, pub/sub, push/pull `libs/transport` | sockets, READY handshake | call, serve, publish, ... | ZeroMQ | timeouts, lost events before a subscription spreads | one answer or a timeout |
| Data plane `libs/dataplane` | event numbers per topic | publish, receive, conversions | pub/sub | loss, order | events of a stream in order |
| Remote backends `backends/net` | control and event sockets, `cancelled_` | setup, infer, cancel, exit | RPC and events | two completion signals, cancel flag, exit after a new setup | one result per request |
| Reactor network layer `libs/network` | poller, channels, connections, pending tasks | loop, send, close | callbacks, wake-up pipe | close inside a batch, tasks around `quit` | no use after close, tasks run once |
| NDJSON decoder `libs/network/.../frame_decoder` | buffer | `feed` | called on each read | frames split anywhere, length limit | same frames however split |
| Edge gateway `apps/edge_gateway` | connections | forward, stop | loop tasks | forward blocks the loop | an answer per line |
| RKLLM backend `backends/rkllm` | generation, token queue | generate, cancel | vendor thread | late tokens | tokens of their own generation only |
| Sentence chunker `libs/common/.../sentence_chunker` | buffer | `feed`, `flush` | called with each token | terminators cut between tokens | same sentences however cut |
| Retrieval `libs/rag`, `apps/rag_node` | index | normalise, tokenise, rank, route | pure functions | UTF-8, ties, thresholds | the best documents, in a fixed order |
| Envelope, events, base64, WAV `libs/protocol`, `libs/dataplane`, `libs/common` | none | encode, decode | pure functions | mistyped fields, padding, truncation | round trips, orderly refusals |
| Node processes `apps/*_node/main.cpp` | options | start, adapters | configuration, flags, factories | which input wins, what fails when | serves only what it was asked for |
| Model and audio backends, `voice_cli`, log | devices, a socket, a file | wrappers, I/O | calls | | not modelled (section 7) |

### 1.3 The hazards

`PROJECT.json` lists under `hazards` each thing in this code that a test would
hardly reach, at the line where it bites, with the properties that cover it. The
main families:

- a cancellation that lands between two effects of another thread (pipeline, session node, task channel, remote backend, RKLLM backend);
- a worker or a callback that outlives what it refers to (pipeline, session node, RKLLM backend, a batch of the reactor);
- a request that is executed after its sender gave up (unit manager, remote backends), or a message that is lost before its receiver is ready or for want of room (data plane), or with its socket (remote backends);
- two pieces of bookkeeping that must agree (routes and registry, table and registry, drops and frames, epoll and the table of connections);
- one of several steps that fails (recording, factory, TTS worker, a backend, a reply that is too long to be written, the start of a process);
- a stream cut anywhere, and numbers at their limits (decoders, base64, scores).

Two hazards have no property. The TTS node names its output file by a hash of the
text alone (tts_node/main.cpp:113): file names are left out. And
the session node's `workers_` only ever grows (session_node.cpp:397): that is memory,
and changes no behaviour.

## 2. The modules

| Module | Models | Built on |
|---|---|---|
| `SessionStateMachine` | the transition function of the session's state machine | |
| `BoundedQueue` | the queue as data: what each member function does under its mutex | |
| `SessionPipeline` | `run()` and `cancel()` with all threads | both of the above |
| `PipelineContract` | what a pipeline promises the session that owns it | |
| `SessionNode` | the session node with clients, workers and `close()` | `PipelineContract`, one instance per session |
| `UnitManager` | manager, registry and nodes, over a network that delays and loses | |
| `TaskRuntime` | task table and channels under concurrent callers | |
| `NetBackend` | sessions of a remote backend, both their sockets, the runtime node and what lies between | |
| `RkllmNode` | an inference of the LLM node against the vendor's thread | |
| `EdgeGateway` | the gateway on its event loop, with clients and the kernel | |
| `TextStreams` | NDJSON frame decoder and sentence chunker | |
| `Retrieval` | normal form, tokens, knowledge file, index, router, RAG node | |
| `WireFormats` | envelope, data plane event, base64, backend events, WAV reader | |
| `NodeAdapters` | what the ASR node feeds and the TTS node writes | `WireFormats` |
| `NodeStartup` | options, configuration and checks of the four `main.cpp` | |
| `PureFunctions` | every input of the functions above, up to a bound | the five above it |
| `SessionPipelineProofs` | theorems about the pipeline | `SessionPipeline`, `PipelineContract` |
| `SessionNodeProofs`, `UnitManagerProofs`, `TaskRuntimeProofs`, `NetBackendProofs`, `EdgeGatewayProofs`, `RkllmNodeProofs`, `PureFunctionsProofs` | theorems | the module they are named for |
| `MC...` | the values and symmetry sets of the runs | the module they are named for |

The layers meet in a contract. `SessionPipeline` implements `PipelineContract`
(`ImplementsContract`, checked and proved), and `SessionNode` knows a pipeline by that
contract alone: a worker of the node takes the pipeline through the contract's phases by
the same conditions, with what lies between its arming and its last look at the
cancellation (output, padding, the closing of the sink) as one phase. That is how
`SessionNode` is written, and not a property of it. `SessionPipeline` in turn lets a backend
emit any number of results, end early or throw, which leaves room for whatever the
backends of `NetBackend` and `RkllmNode` may do.

Definitions whose comment begins with "Mutant:" are deliberate bugs, one or more for
each property: with the definition below it replaced by the mutant, TLC finds
the property violated. They are not part of the specifications.

### 2.1 SessionPipeline

A *driver* is a thread that calls `run()`; `pc[d]` is where it is. A *canceller*
calls `cancel()` at any moment; its three effects (generation, flag and backend
cancels, state machine) are three steps. The two workers are `tts` and `sink`.
The locals of `run()` are the record `run` and the two queues: there is one copy
since `RunExclusive` shows that one driver at a time is past the
compare-and-swap on `running_`.

| Code (`session_pipeline.cpp`) | Actions |
|---|---|
| 55–95 entry, generation, sink | `Enter`, `Reject`, `ClearCancelled`, `ResetMachine`, `Open` |
| 126–191 input and ASR | `Listen`, `FeedAudio`, `StopFeeding`, `HearQuery` |
| 193–232 router, direct answer, LLM and its callback | `Route`, `AnswerDirectly`, `AskLlm`, `LlmToken`, `LlmReturns`, `PushSentence`, `LlmDone` |
| 236–296 workers | `Speak`; `TtsTake` ... `TtsThrow`; `SinkTake` ... `SinkRefuse` |
| 298–300 catch | `BackendThrows` |
| 302–356 common tail | `CloseText`, `JoinTts`, `JoinSink`, `Pad`, `PadFrame`, `StopPadding`, `CloseSink`, `CheckCancelled`, `Succeed`, `Fail`, `Abort`, `CompleteCancel`, `Leave` |
| 358–366 `cancel()` | `CancelGeneration`, `CancelFlag`, `CancelDispatch` |

Texts and samples are ranks: a sentence is its rank among the sentences offered,
a PCM frame the pair of its sentence and its rank in it. A backend call may emit
any number of results up to a bound, return early or throw. Time is one event
per run, `Expire`, possible only if the request has a deadline; a push on a full
queue may give up at any moment. Nothing drains the text queue before the
workers start, so a push on a full text queue always ends in a drop. The padding looks at
`cancelled_` and the deadline once (`Pad`) and then writes its silence frame by frame
(`PadFrame`), with cancellations in between. `acct` is history for the properties.

`PipelineContract` has the same in its phases: while a run is "working" its output is
stopped by a cancellation but for one frame; a run that was not cancelled by then may go to
"padding", in which silence is written up to `MinFrames` whatever is cancelled; in
"closing" nothing is written; and in "ending" the verdict can only get worse.

### 2.2 SessionNode

`sessions` is the map, `heap` the `Session` objects. A session is reachable
from the map and from each worker that runs on it; `Setup` makes the new session
of an object nothing refers to (`Unreferenced`), which is what shared ownership
gives. One serving thread performs `Setup` ... `TaskInfo`, `Forward`,
`CloseCancels` and `CloseReturns`; a worker (`job[c]`) performs `RunBegins` ...
`PostReply`. Clients are REQ sockets: one request outstanding, numbered. A
client's request and its reply travel by `wire`, `posted` and `mail`. An
inference is "mic" when its input has to be recorded before the worker starts:
the device does not open (`MicFails`, an error reply from after the compare-and-swap on
`busy`), or the serving thread is `recording` (`MicOpens`) and serves nobody until the
frames are complete (`RecordingEnds`), which they never are once the device is `broken`
(`DeviceBreaks`): each read is then empty and the loop tries the same frame again. An inference is
"misshapen" when its payload is no object or has a field of another type: reading it
throws, after `busy` was taken (`Misread`). A request is `long` when the names that its
reply repeats make that reply longer than a message may be: `to_json()` throws, in the
serving thread (`Reply`) or in the worker (`PostReply`). Nothing catches either exception,
and the process has `ended`.
`taskinfo` reads the last result, the state and `busy` one after the other
without a common lock (session_node.cpp:441–453), so what it reports may mix two
moments; it changes nothing and is one step here.

### 2.3 UnitManager

`handle_request` and `forward` for one request at a time; the registry
(`alive`, `nextSeq`) and the routes; the nodes as the tables of their tasks. A
forwarded request sits in the node's `inbox` until the node takes it. When the
manager gives up (`TimedOut`) it stays there or is lost; its late answer goes to
a socket that no longer exists (`AnswerTo`). Requests in an inbox are taken in
any order, since each new REQ socket is a connection of its own. `NodeCrash`
empties a node. `held` is history: tasks whose setup was acknowledged and whose
exit nobody asked for yet.

### 2.4 TaskRuntime

The critical sections of `TaskRuntime` and `TaskChannel`: `setup`, `setup_with`
and `exit` under the table's mutex; `inference` and `cancel` look the channel up
(`LookUp`), let the table go, and then lock the channel (`StartInference`,
`RefuseInference`, `CancelChannel`), which `inference` lets go while the backend
works (`BackendReturns`, `FinishInference`). A backend may throw, as it does when its event
sink cannot publish (`BackendThrows`): the call is left before the channel is locked again,
which stays busy for good. Channels are never removed from
`chans`, only from `table`: a caller may still hold one that was terminated.
`setup` takes ids from the runtime's own registry and compares the registry with
the capacity; `setup_with` is given the id and compares the table. The program's
nodes use `setup_with` only (runtime_node.cpp:44), from one thread; `setup` and
calls from several threads are the library's interface, used by its tests.

### 2.5 NetBackend

One `work_id` and one stage: the sessions are the `NetBackendSession` objects that the
session node makes for it one after the other, numbered. Each has two REQ sockets,
`rpc` (setup and inference) and `ctl` (cancel and the destructor's exit), with
the REQ state of each (`sock`) and the reply that has arrived (`inbox`). A socket that
awaits a reply refuses to send, with ZeroMQ's EFSM error: on `rpc` that would end an
inference, and the model marks the socket broken; on `ctl` nobody sees the error.

| Code (`net_backend_session.cpp`, `rpc.cpp`) | Actions |
|---|---|
| constructor, `setup` | `Connect`, `SetupEnds` |
| `cancel` by any thread, by the session's exit and by the destructor; how its call ends | `Cancel`, `Release`, `Destroy`, with `RaiseFlag`; `CallEnds` |
| the rest of the destructor: exit, and the sockets go | `Leave`, `Vanish` |
| `drive_inference` | `StartDrive`, `Hear`, `TakeReply`, `Complete`, `GiveUp` |
| `RpcClient` | `Send`, `Receive`, `Reconnect`, `Orphans` |
| `RuntimeNode::handle_request`, its event sink | `Take`, `Publish`, `FinishInference` |
| `pubsub.cpp`, external restart | `SubscriptionArrives`, `Restart` |

A socket that is made anew or destroyed drops its request, since its linger is 0
(rpc.cpp:52–54), or leaves it with the node, no longer `live`: the
node may still execute it and nobody hears the answer (`Orphans`). The node takes the requests of
different sockets in any order. A subscription reaches the node's PUB
socket some time after it was made, in the order of the subscriptions; what is published before is lost,
and any later event may be lost too, as a PUB socket drops what it has for a subscriber at its
high-water mark (`Publish`, `missed`).
Each wait with a deadline may end at any time. `cancel()` sends a request on `ctl` and waits for its answer,
for a second at most. What the node does with it is left out, as it takes it when no inference
runs and does nothing; what the call does to the socket is not. The call may end with the answer or by its
deadline, after which the socket is made anew, or by a signal, after which it is
not (rpc.cpp:85–87) and refuses whatever comes next, the destructor's exit included. `cancel()` may be
called by any thread, also while another call waits: the socket refuses the second one and
the first goes on. `heard` is cleared at the start of each inference; `asked`, `refused`, `admitted`,
`abandoned`, `missed`, `interrupted`, `unsent`, `dropped` and `restarted` are history.

### 2.6 RkllmNode

`main` is the thread of `LlmNodeBackend::run_rkllm` (`Infer`, `Begin`, `SeeDone`, `SeeStop`,
`Abort`, `Join`), `worker` the thread that runs `generate` and `pump` (`Start`,
`Check`, `RunAsync`, `StopPumping`, `PumpItem`, `Finish`), and `Vendor` the callback on the
library's thread (`VendorToken`, `VendorEnd`): of each run it emits tokens at its
own pace and ends when it likes, and an abort may or may not stop it. `Ask` sets
the cancel flag of the task channel. Text is a sequence of pieces, each with
the run it is from: a word, white space, the end tag of the thinking part. The
filter of the thinking part is that of the code, over pieces instead of bytes, and so is
the trimming of the acknowledged answer (`StripThink`, `Trim`), which the stream does not
have. Half a character (WAITING) makes an item of the queue without text, since the vendor's thread
copies text of RKLLM_RUN_NORMAL only. `sent` keeps the text of a run until the inference
that began it has returned; `survivors` is history: the runs that were still live when
`generate` began, and how much they had emitted by then.

### 2.7 EdgeGateway

One thread runs the loop: `CheckQuit`, `Poll`, `Dispatch` of each ready channel of the
batch, `RunPendingTasks`. A readable connection goes through `Read`,
`HandleMessage`, `Forwarded` (the blocking call of the manager) and `FramesDone`, a
writable one through `Write`, the listening socket through `Accept`. `Start`, `Stop`
and `Signal` are the gateway's own. Clients connect, send, read, shut down and reset whenever they
like. Frames are numbered and a reply carries its frame's number; a frame is
`"line"`, `"wide"`, so near the limit that an error which repeats a part of it is longer
than a message may be, or `"huge"`, which breaks the limit. The process may end on the spot
(`Die`): when the reply to a wide frame throws, or by SIGPIPE, when it writes to a client that is gone. Three tables have to agree:
`connections_`, the poller's map and epoll's interest; descriptors are reused, the lowest
free one first, as the kernel does.

### 2.8 The functions

`TextStreams`, `Retrieval`, `WireFormats`, `NodeAdapters` and `NodeStartup` are
operators, each next to what it promises (`FramesOfTheStream`, `RouteIsSound`,
`EnvelopeRoundTrips`, `NodeStartsSound`, ...), which is written without
the algorithm: a reference definition, a round trip, or an ordering.
`PureFunctions` makes a state of each input: a `kind` and a sequence
that grows by an element at a time, so that TLC visits every sequence up to the bound of
its kind. A chunked stream, a text, a knowledge file, edits of a valid
message, the bytes of an event, the chunks of a recording and a command line
are such sequences.

Bytes appear where the code looks at them (UTF-8, base64, the
decoders), one value per class of byte; a JSON document is its fields with
their types, since the text is the JSON library's. BM25 scores are natural
numbers given by `Weight`: the code's are doubles, of which only the order and the
sign matter to the rank and the thresholds. The length of a message is the number of its
values, with payloads that fit in no message or nearly fill one, and is compared with `MaxSize` as a whole,
the fields included that `to_json` adds; integers are narrowed to `int` (`Wide` stands for 2^32 + 1) and
what is not UTF-8 is replaced in payloads as in fields, as the JSON library does it.

## 3. The runs

Bounds are chosen so that each hazard has room for one more actor or item than
it needs, and no more.

| Run | Checks | Bounds and why they are enough |
|---|---|---|
| `pipeline_safety` | seven invariants | 2 drivers (a second caller for the compare-and-swap, and a second run on the members the first left behind), 1 canceller, capacities 1 and 2 with 2 sentences of up to 2 frames: both queues overflow, both drain after close, a frame can be in each place while the next is made; padding of a frame |
| `pipeline_live` | `RunReturns`, `ImplementsContract` | 1 driver calling twice, 2 cancellations: a cancellation of one run can complete in the next; text capacity 0 (taken as 1), padding of 2 frames, so that a cancellation falls between them |
| `node` | five invariants, `EveryRequestAnswered`, `CloseEnds` | 2 clients × 2 requests on one `work_id`, of any kind and with a reply that may be too long, 3 session objects, so that one is set up again while an older one still has its worker; a second `work_id` shares nothing with the first but the map and the pipe. No symmetry: it is unsound for liveness |
| `manager_safety` | the three invariants | 2 nodes of capacity 1, registry of 2, 6 requests, 1 crash: setup, timeout, second setup, exit and a third setup while requests of the first are late |
| `runtime` | three invariants, `TerminatedForGood` | 3 callers and 7 calls: an inference, a canceller and a second inference that starts as the first ends; 2 names and capacity 2; runtimes used by `setup`, by `setup_with` and by both; a factory and a backend that may throw |
| `net_backend` | four invariants | 2 sessions, the second made while the exit of the first is on its way; inferences of 3 events, so that one may be lost between two that are heard; 2 operations shared by inferences, cancels from outside, signals, dropped events and restarts: an abandoned inference and the next one, or a cancel, a signal, a loss or a restart during one |
| `rkllm` | three invariants, `InferReturns` | 2 inferences, of which the first may leave its run live in the vendor; 2 tokens of a run, each a word, the end tag with white space and a word behind it, or half a character: the tag before, between and after text, white space that is trimmed, halves between words |
| `gateway` | two invariants, `AnswersArrive`, `QuitEnds` | 2 clients with 2 frames and 1, of each of the three lengths: both ready in one batch, a descriptor given to the second after the first is closed; room for 1 reply in the kernel and 1 in the buffer: a partial write, and a client too slow for the limit |
| `functions` | four invariants | each kind of input up to the length at which its cases meet: 7 bytes for lines of at most 2, 5 for sentences, 4 characters of every UTF-8 class, 4 lines of a knowledge file, 2 edits of a message, whose limit is 20 values: one that is accepted may be too long to be written, 5 bytes of base64 (the accumulator of 16 bits, 32 in the code, wraps around), 4 chunks of a recording, 3 frames of audio, 4 words of a command line |
| `pipeline_stuck`, `node_early_cancel`, `net_mute` | one property each, violated | section 5 |

`CHECK_DEADLOCK FALSE` is in every configuration: each system stops when the
bounded requests are used up, and a real one when nobody calls. That nobody
gets stuck on the way is what `RunReturns`, `EveryRequestAnswered`,
`CloseEnds`, `InferReturns`, `AnswersArrive` and `QuitEnds` are for.

### 3.1 Fairness

In each case weak fairness, of what the operating system schedules or a deadline
ends, and none of what a user, a device or a vendor may choose.

- `SessionPipeline`: each thread that has started (driver, workers, a canceller inside `cancel()`), and the end of backend calls: `LlmReturns`, `TtsReturn` or an exception stays enabled for as long as the call goes on. No one is obliged to call `run()` or `cancel()`, and no deadline to pass. A backend that never returns would block `run()` for ever in the code too.
- `SessionNode`: serving each client (the poll loop looks at both sockets and a ROUTER queues its peers fairly), each worker (threads whose `run()` returns, by `RunReturns`), forwarding, the end of a recording whose device works, a client taking its reply, and the return of `close()` once called. Nobody is obliged to send, or to close.
- `RkllmNode`: the node's thread, whose deadline always comes, and the worker. Nothing of the vendor: it may never call back.
- `EdgeGateway`: the loop's thread, and a client that reads what it was sent. No client is obliged to send or to leave.

## 4. What the properties say

The pipeline:
- `WithinBounds`: the types, and that neither queue nor its peak exceeds the capacity, however long the answer and slow the consumer.
- `RunExclusive`, `WorkersConfined`: one owner of the locals; no thread that uses them by reference outlives the joins, on the exception paths as on the others, none pushes into a closed queue, and they work only while the machine is speaking or cancelling.
- `CancelHonoured`: once `cancelled_` is set after the run has reset it and before its final look, the run does not report ok.
- `SinkHearsTheAnswer`: what is written is in the order of the answer, with silence last, whichever frames two lossy queues drop; what is still written after a cancellation is one frame of the answer or the rest of a padding that had begun, never both, and the padding stops at the minimum.
- `OkRunAccountsForAll`: a run that reports ok lost no sentence or frame that its counters do not show.
- `FailedRunEndsIdle`: a run that does not report ok leaves the machine idle. `RunReturns`: every call of `run()` returns. `ImplementsContract`: section 2.

The session node:
- `OneRunPerSession`: the flag `busy` has one holder, and `run()` is never refused. `OneReplyEach`: a waiting client is owed one reply, by one part of the node at a time; only `close()` and the end of the process lose it. `ResultsStayHome`: a worker that ends late writes into its own session only. `ArmedCancelHonoured`: cancel, exit or close during a run. `ClosedIsQuiet`: nothing runs after `close()`. `EveryRequestAnswered`, `CloseEnds`: unless an exception ends the process, or a recording device that fails keeps the serving thread (section 5).

The unit manager:
- `RoutesMatchRegistry`; `WorkIdsNameOneTask` (an old request never meets a new task, and no task is on two nodes); `HeldTasksReachable` (an acknowledged task stays routed to the node that has it).

The task runtime:
- `SingleStream`: one inference for each busy channel, and none, now or later, for one whose backend threw; `StopSignalsAreExact` (a stop reaches the inference it was asked for, and no later one); `TableIsTrue` (table, channels and registry agree, within the capacity where the code keeps it); `TerminatedForGood`.

The remote backend:
- `SocketsInStep`: each way out of `drive_inference` that leaves a request on its socket is made good by the next inference. On `ctl`, where cancels meet each other and their deadlines, the destructor's exit is refused only if a signal ended an earlier call.
- `OkHasItsEvents`: an inference that ends ok heard events of its own topic, in order and the last one included, and from the first on without a gap unless the PUB socket dropped one of them. Two sessions with the same `work_id` use the same topics, so events of an older session's abandoned inference may mix in: the property says when this can happen.
- `ReadyHasTask`: a session set up has its task at the node, whatever late exits do; the exceptions are a restart of the node, and a session whose setup was refused, whose destructor sends an exit for a task that is not its own. `TaskReleased`: a session that is gone leaves no task at the node, unless its exit is still to be taken, was refused by its socket or dropped with it; no late setup or inference of it brings the task back.

The LLM node:
- `WorkerInsideInfer`: the callback's captured locals outlive it. `DoneMatchesStream`: the acknowledged answer is the streamed one, but for the white space behind the end tag. `AnswerIsFresh`: nothing that was emitted before `generate` began gets into an answer, whatever is still queued or live by then; what a run that outlived its abort emits later may, and without such a run the answer is its own run's, whole and in order. `InferReturns`.

The gateway:
- `TablesAgree`: `connections_`, poller and epoll hold the same connections, each under its own descriptor, although callbacks close connections in the middle of a batch. `RepliesInOrder`: each frame once, in order, none lost. `AnswersArrive`, `QuitEnds`: a forward that blocks the loop delays others and loses nothing; a signal at any moment, or a start that fails, ends the process. Both hold unless a client has ended it before (section 5).

The functions:
- `CutsDoNotMatter`: frames and sentences do not depend on how a stream was cut, but for a Chinese terminator that is cut itself. `RetrievalIsSound`: a stable normal form; a knowledge file loaded or refused as it should be; the best documents, in a fixed order; the router's levels as the thresholds say, with the documents at the levels that answer from them (at the others the property leaves open whether there are any). `FormatsRoundTrip`: what arrives is refused by one of its errors, or comes back from its own encoding if that can be written; the program's own messages, if they can be written, arrive with what is not UTF-8 replaced; events and recordings come back. `NodesDoAsAsked`: a process that serves has usable options, and its adapters feed and write everything or say that they did not.

## 5. Where the code and its documents part

| Run | What happens | Said by |
|---|---|---|
| `pipeline_stuck` | a `cancel()` that sets its flag after the final look (session_pipeline.cpp:330) and dispatches `kCancel` before `kTtsDone` (:335) leaves the machine in Cancelling; the run returns ok and dispatches no `kCancelComplete` | session_state_machine.hpp:5, "任意阶段 --cancel--> Cancelling → Idle" |
| `node_early_cancel` | a cancel or exit acknowledged after the inference was accepted and before `run()` clears `cancelled_` (:67) is forgotten: the inference ends ok | session_node.cpp:473, session_fault_test.cpp:7 |
| `net_mute` | `cancel()` sets `cancelled_` (net_backend_session.cpp:103) and nothing clears it: every later inference of the session is sent, and returns at :155 as cancelled | session_net_e2e_test.cpp:362 |

`FailedRunEndsIdle` is what remains true next to the first one: a run that does
*not* report ok always ends idle. `ArmedCancelHonoured` is what remains next to
the second.

The models show the following too, as behaviour they contain and properties allow for:

- A padding that has begun is not called off by a cancellation (session_pipeline.cpp:316; its comment at :312 says that a cancelled run is not padded), so that silence of up to `tts_min_duration` follows a cancel; see `SinkHearsTheAnswer`.
- An inference whose payload is no object or has a field of another type throws past the handler (session_node.cpp:341–347), as does a reply that is too long to be written, and the process ends; a microphone that fails while it records is read for ever (:374–376). No client is answered then, though :241 says that a failure must be answered so that no client hangs; see `EveryRequestAnswered`.
- The early returns of a recording (session_node.cpp:362–366, :382–385) leave `busy` set with nothing in flight: the session refuses every later inference (protocol.md:38 tells the client to try later). So does a backend of a runtime node that throws (task_channel.cpp:51–60) with its channel; see `SingleStream`.
- An exit that the manager gives up on and the node executes later leaves a route and a slot that nothing frees (unit_manager.cpp:101; unit_manager.hpp:7 frees both when an exit succeeds).
- An exception of the backend factory leaves `setup_with` and the node's handler (task_runtime.cpp:59, runtime_node.hpp:48); inside `setup` (:35) it leaves its slot allocated. `setup` counts the registry and `setup_with` the table (:30, :55), so a runtime used through both can hold more than `max_tasks` tasks. `TableIsTrue` states what is left in each case.
- Topics are unique within a session only (net_backend_session.hpp:78–79), see `OkHasItsEvents`. Events may be missing from the middle of an inference that ends ok, when the node's PUB socket drops some (pubsub.cpp:77–88).
- The exit of a remote session is not sure to be executed, as the comment at net_backend_session.cpp:66–67 has it: it is not sent if a signal ended an earlier call on the same socket, which is then not made anew (rpc.cpp:85–87), and it is dropped with the socket if it was not handed over (linger 0). Nor is it the last request of a session: a setup that ran out of time may be executed after the exit of its own session and leave a task that nobody releases, which is why `TaskReleased` is about acknowledged setups.
- A token is labelled with the current generation when it is queued (rkllm_llm_backend.cpp:136), not with that of its run (:71, "产生该事件的会话代号"), so the check at :166, meant for the vendor's late tokens, passes a late token of an aborted run; see `AnswerIsFresh`. `pending_waiting` (:168–170) is always empty: the vendor's thread copies the text of RKLLM_RUN_NORMAL only (:128–133), so the half of a character that comes as WAITING is not put together with the rest.
- The acknowledged answer is trimmed (llm_node/main.cpp:60–62) and the streamed one is not (:186); see `DoneMatchesStream`.
- A message whose text is within the limit may be longer once all its fields are written, and `to_json()` then throws (message_envelope.cpp:68): in the gateway (edge_gateway.cpp:73, :103, :139) an error that repeats part of a frame near the limit ends the process, where the comment at message_envelope.cpp:62–65 asks for an error reply to whatever comes in. So does SIGPIPE, on a write to a client that is gone (tcp_connection.cpp:158); see `AnswersArrive`.
- A version of 4294967297 is narrowed to 1 and accepted (message_envelope.cpp:95).
- The levels without context (router.cpp:33) return the chunks they found, where the comment in rag_node/main.cpp:17 has none at L3. `RetrievalIsSound` leaves this open.
- Frames that were read together are all handled, also those after one whose reply closed the connection (tcp_connection.cpp:114).
- The conversion of a remote event's samples copies half of the bytes (net_backend_session.cpp:43), where the comment at :24 calls it the inverse of the other one: the second half is silence. `FormatsRoundTrip` claims the number of samples only.
- A symbol between two words joins them in a query's normal form and keeps them apart in a document's tokens (text_normalizer.cpp:102); a threshold that is not positive reads the first of no chunks (router.cpp:41), and a keyword of symbols alone is found in every query (:24): the run has positive thresholds and proper keywords.
- A three-byte terminator whose bytes come in two tokens does not end a sentence (sentence_chunker.cpp:12). A blank line that ends in a carriage return makes a knowledge file unusable (knowledge_store.cpp:41).
- The base64 accumulator is never masked and shifted for ever (dataplane_event.cpp:54): only its low bits are read, and they are right whenever unused ones are dropped, which is how the model has it.
- A configuration file with a field of the wrong type ends the process by an uncaught exception, as does an event endpoint that is taken (asr_node/main.cpp:281 and :360, llm_node/main.cpp:254, tts_node/main.cpp:332).

## 6. What is proved

The theorems hold for every value of the constants: any number of threads,
sessions, nodes, requests, cancellations and crashes, and any capacities. They rest
on the named assumptions of the modules (bounds and capacities are natural
numbers; there is at least one node, session or event; of the pure functions, what their
inputs are made of) and nothing else.

`SessionPipelineProofs`. `TypeOK` is inductive by itself (`TypeCorrect`); its
proof has one lemma per group of actions with the same frame. Next to it, what the queues hold is within
their capacities (`QueuesStayBounded`). `Invariance`
adds, per program point of the driver, what holds of the members: from the point where the
workers may be alive to their joins, which of them may still be, with the sink
open and the PCM queue not closed (`ResourceInv`); the states the machine can be in at
each point, given that a canceller may have moved any cancellable one to
Cancelling (`StageInv`); and that a flag set in time stays visible up to the final look,
past which `run.cancelled` remembers it (`CancelInv`). From it follow `Exclusive`,
`WorkersStayInRun`, `FailureEndsIdle` and `CancellationHonoured`; `RunExclusive` is
inductive next to `TypeOK`, the others are not.

`SessionPipelineProofs` also proves `ImplementsContract`. The mapping reads the
contract's phase, stop flag and grace from the pipeline's variables;
`LateInv` counts the frame that may be written after a cancellation, says that there is none once the
padding has begun; `CountInv` ties the frames written to the frames counted, and `VerdictInv` fixes
the verdict before the ending. Each action of the pipeline is then a step of the
contract or a stutter, one lemma per group.

Its last part proves the two properties about data. For the order
(`AnswerHeard`) the invariant lays the frames written, held by the sink worker, queued and held by
the TTS worker end to end, with the sentences queued behind them, and says that this one line is strictly increasing
(`TextInv`, `LineInv`, `SpokenInv`). With `LateInv` it gives `OutputStops`, what a cancellation lets through. For the books (`AllAccounted`) it says that, for as long as the run can still
succeed, every sentence and every frame is in a queue, in a worker's hand, in the log
or in a counter (`BooksInv`); past the joins the queues and hands are empty, and
the counters are left.

`SessionNodeProofs`. `Invariance` ties `busy`, the worker and the contract's phase
of each session together, counts each reply in the one place where it can be, over a recording and
up to the end of the process, and
keeps every session object to its references, which is why a new session of
an old name is another object. From it: `OneRunEach`, `OneReply`, `ResultsHome`,
`CancelHonoured`, `ClosedQuiet`.

`UnitManagerProofs`. The invariant says (`SiteInv`) that a `work_id` concerns one
node (by its table, its inbox, its route or the call out to it) and has been given
out; (`SetupInv`) that while a setup is out nobody holds its id and only setups of it can
be on their way; (`HeldInv`) that no exit of a held task is out. Without the last
two a late exit could undo an acknowledged setup. From it: `RoutesAndRegistryAgree`,
`WorkIdsStayUnique`, `HeldTasksStay`.

`TaskRuntimeProofs`. The invariant relates a caller's program point to the channel it
has looked up, the stop flag to the inference in progress, a channel whose backend threw to nobody,
and slots to table and registry, per way of setting up. From it: `OneInferenceEach`, `StopSignalsHit`,
`TableStaysTrue`, `TerminatedStays`.

`NetBackendProofs`. The first invariant follows each request from socket to inbox: numbers
(`SeqInv`), the one being executed (`ServingInv`), when a socket may send
(`SockInv`; `CtlInv`: no reply is left on the socket that cancels share), which kind it may send in each part of a session's life
(`KindInv`), and which exits can still be out while a task is held (`TaskInv`). From
it: `SocketsStayInStep`, `ReadyKeepsTask`. `ReleaseInv` says that an acknowledged session has no setup
on its way any more, and has sent its exit or has it in one of the two lists of those that were
not: hence `TaskIsReleased`. `EventInv` is relative to the first
and follows the events. One request of a socket at most has somebody who waits for it, and no reply
yet (`LiveInv`), so a session that gave up on no inference has none under way once it is
acknowledged (`WorkInv`). Of the current inference, the numbers heard and those still on the line
are in order, and without a gap unless the session has `missed` one; there are none before the node takes the request, and during
its execution they go up to the event made last and the subscription has arrived (`OrderInv`, `NumberInv`): hence
an event lost at the start is possible, and one in the middle only by a drop. Sessions follow each
other (`LifeInv`), so as long as nobody before gave up on an inference and nothing was refused or
restarted, only own events arrive (`CleanInv`). From it: `OkHeardItsEvents`.

`EdgeGatewayProofs`. The invariant says of each point of the loop what it still holds
(`LoopInv`) and of each event of a batch that it has a reason: its channel is not called
twice, and one that is to write has something to write (`BatchInv`), which is why a
connection closed in its read callback never gets its dead descriptor registered again.
`QueueInv` keeps connections that wait to be accepted apart from those that were. `AnswerInv`
numbers replies, frames held and frames unread one after the other, up to a line that broke
the protocol, also where the process stopped in the middle. From it: `TablesStayInStep`, `RepliesStayInOrder`.

`RkllmNodeProofs`. `InferInv`, `GenerationInv` and `RunInv` tie the worker to its inference,
its generation to the labels in the queue, and each run of the vendor to the inference that begins it.
`StreamInv` says at each point of the pump what was streamed, as a function of the
text so far: nothing before the end tag, then what follows it. `AloneInv` lays the
text out along the queue: there are cuts of the run's text such that each
item of the own generation holds the pieces between two of them, what was read the
pieces before the first, and the last is at the end of what the run emitted
(`Continues`). An item is appended with a new last cut and taken with a shift of all. `HalfInv` says that
no text waits for the other half of a character, and `SurvivorInv` that what is queued under the own generation or read is
of the own run, or of a survivor and emitted since. From it:
`WorkerStaysInside`, `AnswerIsStream`, `AnswersAreFresh`, for any number and mix of tokens, the
tag with text behind it included.

`PureFunctionsProofs`. Both decoders are folds, and a fold is a recursive function
chosen by its equation over sets of positions. The first lemmas show that such a
function exists and has the values of a run of its step function (`FoldSolution`,
`FoldIsResult`), once for every fold; from there on an argument goes step by step. The library's
induction theorems take an operator as a parameter, which no prover here
can instantiate; the inductions are therefore stated of sets (`NatInduct`, `SeqInduct`).
Of the frames (`FramesOfEveryStream`), the lines of a stream with a chunk more are those
before with the last one continued (`LinesGoOn`), so that a decoder which keeps the last
line alone loses nothing; `Faithful` relates its three fields to the lines of the
whole stream, and each feed preserves it. Of the sentences (`SentencesOfEveryText`),
a text fed in one or in two is the same as long as the first part does not end inside a
terminator (`FeedConcat`), and `Heard` ties the chunker to the sentences said and unsaid
of the text so far. The reference (`SentencesOf`) splits the characters at the terminators,
without a state. From both: `CutsNeverMatter`, for streams of any length over any
alphabet and any limit on a frame. One assumption is the run's: a text is given in characters, so that the
bytes of a terminator come as one terminator or as one that is cut.

The formats, in the same module. Of base64 (`Base64RoundTrips`), what matters is that an
accumulator which is never cleared is still right where it is read: its width is a multiple of
4096 values and the byte lies in the last twelve bits (`WrapAround`, `LowBitsRead`). A group of
four characters then gives back its three bytes and leaves the decoder between groups
(`WholeGroup`), `Sofar` holds after any number of groups, and the last group has its two
shorter forms. `EveryEventArrives` adds the envelope around the bytes, and that a remote session hears
as many samples. Of recordings (`EveryRecordingIsRead`), the reader after k chunks
goes on, has found the first data chunk, or has stopped at a file in which there is none to find
(`Reads`); each of its five errors has a lemma that says why there can be none. Of messages
(`EveryMessageRoundTrips`, `EveryBuiltEnvelopeArrives`), what `FromJson` accepts is mapped to
itself by `ToJson` and `FromJson`, field by field, for any limit that `ToJson` stays within. Together:
`FormatsAlwaysRoundTrip`. The assumptions are those of the inputs: what is read from the wire is UTF-8 (what the program
builds need not be), an envelope that the program builds has all its fields, a type of its own and
an error code that is an `int`,
bytes are below 256, and the accumulator has 16 or 32 bits.

The nodes, in the same module. A setting is a fold over the configuration files and then over the
command line; as a run, it has after k files or arguments the value of the last
of them that sets it (`AsDeclared` states this with `Max`), hence `OptionsAsDeclared`. The loops
look at every position, also at those that are values, which is why an
argument can be two things and why the statement speaks of positions. `NodeStartIsSound` and
`SessionStartIsSound` go through the exits in the order of the code. `FlagsShiftNothing` compares
two runs, with and without the flag, whose positions differ by one from it on; they meet
because the flag is no option and is not taken for the value of one. Of the adapters, samples
are cut into frames of `FrameSamples` and laid end to end again: a cut has full frames but for the
last, which is not empty, and its frames are the samples. From it `UplinksAreHeard`
(samples, their bytes and back, or a count of frames for the fake) and
`RecordingsAreHeard`; what a TTS node writes follows without any induction
(`SynthesesAreWritten`). Together: `NodesAlwaysDoAsAsked`. The assumptions: a file can be read, cannot or has a setting of
another type (`NodeStartupAssumption`), and a session's frames are at most
`FrameSamples` samples of two bytes (`FramesAssumption`), which is how the pipeline cuts its input (session_pipeline.cpp:163).

Only model-checked: liveness (`RunReturns`, `EveryRequestAnswered`, `CloseEnds`, `InferReturns`, `AnswersArrive`, `QuitEnds`), which is out of
this prover's reach, as is ENABLED; and of the functions `RetrievalIsSound`, which ranks by
sums over a folded index and a sort: equal sums in every order, and that the community modules'
sort is one, are inductions over data with an operator as a parameter. TLC enumerates it to the bound.

## 7. What is not modelled

- The model and audio backends (sherpa-onnx, SummerTTS, ALSA, the fakes): wrappers of libraries and devices. The pipeline and the adapters allow them any behaviour at their interface.
- `voice_cli`: a sequential client. Its requests are those of the clients in `SessionNode` and `UnitManager`.
- Of `BoundedQueue`: `push`, `try_push`, `pop`, `try_pop`, `clear` and `drain`, which no program calls, and the wake-ups of the condition variables, as all callers wait with a deadline and try again.
- Of the transport: push/pull, and the half of the READY handshake that waits, which no program uses. ZeroMQ itself is external.
- Of the reactor: errors of `accept()`, and `send` and `close` from other threads, which no program does.
- `echo_node`, and the pacing of the LLM node's fake backend.
- The text of JSON, log lines, command-line texts of the manager and the gateway, request ids, and the names and contents of output files. Two sessions given the same request id write the same file, which the documents rule out by asking for unique ids.
- The end of the manager or a runtime node by a reply that is too long to be written (unit_manager.cpp:54, runtime_node.cpp:40; section 5): a runtime node that ends is a restart of it in `UnitManager` and `NetBackend`, and a manager that has ended takes no step, which the safety of its properties survives.
- BM25's floating point: the order and sign of scores are kept.
- Deployment scripts and tests.
