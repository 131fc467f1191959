--------------------------- MODULE PureFunctions ---------------------------
(***************************************************************************)
(* The functions of the system, each on every input up to a bound: an input *)
(* is of one kind, and grows by an element at a time.  Nothing here is a    *)
(* process of the program: a state is a sequence of calls, or a call's      *)
(* argument, that the code may be given.                                   *)
(***************************************************************************)
EXTENDS Integers, Sequences, SequencesExt, TextStreams, Retrieval, NodeStartup, NodeAdapters

CONSTANTS
  Alphabet,  \* by kind: what an input of the kind is made of
  Bound,     \* by kind: bound on the length of an input
  Queries,   \* what is asked of each knowledge file
  Failures   \* what the machine refuses when a process starts: some sets of failures

ASSUME PureFunctionsAssumption == DOMAIN Bound = DOMAIN Alphabet /\ \A k \in DOMAIN Bound : Bound[k] \in Nat

\* A text is given as characters: the bytes of a terminator only come as one, or as one cut.
ASSUME CharactersAssumption ==
  "sentences" \in DOMAIN Alphabet => Alphabet["sentences"] \cap {"c1", "c2", "c3"} = {}

\* What is read from the wire is UTF-8.
ASSUME MessagesAssumption ==
  "message" \in DOMAIN Alphabet =>
    \A e \in Alphabet["message"] :
      e.value.v # "bad" /\ ("message" \in DOMAIN e.value => e.value.message.v # "bad")

\* What the program builds has the fields of an envelope, and a type of its own.
ASSUME EnvelopesAssumption ==
  "envelope" \in DOMAIN Alphabet =>
    \A e \in Alphabet["envelope"] :
      /\ ~e.drop
      /\ e.field \in {"version", "type", "work_id", "request_id", "session_id", "index",
                     "timestamp_ms", "finish", "payload", "error"}
      /\ e.field = "type" => e.value \in TypeNames
      /\ e.field = "payload" => e.value = [t |-> e.value.t, v |-> e.value.v]
      /\ e.field = "error" =>
           e.value = [code |-> e.value.code, message |-> e.value.message] /\ e.value.code # Wide

ASSUME BytesAssumption == "bytes" \in DOMAIN Alphabet => Alphabet["bytes"] \subseteq 0..255

ASSUME ChunksAssumption ==
  "wav" \in DOMAIN Alphabet =>
    Alphabet["wav"] \subseteq [tag : {"fmt", "data", "other"}, len : Nat, format : STRING]

\* A session's frames are samples of two bytes, as many as fit into a frame.
ASSUME FramesAssumption ==
  "audio" \in DOMAIN Alphabet =>
    \A f \in Alphabet["audio"] : f \in Seq((0..255) \X (0..255)) /\ Len(f) <= FrameSamples

VARIABLES kind, input

vars == <<kind, input>>

Init == kind \in DOMAIN Alphabet /\ input = <<>>

Next ==
  /\ Len(input) < Bound[kind] /\ UNCHANGED kind
  /\ \E e \in Alphabet[kind] : input' = Append(input, e)

Spec == Init /\ [][Next]_vars

-----------------------------------------------------------------------------
(* Streams, fed in pieces: "cut" is where one feed ends and the next begins *)

\* The bytes of a character, and where its feed ends.
BytesOf(c) == IF c = "Tcut" THEN <<"c1", "cut", "c2", "c3">> ELSE Bytes(c)

Chunks == Pieces(FlattenSeq([i \in DOMAIN input |-> BytesOf(input[i])]), {"cut"})

\* NdjsonFrameDecoder: where the reads of a connection end makes no difference to its frames,
\* what it keeps is bounded, and it gives up at the first line that is too long.
FramesSurviveCuts == kind = "frames" => FramesOfTheStream(Chunks)

\* SentenceChunker: where a model's tokens end makes no difference to the sentences, except
\* that a terminator whose bytes come in two tokens is not one.
SentencesSurviveCuts ==
  kind = "sentences" =>
    ChunkerFlush(FoldLeft(ChunkerFeed, NewChunker, Chunks)) = SentencesOf(input)

\* The two stream decoders do not depend on how the stream is cut.
CutsDoNotMatter == FramesSurviveCuts /\ SentencesSurviveCuts

-----------------------------------------------------------------------------
(* Retrieval *)

\* Texts become a stable normal form; a knowledge file is loaded or refused as it should;
\* and over what was loaded, queries are routed to their best documents.
RetrievalIsSound ==
  /\ kind = "text" => NormalFormIsStable(FlattenSeq(input))
  /\ kind = "knowledge" =>
       /\ KnowledgeIsSound(input)
       /\ LoadKnowledge(input).ok => \A q \in Queries : RouteIsSound(LoadIndex(input), q)

-----------------------------------------------------------------------------
(* Formats: an input edits the fields of a message *)

WithEdit(m, e) ==
  [f \in (DOMAIN m \cup {e.field}) \ (IF e.drop THEN {e.field} ELSE {}) |->
     IF f = e.field THEN e.value ELSE m[f]]

Edited(base) == FoldLeft(WithEdit, base, input)

BaseMessage ==
  [version |-> Num("1"), type |-> Str("inference"), work_id |-> Str("a"), index |-> Num("7"),
   finish |-> Bool("true"), payload |-> [t |-> "obj", v |-> "a"],
   error |-> [t |-> "obj", v |-> "", code |-> Num("7"), message |-> Str("a")]]

BaseEnvelope ==
  [version |-> Version, type |-> "error", work_id |-> "a", request_id |-> "a", session_id |-> "",
   index |-> "7", timestamp_ms |-> "-1", finish |-> "false", payload |-> [t |-> "null", v |-> ""],
   error |-> [code |-> "7", message |-> "a"]]

\* Whatever is sent is refused in an orderly way or comes back from its own JSON if it can be
\* written, what the program builds and can write arrives, and so do bytes, events, without
\* their samples, and recordings.
FormatsRoundTrip ==
  /\ kind = "message" => EnvelopeRoundTrips(Edited(BaseMessage))
  /\ kind = "envelope" => BuiltEnvelopeArrives(Edited(BaseEnvelope))
  /\ kind = "bytes" => EventsArrive(input)
  /\ kind = "wav" => \A head \in {"riff wave", "no riff"}, cut \in {0, 1, 2, 9, 30} :
       WavIsRead([head |-> head, cut |-> cut, chunks |-> input])

-----------------------------------------------------------------------------
(* Node processes *)

Stops == {[at |-> 0, why |-> "none"]} \cup {[at |-> n, why |-> w] : n \in 1..2, w \in {"cancelled", "timeout"}}

\* What asr_node does with an uplink: it feeds the session's samples, or as many frames as
\* the session had, the last one marked; a stopped recognition never gets a last frame.
FullFrames(frames) ==
  \A i \in DOMAIN frames :
    IF i < Len(frames) THEN Len(frames[i]) = FrameSamples ELSE frames[i] # <<>>

FedAsSent(r, backend, up, frames) ==
  /\ r.error <=> up /\ FlattenSeq(frames) = <<>>
  /\ r.code # "ok" => r.cancelled /\ \A i \in DOMAIN r.fed : ~r.fed[i].last
  /\ r.code = "ok" /\ ~r.error =>
       /\ \A i \in DOMAIN r.fed : r.fed[i].last <=> i = Len(r.fed)
       /\ r.fed # <<>>
       /\ backend = "sherpa_onnx" =>
            FlattenSeq([i \in DOMAIN r.fed |-> r.fed[i].pcm]) = FlattenSeq(frames)
       /\ backend = "fake" /\ FullFrames(frames) => Len(r.fed) = Len(frames)

UplinkIsHeard(frames) ==
  \A stop \in Stops, backend \in {"fake", "sherpa_onnx"}, up \in BOOLEAN :
    backend = "fake" \/ up =>
      FedAsSent(AsrInfer(backend, Uplink(up, frames), stop), backend, up, frames)

\* A recording is fed completely, or nothing of it.
FedAsRecorded(r, wav, format) ==
  /\ r.error <=> ~wav.ok \/ format = "other"
  /\ r.error => r.fed = <<>>
  /\ r.code = "ok" /\ ~r.error =>
       Len(FlattenSeq([i \in DOMAIN r.fed |-> r.fed[i].pcm])) = wav.samples

RecordingIsHeard(chunks) ==
  \A stop \in Stops, format \in {"16 kHz mono", "other"} :
    LET file == [head |-> "riff wave", cut |-> 0, chunks |-> chunks]
        payload == [how |-> "path", path |-> "a", file |-> file, format |-> format]
    IN FedAsRecorded(AsrInfer("sherpa_onnx", payload, stop), ReadWav(file), format)

\* What tts_node answers without an error is written completely.
SynthesisIsWritten(chunks) ==
  \A fails \in SUBSET ({[step |-> s, n |-> 0] : s \in {"open", "close"}} \cup {[step |-> "write", n |-> 1]}) :
    LET r == TtsInfer("wav", chunks, fails, FALSE)
    IN /\ r.events = chunks
       /\ ~r.wrote.error => r.wrote.written = DOMAIN chunks /\ r.wrote.counted = Len(chunks)

\* A node that serves is one whose inferences can be done as they were asked for: its
\* options are the declared ones, its factory works, its flags shift nothing, and its
\* adapters feed and write all there is, or say so.
NodesDoAsAsked ==
  /\ \A broken \in Failures :
       /\ kind = "asr" => NodeStartsSound(AsrNode, AsrStart(input, broken), input, broken)
       /\ kind = "llm" => NodeStartsSound(LlmNode, LlmStart(input, broken), input, broken)
       /\ kind = "tts" => NodeStartsSound(TtsNode, TtsStart(input, broken), input, broken)
  /\ kind = "session" => FlagShiftsNothing(input) /\ SessionStartsSound(input)
  /\ kind = "audio" /\ input # <<>> => UplinkIsHeard(input) /\ SynthesisIsWritten(input)
  /\ kind = "wav" => RecordingIsHeard(input)
=============================================================================
