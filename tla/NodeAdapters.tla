---------------------------- MODULE NodeAdapters ----------------------------
(***************************************************************************)
(* The IBackend adapters of asr_node and tts_node: what an inference makes  *)
(* of its payload.  Samples are opaque; a stop is the frame before which    *)
(* the node finds the task cancelled or its deadline passed, 0 for never.   *)
(***************************************************************************)
EXTENDS Naturals, Sequences, SequencesExt, WireFormats

CONSTANT FrameSamples  \* kFrameSamples: 320 in the code

ASSUME NodeAdaptersAssumption == FrameSamples \in Nat \ {0}

-----------------------------------------------------------------------------
(* asr_node *)

\* The result of an inference that feeds the recogniser: what it was fed, whether it was
\* told to cancel, and whether the text is an error instead of what was heard.
Fed(code, frames, cancelled, error) ==
  [code |-> code, fed |-> frames, cancelled |-> cancelled, error |-> error]

Error == Fed("ok", <<>>, FALSE, TRUE)

\* The two loops: before each frame the cancellation and then the deadline are looked at.
FeedAll(frames, stop) ==
  LET marked == [i \in DOMAIN frames |-> [pcm |-> frames[i], last |-> i = Len(frames)]]
  IN IF stop.at \in DOMAIN frames
       THEN Fed(stop.why, SubSeq(marked, 1, stop.at - 1), TRUE, FALSE)
       ELSE Fed("ok", marked, FALSE, FALSE)

FramesOf(n) == (n + FrameSamples - 1) \div FrameSamples

\* feed_samples: frames of FrameSamples samples, the last one of what is left.
FeedSamples(samples, stop) ==
  FeedAll([i \in 1..FramesOf(Len(samples)) |->
             SubSeq(samples, (i - 1) * FrameSamples + 1,
                    IF i * FrameSamples <= Len(samples) THEN i * FrameSamples ELSE Len(samples))],
          stop)

\* run_mock_frames: frames that are made up, of which only the number matters.
FeedCount(n, stop) == FeedAll([i \in 1..n |-> <<i>>], stop)

\* run_mock: the payload is a number, or counts as one frame.
RunMock(n, stop) == FeedCount(IF n > 0 THEN n ELSE 1, stop)

\* run_pcm: the samples that a session encoded; the mock counts their frames.
SamplesOf(bytes) == [i \in 1..(Len(bytes) \div 2) |-> <<bytes[2 * i - 1], bytes[2 * i]>>]

FeedBytes(backend, raw, stop) ==
  CASE ~raw.ok \/ raw.bytes = <<>> \/ Len(raw.bytes) % 2 # 0 -> Error
    [] OTHER -> IF backend = "sherpa_onnx" THEN FeedSamples(SamplesOf(raw.bytes), stop)
                ELSE FeedCount(FramesOf(Len(raw.bytes) \div 2), stop)

RunPcm(backend, chars, stop) == FeedBytes(backend, Base64Decode(chars), stop)

\* run_wav: a file of the one rate and number of channels.
RunWav(path, file, format, stop) ==
  LET r == ReadWav(file)
  IN IF path = "" \/ ~r.ok \/ format # "16 kHz mono" THEN Error
     ELSE FeedSamples([i \in 1..r.samples |-> r.off + 2 * i], stop)

\* infer: an uplink is known by its prefix, whatever the backend.
AsrInfer(backend, payload, stop) ==
  CASE payload.how = "pcm64" -> RunPcm(backend, payload.chars, stop)
    [] payload.how # "pcm64" /\ backend = "sherpa_onnx" ->
         RunWav(payload.path, payload.file, payload.format, stop)
    [] OTHER -> RunMock(payload.count, stop)

\* NetAsrBackend::feed_audio over a session's frames: what it sends at the last one.
Uplink(uplink, frames) ==
  IF uplink THEN [how |-> "pcm64", chars |-> Base64Encode(FlattenSeq(FlattenSeq(frames)))]
  ELSE [how |-> "count", count |-> Len(frames)]

-----------------------------------------------------------------------------
(* tts_node: the chunks of a synthesis go to a file or a sound card; fails are the steps of *)
(* the sink that fail, "open", "close" or the number of a chunk *)

WriteSink(sink, chunks, fails) ==
  LET opened == "open" \notin {f.step : f \in fails}
  IN [sink |-> sink,
      written |-> IF opened THEN {i \in DOMAIN chunks : ~\E f \in fails : f.step = "write" /\ f.n = i}
                  ELSE {},
      counted |-> IF opened THEN Len(chunks) ELSE 0,
      error |-> ~opened \/ \E f \in fails : f.step = "close" \/ (f.step = "write" /\ f.n \in DOMAIN chunks)]

\* infer: the events go out before the sink is opened, and a failure is an ok with an error.
TtsInfer(sink, chunks, fails, cancelled) ==
  IF cancelled THEN [code |-> "cancelled", events |-> <<>>]
  ELSE [code |-> "ok", events |-> chunks, wrote |-> WriteSink(sink, chunks, fails)]
=============================================================================
