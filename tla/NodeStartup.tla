---------------------------- MODULE NodeStartup ----------------------------
(***************************************************************************)
(* main() of asr_node, llm_node, tts_node and session_node: the options,    *)
(* from configuration files and then from the command line, the checks, and *)
(* the start.  A process "exit"s with an error, "abort"s by an exception    *)
(* that nobody catches, or is "serving".                                   *)
(*                                                                         *)
(* An argument is an option's name, a file, or a value: "" is the empty     *)
(* value and "word" one that is no number.  What the build and the machine  *)
(* refuse is the set broken: "backend", "alsa", "dir", "events", "listen".  *)
(***************************************************************************)
EXTENDS Naturals, Sequences, SequencesExt

CONSTANT Files  \* file name -> [state |-> "ok", "unreadable" or "mistyped", set |-> settings]

ASSUME NodeStartupAssumption ==
  \A f \in DOMAIN Files : Files[f].state \in {"ok", "unreadable", "mistyped"}

File(f) == IF f \in DOMAIN Files THEN Files[f] ELSE [state |-> "unreadable", set |-> <<>>]

-----------------------------------------------------------------------------
(* Options *)

Default(node, o) ==
  CASE o = "--backend" -> node.plain [] o = "--sink" -> "wav" [] o \in node.empty -> ""
    [] OTHER -> "default"

Unset == {"--model", "--events", "--events-sync"}

\* numbers keep what they had when the argument is no number; resets go to the default.
AsrNode ==
  [options |-> {"--listen", "--backend", "--model", "--num-threads", "--infer-timeout-ms",
                "--fixture-dir", "--events", "--events-sync"},
   numbers |-> {"--num-threads", "--infer-timeout-ms"}, resets |-> {}, plain |-> "fake",
   real |-> "sherpa_onnx", empty |-> Unset,
   file |-> {"--backend", "--model", "--num-threads", "--fixture-dir"}]

LlmNode ==
  [options |-> {"--listen", "--backend", "--model", "--max-new-tokens", "--max-context-len",
                "--infer-timeout-ms", "--events", "--events-sync"},
   numbers |-> {"--max-new-tokens", "--max-context-len", "--infer-timeout-ms"}, resets |-> {},
   plain |-> "fake",
   real |-> "rkllm", empty |-> Unset, file |-> {"--backend", "--model", "--max-new-tokens", "--max-context-len"}]

TtsNode ==
  [options |-> {"--listen", "--output-dir", "--backend", "--model", "--length-scale", "--sink",
                "--sink-device", "--infer-timeout-ms", "--events", "--events-sync"},
   numbers |-> {"--infer-timeout-ms"}, resets |-> {"--length-scale"}, plain |-> "fake",
   real |-> "summertts", empty |-> Unset,
   file |-> {"--backend", "--model", "--length-scale", "--sink", "--sink-device"}]

SessionEnds == {"--asr", "--llm", "--tts"}

EndOption(end, what) ==
  CASE end = "--asr" -> IF what = "events" THEN "--asr-events" ELSE "--asr-events-sync"
    [] end = "--llm" -> IF what = "events" THEN "--llm-events" ELSE "--llm-events-sync"
    [] OTHER -> IF what = "events" THEN "--tts-events" ELSE "--tts-events-sync"

SessionNode ==
  [options |-> {"--listen", "--knowledge", "--output-dir", "--fixture-dir", "--record-device",
                "--direct-threshold", "--context-threshold", "--top-k", "--text-capacity",
                "--pcm-capacity", "--push-timeout-ms", "--stage-delay-ms",
                "--tts-min-duration-ms", "--max-run-ms", "--record-ms", "--backend",
                "--asr-endpoint", "--llm-endpoint", "--tts-endpoint",
                "--net-setup-timeout-ms", "--net-rpc-timeout-ms"}
               \cup {EndOption(e, w) : e \in SessionEnds, w \in {"events", "sync"}},
   numbers |-> {"--direct-threshold", "--context-threshold", "--top-k", "--text-capacity",
                "--pcm-capacity"},
   resets |-> {"--push-timeout-ms", "--stage-delay-ms", "--tts-min-duration-ms", "--max-run-ms",
               "--record-ms", "--net-setup-timeout-ms", "--net-rpc-timeout-ms"},
   plain |-> "embedded", real |-> "net",
   empty |-> {EndOption(e, w) : e \in SessionEnds, w \in {"events", "sync"}},
   file |-> {"--direct-threshold", "--context-threshold", "--top-k", "--knowledge",
             "--text-capacity", "--pcm-capacity", "--push-timeout-ms", "--output-dir",
             "--stage-delay-ms", "--tts-min-duration-ms", "--max-run-ms"}]

\* Every --config that is followed by something, or for session_node the last one.
ConfigAt(args, files, i) ==
  IF i < Len(args) /\ args[i] = "--config" THEN Append(files, args[i + 1]) ELSE files

ConfigsOf(args) == FoldLeftDomain(LAMBDA files, i : ConfigAt(args, files, i), <<>>, args)

LastConfig(args) ==
  <<IF ConfigsOf(args) = <<>> THEN "default.json" ELSE Last(ConfigsOf(args))>>

\* The files in turn, up to one that is unreadable or has a value of another type.
ReadFile(node, st, f) ==
  IF st.state # "ok" THEN st
  ELSE [state |-> File(f).state,
        set |-> [o \in node.options |-> IF o \in node.file \cap DOMAIN File(f).set
                                          THEN File(f).set[o] ELSE st.set[o]]]

Defaults(node) == [state |-> "ok", set |-> [o \in node.options |-> Default(node, o)]]

ReadFiles(node, files) == FoldLeft(LAMBDA st, f : ReadFile(node, st, f), Defaults(node), files)

\* The loop over argv: any argument but the last may be an option, values included.
Parsed(node, o, value, old) ==
  CASE value = "word" /\ o \in node.numbers -> old
    [] value = "word" /\ o \in node.resets -> Default(node, o)
    [] OTHER -> value

OptionAt(node, args, set, i) ==
  IF i = Len(args) \/ args[i] \notin node.options THEN set
  ELSE [set EXCEPT ![args[i]] = Parsed(node, args[i], args[i + 1], @)]

CommandLine(node, args, given) ==
  FoldLeftDomain(LAMBDA set, i : OptionAt(node, args, set, i), given, args)

\* --asr-uplink is a flag, looked for on its own.
AsrUplink(args, file) == "--asr-uplink" \in Range(args) \/ "uplink" \in DOMAIN file

-----------------------------------------------------------------------------
(* Checks and start *)

\* Mutant: a backend without its model passes.
RefusedWithoutModel(node, s, broken) ==
  \/ (s["--events"] = "") # (s["--events-sync"] = "")
  \/ s["--backend"] \notin {"fake", node.real}
  \/ s["--backend"] = node.real /\ "backend" \in broken

Refused(node, s, broken) ==
  \/ (s["--events"] = "") # (s["--events-sync"] = "")
  \/ s["--backend"] \notin {"fake", node.real}
  \/ s["--backend"] = node.real /\ ("backend" \in broken \/ s["--model"] = "")

RefusedSink(s, broken) ==
  \/ s["--sink"] \notin {"wav", "alsa"}
  \/ s["--sink"] = "alsa" /\ "alsa" \in broken
  \/ s["--sink"] = "wav" /\ "dir" \in broken

\* The factory that each setup calls: what of the configuration makes it throw.
FactoryThrows(node, s, broken) ==
  s["--backend"] = node.real /\ ("backend" \in broken \/ s["--model"] = "")

\* The events are bound outside of the try block, the node inside.
Bind(s, broken) ==
  CASE s["--events"] # "" /\ "events" \in broken -> "abort"
    [] (s["--events"] = "" \/ "events" \notin broken) /\ "listen" \in broken -> "exit"
    [] OTHER -> "serving"

Ended(state) == [result |-> IF state = "unreadable" THEN "exit" ELSE "abort"]

StartNode(node, args, broken) ==
  LET read == ReadFiles(node, ConfigsOf(args))
      s == CommandLine(node, args, read.set)
  IN IF read.state # "ok" THEN Ended(read.state)
     ELSE [set |-> s,
           result |-> IF \/ Refused(node, s, broken)
                         \/ "--sink" \in node.options /\ RefusedSink(s, broken)
                      THEN "exit" ELSE Bind(s, broken)]

AsrStart(args, broken) == StartNode(AsrNode, args, broken)
LlmStart(args, broken) == StartNode(LlmNode, args, broken)
TtsStart(args, broken) == StartNode(TtsNode, args, broken)

\* session_node checks its endpoints only when it uses remote backends.
SessionStart(args, broken) ==
  LET files == LastConfig(args)
      read == ReadFiles(SessionNode, files)
      s == CommandLine(SessionNode, args, read.set)
      unpaired == \E e \in SessionEnds :
                    (s[EndOption(e, "events")] = "") # (s[EndOption(e, "sync")] = "")
  IN IF read.state # "ok" THEN Ended(read.state)
     ELSE [set |-> s, uplink |-> AsrUplink(args, File(Head(files)).set),
           result |-> IF \/ s["--backend"] \notin {"embedded", "net"}
                         \/ s["--backend"] = "net" /\ unpaired
                         \/ "listen" \in broken THEN "exit" ELSE "serving"]

-----------------------------------------------------------------------------
(* What they promise *)

\* The value of an option: the last on the command line that is a value, else the last
\* file's that has one, else the default.
Declared(node, args, files, o) ==
  LET at == {i \in 1..(Len(args) - 1) : args[i] = o
                                        /\ ~(o \in node.numbers /\ args[i + 1] = "word")}
      with == {i \in DOMAIN files : o \in node.file \cap DOMAIN File(files[i]).set}
  IN IF at # {} THEN IF o \in node.resets /\ args[Max(at) + 1] = "word" THEN Default(node, o)
                     ELSE args[Max(at) + 1]
     ELSE IF with # {} THEN File(files[Max(with)]).set[o] ELSE Default(node, o)

\* A node that serves has the settings that were declared, publishes its events on both
\* endpoints or on none, and its factory does not throw for a reason known at the start;
\* it aborts only by a setting of another type or by the bind of its events.
NodeStartsSound(node, r, args, broken) ==
  /\ r.result = "serving" =>
       /\ \A o \in node.options : r.set[o] = Declared(node, args, ConfigsOf(args), o)
       /\ r.set["--events"] = "" <=> r.set["--events-sync"] = ""
       /\ ~FactoryThrows(node, r.set, broken)
  /\ r.result = "abort" => \/ "events" \in broken
                           \/ \E f \in Range(ConfigsOf(args)) : File(f).state = "mistyped"

\* The same of session_node, whose endpoints count only with remote backends.
SessionStartsSound(args) ==
  LET r == SessionStart(args, {})
  IN r.result = "serving" =>
       /\ \A o \in SessionNode.options : r.set[o] = Declared(SessionNode, args, LastConfig(args), o)
       /\ r.set["--backend"] = "net" => \A e \in SessionEnds :
            r.set[EndOption(e, "events")] = "" <=> r.set[EndOption(e, "sync")] = ""

\* A flag that is not taken for the value of an option shifts nothing: without it, the
\* settings are the same.
FlagShiftsNothing(args) ==
  \A i \in DOMAIN args :
    args[i] = "--asr-uplink" /\ (i = 1 \/ args[i - 1] \notin SessionNode.options \cup {"--config"}) =>
      LET with == SessionStart(args, {})
          without == SessionStart(RemoveAt(args, i), {})
      IN /\ with.result = without.result
         /\ "set" \in DOMAIN with => with.set = without.set /\ with.uplink
=============================================================================
