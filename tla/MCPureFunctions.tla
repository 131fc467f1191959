-------------------------- MODULE MCPureFunctions --------------------------
(* PureFunctions on inputs up to a few elements. *)
EXTENDS PureFunctions

\* Scores in hundredths of a unit for three documents: rare tokens weigh more, long
\* documents less.
WeightValue(d, f, n) == (12 * f) \div (d + n) + 1

Chars == {<<65>>, <<97>>, <<32>>, <<44>>, <<239, 188, 161>>, <<228, 189, 160>>,
          <<195, 169>>, <<255>>, <<228, 189>>, <<240, 144, 128, 128>>}

Ni == <<228, 189, 160>>
Hao == <<229, 165, 189>>
QueriesValue == {<<>>, <<63>>, Ni, Ni \o Hao, <<97, 32>> \o Ni, <<115, 116, 111, 112>>}
KeywordsValue == {<<83, 116, 111, 112>>}

Entry(id, text) == [what |-> "entry", id |-> id, text |-> text]
Lines == {[what |-> w, id |-> <<>>, text |-> <<>>] : w \in {"blank", "comment", "broken"}}
           \cup {Entry(<<>>, Ni), Entry(<<>>, Ni \o Hao \o Ni), Entry(<<"k", 2>>, <<97>>),
                 Entry(<<"own", "a">>, <<97, 44>> \o Hao)}

Edit(f, v) == [field |-> f, drop |-> FALSE, value |-> v]
MessageEdits ==
  {Edit(f, v) : f \in {"version", "type", "work_id", "index", "finish"},
                v \in {Num("2"), Num("1"), Num(Wide), Str("event"), Bool("true"), [t |-> "float", v |-> "1.5"]}}
    \cup {[field |-> f, drop |-> TRUE, value |-> Num("0")] : f \in {"version", "type", "error", "payload"}}
    \cup {Edit("payload", [t |-> "str", v |-> l]) : l \in {"long", "huge"}}
    \cup {Edit("error", Str("a")),
          Edit("error", [t |-> "obj", v |-> "", code |-> Bool("true")]),
          Edit("error", [t |-> "obj", v |-> "", code |-> Num(Wide)]),
          Edit("error", [t |-> "obj", v |-> "", message |-> Num("1")])}

EnvelopeEdits ==
  {Edit("type", t) : t \in TypeNames} \cup {Edit("work_id", "bad"), Edit("session_id", "a"),
   Edit("version", "2"), Edit("finish", "true")}
    \cup {Edit("payload", [t |-> "obj", v |-> l]) : l \in {"bad", "long", "huge"}}
    \cup {Edit("error", [code |-> "0", message |-> m]) : m \in {"", "bad"}}

Chunk(tag, len, format) == [tag |-> tag, len |-> len, format |-> format]
WavChunks == {Chunk("fmt", 16, "pcm16"), Chunk("fmt", 18, "pcm16"), Chunk("fmt", 15, "pcm16"),
              Chunk("fmt", 16, "float"), Chunk("other", 3, "none"),
              Chunk("data", 0, "none"), Chunk("data", 7, "none"), Chunk("data", 12, "none")}

FilesValue ==
  [f \in {"good", "bad", "typed", "default.json"} |->
     [state |-> CASE f = "bad" -> "unreadable" [] f = "typed" -> "mistyped" [] OTHER -> "ok",
      set |-> CASE f = "good" -> ("--backend" :> "sherpa_onnx" @@ "--model" :> "m"
                                    @@ "--top-k" :> "5" @@ "--sink" :> "alsa")
                [] OTHER -> <<>>]]

Samples(n) == [i \in 1..n |-> <<i, n>>]

AlphabetValue ==
  [frames |-> {"x", "r", "n", "cut"},
   sentences |-> {"x", "r", "n", "!", "T", "Tcut", "cut"},
   text |-> Chars, knowledge |-> Lines,
   message |-> MessageEdits, envelope |-> EnvelopeEdits, bytes |-> {0, 1, 127, 255},
   wav |-> WavChunks, audio |-> {Samples(n) : n \in 0..2},
   asr |-> {"--config", "good", "bad", "typed", "--backend", "sherpa_onnx", "--model", "",
            "--num-threads", "word", "--events", "--events-sync"},
   llm |-> {"--config", "good", "--backend", "rkllm", "--model", "m", "--events"},
   tts |-> {"--config", "good", "--backend", "summertts", "--model", "m", "--sink", "alsa", "--length-scale", "word"},
   session |-> {"--config", "good", "--backend", "net", "--asr-uplink", "--asr-events",
                "--asr-events-sync", "--max-run-ms", "word"}]

BoundValue ==
  [frames |-> 7, sentences |-> 5, text |-> 4, knowledge |-> 4, message |-> 2, envelope |-> 2,
   bytes |-> 5, wav |-> 4, audio |-> 3, asr |-> 4, llm |-> 4, tts |-> 4, session |-> 4]
=============================================================================
