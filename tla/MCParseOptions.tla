--------------------------- MODULE MCParseOptions ---------------------------
(***************************************************************************)
(* Calls with two options, or with the three that depend on each other,    *)
(* over values on both sides of every check.                               *)
(***************************************************************************)
EXTENDS ParseOptions, TLC

CONSTANTS MaxOptions   \* how many options a call has

IntValue(n) == Value("int", n, "", {})
BoolValue(n) == Value("bool", n, "", {})
Str(t) == Value("str", 0, t, {})
Enum(t) == Value("enum", 0, t, {})
NoneValue == Value("None", 0, "", {})
Float(n) == Value("float", n, "", {})
Strip(how, names) == Value("CompatStripChunks", 0, how, {Str(t) : t \in names})
Factory(kind, v) == Value("CompatDeflater", 0, kind, {v})
Predefined(rows) == Value("PredefinedFilters", 0, "", {Str(r) : r \in rows})
ListOf(items) == Value("list", 0, "", items)

MCChunkNames == {"tEXt"}

\* The presets differ from each other, and from what any option can say.
MCPreset ==
    [l \in Levels |->
       [k \in OptionNames |->
          CASE k \in {"timeout", "max_decompressed_size"} -> Unset
            [] k \in Flags \cup FileFlags -> FALSE
            [] k \in Advanced \ {"fast_evaluation"} -> k # "optimize_alpha"
            [] k = "fast_evaluation" -> l < 3
            [] k = "interlace" -> "off"
            [] k = "strip" -> [mode |-> "none", names |-> {}]
            [] k = "deflate" -> [kind |-> "libdeflater", n |-> 5 + l]
            [] k = "filter" -> {[name |-> Strategies[l + 1], rows |-> {}]}]]

Samples ==
    [level |-> {IntValue(0), IntValue(2), IntValue(6), IntValue(7), IntValue(-1), BoolValue(1), NoneValue, Str("2")},
     interlace |-> {Str("keep"), Enum("on"), Str("0"), Str("?"), IntValue(1), NoneValue},
     strip |-> {Str("safe"), Strip("keep", {"tEXt"}), Strip("strip", {"text!"}),
                Str("?"), NoneValue},
     deflate |-> {Enum("libdeflater"), Str("zopfli"), Factory("libdeflater", IntValue(12)),
                  Factory("libdeflater", IntValue(13)), Factory("zopfli", IntValue(0)),
                  Factory("zopfli", BoolValue(1)), Factory("zopfli", Str("9")),
                  Factory("zopfli", IntValue(MaxI64 + 1)), IntValue(3), NoneValue},
     filter |-> {Enum("brute"), Str("9"), Predefined({"none", "up"}), Str("?"),
                 ListOf({Str("1"), Enum("sub")}), ListOf({Predefined({"up"})}),
                 ListOf({}), NoneValue},
     fix_errors |-> {BoolValue(1), NoneValue},
     backup |-> {BoolValue(1), BoolValue(0), IntValue(1)},
     fast_evaluation |-> {BoolValue(0), BoolValue(1), NoneValue, IntValue(1)},
     timeout |-> {IntValue(0), Float(3), Float(-1), Float(MaxSeconds + 1), BoolValue(1), Str("1"),
                  NoneValue},
     max_decompressed_size |-> {IntValue(MaxUsize), IntValue(MaxUsize + 1), IntValue(-1),
                                IntValue(MaxI128 + 1), Float(3), NoneValue},
     quality |-> {IntValue(1)}]

CallsOf(names) ==
    {a \in [names -> UNION {Samples[k] : k \in names}] :
        \A k \in names : a[k] \in Samples[k]}

MCCalls ==
    UNION {CallsOf(names) : names \in {s \in SUBSET DOMAIN Samples :
               \E i, j \in DOMAIN Samples : s \in {{}, {i}, {i, j}}}}
    \cup IF MaxOptions < 3 THEN {} ELSE CallsOf({"level", "deflate", "filter"})
=============================================================================
