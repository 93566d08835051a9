---------------------------- MODULE ParseOptions ----------------------------
(***************************************************************************)
(* The option parser of the extension: parse_options of src/lib.rs, and    *)
(* the functions of oxipng/__init__.py that hand every option on to it.    *)
(*                                                                         *)
(* The native functions take **kwargs and read them in the order of the    *)
(* dictionary.  The Python functions pass every option they know, default  *)
(* values included, in the order of their parameters, and what they do not *)
(* know after it; RawImage.create_optimized_png gets the caller's own      *)
(* dictionary.  An option whose effect depends on another, deflate on      *)
(* level, is kept and parsed after the last one.                           *)
(*                                                                         *)
(* A Python value is a record: type, the number n it holds, the text it    *)
(* holds (a string, the .value of an enum, the kind of a factory object)   *)
(* and the items of a container (the .value of a deflater object).         *)
(* oxipng's presets are external.                                          *)
(***************************************************************************)
EXTENDS Integers, Sequences, Functions

CONSTANTS
    Calls,       \* the options that callers pass: functions from names to values
    Preset,      \* Preset[l] is Options::from_preset(l)
    ChunkNames,  \* the texts that are four ASCII letters
    MaxI64, MaxUsize, MaxI128,   \* the greatest numbers of these types
    MaxSeconds,  \* the longest Duration
    Unset        \* a slot that holds no value

Levels == 0..6
Flags == {"fix_errors", "force"}
FileFlags == {"backup", "preserve_attrs"}
Advanced == {"optimize_alpha", "bit_depth_reduction", "color_type_reduction",
             "palette_reduction", "grayscale_reduction", "idat_recoding",
             "scale_16", "fast_evaluation"}
Named == {"level", "interlace", "strip", "deflate", "filter", "timeout",
          "max_decompressed_size"}
Names == Named \cup Flags \cup FileFlags \cup Advanced

\* The functions of oxipng/__init__.py; create_optimized_png has none around it.
Facades == {"optimize", "analyze", "optimize_from_memory"}
Callees == Facades \cup {"create_optimized_png"}
OptionNames == Names \ {"level"}

ASSUME ParseOptionsAssumption ==
    /\ \A l \in Levels : /\ Preset[l]["timeout"] = Unset
                         /\ \A k \in Flags \cup FileFlags : Preset[l][k] = FALSE

VARIABLES
    called,    \* the function or method that is called
    asked,     \* what the caller wrote
    kwargs,    \* the dictionary that the native code gets
    todo,      \* the names it has not read yet
    slot,      \* the local variables of parse_options
    options,   \* the Options for oxipng, with backup and preserve_attrs
    outcome    \* none, ok, or the class of the exception

vars == <<called, asked, kwargs, todo, slot, options, outcome>>

-----------------------------------------------------------------------------
(* Values.                                                                 *)

IsNone(v) == v.type = "None"
IsBool(v) == v.type = "bool"

\* value_as_string: a str, or an object whose .value is a str; other values
\* have no text and are a ValueError everywhere.
HasText(v) == v.type \in {"str", "enum"}
TextIn(v, texts) == HasText(v) /\ v.text \in texts

InterlaceTexts == {"keep", "off", "0", "on", "1"}
StripTexts == {"none", "safe", "all"}
DeflateTexts == {"libdeflater", "zopfli"}

\* The names of the filter strategies and their aliases 0 to 9.
Strategies == <<"none", "sub", "up", "average", "paeth", "minsum", "entropy",
                "bigrams", "bigent", "brute">>
Digits == <<"0", "1", "2", "3", "4", "5", "6", "7", "8", "9">>
StrategyTexts == Range(Strategies) \cup Range(Digits)

\* parse_filter_strategy.
StrategyOf(v) ==
    LET i == CHOOSE i \in DOMAIN Strategies : v.text \in {Strategies[i], Digits[i]}
    IN  [name |-> Strategies[i], rows |-> {}]

\* parse_predefined_filters.
PredefinedOf(v) == [name |-> "predefined", rows |-> v.items]

\* The objects of FilterStrategy.predefined have been checked when they were
\* made.
IsPredefined(v) == v.type = "PredefinedFilters"

Sequential(v) == v.type \in {"list", "tuple", "set"}

\* parse_filters: one strategy, or a container of them.
AcceptsFilter(v) ==
    \/ IsPredefined(v)
    \/ TextIn(v, StrategyTexts)
    \/ /\ Sequential(v)
       /\ v.items # {}
       /\ \A i \in v.items : TextIn(i, StrategyTexts)

\* A set of strategies: the IndexSet without its order.
ParsedFilter(v) ==
    IF IsPredefined(v) THEN {PredefinedOf(v)}
    ELSE IF HasText(v) THEN {StrategyOf(v)}
    ELSE {StrategyOf(i) : i \in v.items}

\* parse_strip; the chunk names of a StripChunks.strip or .keep object have
\* not been checked when it was made, only that they are strings.
AcceptsStrip(v) ==
    \/ TextIn(v, StripTexts)
    \/ v.type = "CompatStripChunks" /\ \A i \in v.items : i.text \in ChunkNames

ParsedStrip(v) ==
    [mode |-> v.text, names |-> IF HasText(v) THEN {} ELSE {i.text : i \in v.items}]

\* parse_deflater.  Both factories take what they are given.
IsIntegral(v) == v.type \in {"int", "bool"}

DeflateError(v) ==
    IF v.type = "CompatDeflater"
    THEN LET value == CHOOSE i \in v.items : TRUE
             range == IF v.text = "zopfli" THEN 1..255 ELSE 0..12
         IN  IF ~IsIntegral(value) THEN "TypeError"
             ELSE IF value.n \notin (-MaxI64 - 1)..MaxI64 THEN "OverflowError"
             ELSE IF value.n \notin range THEN "ValueError"
             ELSE "none"
    ELSE IF TextIn(v, DeflateTexts) THEN "none" ELSE "ValueError"

\* The name libdeflater alone leaves the preset's deflater in place.
Deflater(v, preset) ==
    IF v.type = "CompatDeflater"
    THEN [kind |-> v.text, n |-> (CHOOSE i \in v.items : TRUE).n]
    ELSE IF v.text = "zopfli" THEN [kind |-> "zopfli", n |-> 15]
    ELSE preset

-----------------------------------------------------------------------------
(* What each option accepts.                                               *)

\* The options of a function; any other name is a TypeError.  The file flags
\* are optimize's alone.
Known(f) == IF f = "optimize" THEN Names ELSE Names \ FileFlags

\* Options for which None stands for no value.
Optional == Advanced \cup {"interlace", "strip", "deflate", "filter", "timeout",
                           "max_decompressed_size"}

Accepts(k, v) ==
    \/ k \in Optional /\ IsNone(v)
    \/ k \in Flags \cup FileFlags \cup Advanced /\ IsBool(v)
    \/ k = "level" /\ v.type = "int" /\ v.n \in Levels
    \/ k = "interlace" /\ TextIn(v, InterlaceTexts)
    \/ k = "strip" /\ AcceptsStrip(v)
    \/ k = "deflate" /\ DeflateError(v) = "none"
    \/ k = "filter" /\ AcceptsFilter(v)
    \/ k = "timeout" /\ v.type \in {"int", "float"} /\ v.n \in 0..MaxSeconds
    \/ k = "max_decompressed_size" /\ v.type = "int" /\ v.n \in 0..MaxUsize

\* A value that is not accepted is a TypeError when it has the wrong type for
\* an option that says so, and a ValueError otherwise.
WrongType(k, v) ==
    \/ k \in Flags \cup FileFlags \cup Advanced
    \/ k = "level" /\ IsBool(v)
    \/ k = "timeout" /\ v.type \notin {"int", "float"}
    \/ k = "max_decompressed_size" /\ v.type # "int"
    \/ k = "max_decompressed_size" /\ v.n \notin (-MaxI128 - 1)..MaxI128

OptionError(f, k, v) ==
    IF k \notin Known(f) THEN "TypeError"
    ELSE IF Accepts(k, v) THEN "none"
    ELSE IF k = "deflate" THEN DeflateError(v)
    ELSE IF WrongType(k, v) THEN "TypeError"
    ELSE "ValueError"

Parsed(k, v) ==
    CASE k \in Flags \cup FileFlags \cup Advanced -> v.n = 1
      [] k = "interlace" -> IF v.text \in {"off", "0"} THEN "off"
                            ELSE IF v.text \in {"on", "1"} THEN "on" ELSE "keep"
      [] k = "strip"     -> ParsedStrip(v)
      [] k = "filter"    -> ParsedFilter(v)
      [] k = "deflate"   -> v
      [] OTHER           -> v.n

\* No value that an option takes is Unset, so that an empty slot can be told;
\* deflate takes any value, for the time being.
ASSUME UnsetAssumption ==
    \A a \in Calls : \A k \in DOMAIN a :
        k = "deflate" \/ Accepts(k, a[k]) => Parsed(k, a[k]) # Unset

\* The value of a local variable before the loop.
NoValue(k) ==
    IF k = "level" THEN 2 ELSE IF k \in Flags \cup FileFlags THEN FALSE ELSE Unset

-----------------------------------------------------------------------------
(* The functions of oxipng/__init__.py.                                    *)

\* The order in which a function passes its parameters on: analyze and
\* optimize_from_memory have no file flags, and optimize_from_memory passes
\* color_type_reduction after the other reductions.
Order ==
    [f \in Facades |->
       <<"level", "interlace", "strip", "deflate", "filter", "fix_errors", "force">>
       \o (IF f = "optimize" THEN <<"backup", "preserve_attrs">> ELSE <<>>)
       \o <<"optimize_alpha", "bit_depth_reduction">>
       \o (IF f = "optimize_from_memory"
           THEN <<"palette_reduction", "grayscale_reduction", "idat_recoding",
                  "color_type_reduction">>
           ELSE <<"color_type_reduction", "palette_reduction",
                  "grayscale_reduction", "idat_recoding">>)
       \o <<"scale_16", "fast_evaluation", "timeout", "max_decompressed_size">>]

\* Function f passes j, one of its parameters, before k: what f does not know,
\* a file flag given to analyze or optimize_from_memory included, comes in
\* **unsupported, after every parameter and in the caller's order.
Precedes(f, j, k) ==
    \E i \in DOMAIN Order[f] :
        /\ Order[f][i] = j
        /\ \A h \in DOMAIN Order[f] : Order[f][h] = k => i < h

Value(type, n, text, items) == [type |-> type, n |-> n, text |-> text, items |-> items]

Default(k) ==
    IF k = "level" THEN Value("int", 2, "", {})
    ELSE IF k \in Flags \cup FileFlags THEN Value("bool", 0, "", {})
    ELSE Value("None", 0, "", {})

\* What a function passes on.
Passed(f, a) ==
    [k \in DOMAIN a \cup Known(f) |-> IF k \in DOMAIN a THEN a[k] ELSE Default(k)]

\* The check of level that comes first in the function.
FacadeRefuses(a) == "level" \in DOMAIN a /\ IsBool(a["level"])

-----------------------------------------------------------------------------
(* A call.                                                                 *)

\* Any function may be called with any options.
Init ==
    /\ called \in Callees
    /\ asked \in Calls
    /\ kwargs = IF called \in Facades THEN Passed(called, asked) ELSE asked
    /\ todo = DOMAIN kwargs
    /\ slot = [k \in Names |-> NoValue(k)]
    /\ options = Unset
    /\ outcome = "none"

Running == outcome = "none"

\* The Python function raises before it calls the native one.
FacadeRejects ==
    /\ Running
    /\ called \in Facades /\ FacadeRefuses(asked)
    /\ outcome' = "TypeError"
    /\ UNCHANGED <<called, asked, kwargs, todo, slot, options>>

\* The next entry of the dictionary.
IsNext(k) ==
    /\ Running
    /\ ~(called \in Facades /\ FacadeRefuses(asked))
    /\ k \in todo
    /\ called \in Facades => ~\E j \in todo : Precedes(called, j, k)

\* Variant: None overwrites the preset like any other value.
ReadValue_NoneToo(k) == slot' = [slot EXCEPT ![k] = Parsed(k, kwargs[k])]

\* The local variable of option k takes its value; None leaves it without one.
ReadValue(k) ==
    slot' = IF IsNone(kwargs[k]) THEN slot
            ELSE [slot EXCEPT ![k] = Parsed(k, kwargs[k])]

\* What the loop finds wrong with an entry; deflate is parsed after it.
EntryError(k) ==
    IF k = "deflate" THEN "none" ELSE OptionError(called, k, kwargs[k])

ReadOption(k) ==
    /\ IsNext(k)
    /\ EntryError(k) = "none"
    /\ ReadValue(k)
    /\ todo' = todo \ {k}
    /\ UNCHANGED <<called, asked, kwargs, options, outcome>>

RejectOption(k) ==
    /\ IsNext(k)
    /\ EntryError(k) # "none"
    /\ outcome' = EntryError(k)
    /\ UNCHANGED <<called, asked, kwargs, todo, slot, options>>

AllRead ==
    /\ Running
    /\ ~(called \in Facades /\ FacadeRefuses(asked))
    /\ todo = {}

\* Variant: deflate without a check of its range.
LateError_None == "none"

\* What the parser finds wrong with deflate in the end.
LateError ==
    IF slot["deflate"] = Unset THEN "none" ELSE DeflateError(slot["deflate"])

RejectDeflate ==
    /\ AllRead
    /\ LateError # "none"
    /\ outcome' = LateError
    /\ UNCHANGED <<called, asked, kwargs, todo, slot, options>>

\* Options::from_preset of the level that was read.
Base == Preset[slot["level"]]

\* The Options, and the two flags that come with them.  timeout, fix_errors,
\* force, backup and preserve_attrs replace what the preset has.
Built ==
    [k \in OptionNames |->
        IF k \in Flags \cup FileFlags \cup {"timeout"} THEN slot[k]
        ELSE IF slot[k] = Unset THEN Base[k]
        ELSE IF k = "deflate" THEN Deflater(slot[k], Base[k])
        ELSE slot[k]]

Finish ==
    /\ AllRead
    /\ LateError = "none"
    /\ options' = Built
    /\ outcome' = "ok"
    /\ UNCHANGED <<called, asked, kwargs, todo, slot>>

Next ==
    \/ FacadeRejects
    \/ \E k \in todo : ReadOption(k) \/ RejectOption(k)
    \/ RejectDeflate
    \/ Finish

Spec == Init /\ [][Next]_vars

-----------------------------------------------------------------------------
(* Properties.                                                             *)

Errors == {"TypeError", "ValueError", "OverflowError"}

TypeOK ==
    /\ called \in Callees
    /\ DOMAIN asked \subseteq DOMAIN kwargs
    /\ todo \subseteq DOMAIN kwargs
    /\ DOMAIN slot = Names
    /\ outcome \in Errors \cup {"none", "ok"}
    /\ IF outcome = "ok" THEN DOMAIN options = OptionNames ELSE options = Unset

\* Options::from_preset(level), and the options that were given over it
\* (docs/architecture/options-surface.md, "How Options Get Parsed").
Wanted(a) ==
    LET preset == Preset[IF "level" \in DOMAIN a THEN a["level"].n ELSE 2]
    IN  [k \in OptionNames |->
            IF k \notin DOMAIN a THEN preset[k]
            ELSE IF IsNone(a[k]) THEN preset[k]
            ELSE IF k = "deflate" THEN Deflater(a[k], preset[k])
            ELSE Parsed(k, a[k])]

\* oxipng gets the options that the caller asked for, in whatever order they
\* were passed and read, and whichever of them the Python function has added:
\* neither the order of the dictionary nor a default makes a difference.
OptionsAreAsked == outcome = "ok" => options = Wanted(asked)

\* A call is let through only if each of its options is acceptable, and it
\* fails with the error of one that is not: of the deflater, which is parsed
\* last, only when nothing else is at fault, and through a function of
\* oxipng/__init__.py of the first one at fault in the order that this function
\* passes them on, whatever order the caller wrote.
ErrorIsJustified ==
    LET error == [k \in DOMAIN asked |-> OptionError(called, k, asked[k])]
        faulty == {k \in DOMAIN asked : error[k] # "none"}
    IN  /\ outcome = "ok" => faulty = {}
        /\ outcome \in Errors =>
              \E k \in faulty :
                 /\ outcome = error[k]
                 /\ k = "deflate" => faulty = {k}
                 /\ called \in Facades =>
                       ~\E j \in faulty \ {"deflate"} : Precedes(called, j, k)
=============================================================================
