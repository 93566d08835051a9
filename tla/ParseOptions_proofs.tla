------------------------ MODULE ParseOptions_proofs ------------------------
(***************************************************************************)
(* What the option parser makes of any dictionary of options, in any order *)
(* and through every function that passes it on.                           *)
(***************************************************************************)
EXTENDS ParseOptions, TLAPS

\* What the loop has left behind: the slots of the entries that were read, all
\* of which are acceptable but deflate, which has not been looked at.
SlotsInv ==
    slot = [k \in Names |-> IF k \in DOMAIN kwargs \ todo /\ ~IsNone(kwargs[k])
                            THEN Parsed(k, kwargs[k]) ELSE NoValue(k)]

ReadInv == \A k \in DOMAIN kwargs \ todo : EntryError(k) = "none"

CallInv ==
    /\ called \in Callees
    /\ asked \in Calls
    /\ kwargs = IF called \in Facades THEN Passed(called, asked) ELSE asked
    /\ todo \subseteq DOMAIN kwargs

EndInv ==
    /\ outcome \in Errors \cup {"none", "ok"}
    /\ outcome \in Errors \cup {"none"} => options = Unset
    /\ outcome = "ok" => todo = {} /\ LateError = "none" /\ options = Built

IInv == CallInv /\ SlotsInv /\ ReadInv /\ EndInv /\ ErrorIsJustified

-----------------------------------------------------------------------------

\* Every default of the Python functions is acceptable.
LEMMA DefaultAccepted ==
    ASSUME NEW f \in Callees, NEW k \in Known(f)
    PROVE  OptionError(f, k, Default(k)) = "none"
  <1>1. CASE k = "level"
    <2>1. Default(k).type = "int" /\ Default(k).n = 2
      BY <1>1 DEF Default, Value
    <2> QED
      BY <1>1, <2>1 DEF OptionError, Accepts, Levels
  <1>2. CASE k \in Flags \cup FileFlags
    <2>1. Default(k).type = "bool"
      BY <1>2 DEF Default, Value, Flags, FileFlags
    <2> QED
      BY <1>2, <2>1 DEF OptionError, Accepts, IsBool
  <1>3. CASE k # "level" /\ k \notin Flags \cup FileFlags
    <2>1. Default(k).type = "None"
      BY <1>3 DEF Default, Value
    <2>2. k \in Optional
      BY <1>3 DEF Known, Names, Named, Optional
    <2> QED
      BY <2>1, <2>2 DEF OptionError, Accepts, IsNone
  <1> QED
    BY <1>1, <1>2, <1>3

\* kwargs holds what was asked, and defaults.
LEMMA KwargsAsked ==
    ASSUME CallInv
    PROVE  /\ DOMAIN asked \subseteq DOMAIN kwargs
           /\ \A k \in DOMAIN asked : kwargs[k] = asked[k]
           /\ \A k \in DOMAIN kwargs \ DOMAIN asked :
                 k \in Known(called) /\ kwargs[k] = Default(k)
  BY DEF CallInv, Passed

\* The types and the errors of parse_deflater.
LEMMA DeflateErrors ==
    ASSUME NEW v PROVE DeflateError(v) \in Errors \cup {"none"}
  BY DEF DeflateError, Errors

\* Every option has an error of a known kind, or none.
LEMMA OptionErrors ==
    ASSUME NEW f, NEW k, NEW v PROVE OptionError(f, k, v) \in Errors \cup {"none"}
  BY DeflateErrors DEF OptionError, Errors

\* What is read into the slot of level.
LEMMA ParsedLevel == ASSUME NEW v PROVE Parsed("level", v) = v.n
  BY DEF Parsed, Flags, FileFlags, Advanced

\* A default that was read leaves its slot as it was before.
LEMMA DefaultSlot ==
    ASSUME NEW k \in Names, ~IsNone(Default(k))
    PROVE  Parsed(k, Default(k)) = NoValue(k)
  <1>1. CASE k = "level"
    <2>1. Default(k).n = 2
      BY <1>1 DEF Default, Value
    <2> QED
      BY <1>1, <2>1, ParsedLevel DEF NoValue
  <1>2. CASE k \in Flags \cup FileFlags
    <2>1. Default(k).n = 0 /\ k # "level"
      BY <1>2 DEF Default, Value, Flags, FileFlags
    <2>2. k \notin {"interlace", "strip", "filter", "deflate"}
      BY <1>2 DEF Flags, FileFlags
    <2>3. Parsed(k, Default(k)) = (Default(k).n = 1)
      BY <1>2, <2>2, Zenon DEF Parsed
    <2>4. (0 = 1) = FALSE
      OBVIOUS
    <2> QED
      BY <1>2, <2>1, <2>3, <2>4 DEF NoValue
  <1>3. CASE k # "level" /\ k \notin Flags \cup FileFlags
    BY <1>3 DEF Default, Value, IsNone
  <1> QED
    BY <1>1, <1>2, <1>3

\* deflate is kept as it is.
LEMMA ParsedDeflate == ASSUME NEW v PROVE Parsed("deflate", v) = v
  BY DEF Parsed, Flags, FileFlags, Advanced

\* Once every entry has been read, a slot holds what was asked, or nothing.
LEMMA SlotAsked ==
    ASSUME CallInv, SlotsInv, todo = {}, NEW k \in Names
    PROVE  slot[k] = IF k \in DOMAIN asked /\ ~IsNone(asked[k])
                     THEN Parsed(k, asked[k]) ELSE NoValue(k)
  <1>1. slot[k] = IF k \in DOMAIN kwargs /\ ~IsNone(kwargs[k])
                  THEN Parsed(k, kwargs[k]) ELSE NoValue(k)
    BY DEF SlotsInv
  <1>2. CASE k \in DOMAIN asked
    BY <1>1, <1>2, KwargsAsked
  <1>3. CASE k \in DOMAIN kwargs \ DOMAIN asked
    BY <1>1, <1>3, KwargsAsked, DefaultSlot
  <1>4. CASE k \notin DOMAIN kwargs
    BY <1>1, <1>4, KwargsAsked
  <1> QED
    BY <1>2, <1>3, <1>4

\* When all has been read, the deflater alone may still be at fault.
LEMMA AllAccepted ==
    ASSUME CallInv, SlotsInv, ReadInv, todo = {}
    PROVE  /\ \A k \in DOMAIN asked \ {"deflate"} :
                 OptionError(called, k, asked[k]) = "none"
           /\ "deflate" \in DOMAIN asked =>
                 OptionError(called, "deflate", asked["deflate"]) = LateError
           /\ "deflate" \notin DOMAIN asked => LateError = "none"
  <1>1. \A k \in DOMAIN asked \ {"deflate"} : OptionError(called, k, asked[k]) = "none"
    BY KwargsAsked DEF ReadInv, EntryError
  <1>2. slot["deflate"] = IF "deflate" \in DOMAIN asked /\ ~IsNone(asked["deflate"])
                          THEN asked["deflate"] ELSE Unset
    BY SlotAsked, ParsedDeflate DEF NoValue, Names, Named, Flags, FileFlags
  <1>3. CASE "deflate" \in DOMAIN asked
    <2>1. asked["deflate"] # Unset
      BY <1>3, UnsetAssumption, ParsedDeflate DEF CallInv
    <2>2. "deflate" \in Known(called)
      BY DEF Known, Names, Named, FileFlags
    <2>3. CASE IsNone(asked["deflate"])
      BY <1>2, <2>2, <2>3, <1>1 DEF OptionError, Accepts, Optional, LateError
    <2>4. CASE ~IsNone(asked["deflate"])
      <3>1. LateError = DeflateError(asked["deflate"])
        BY <1>2, <1>3, <2>1, <2>4 DEF LateError
      <3>2. Accepts("deflate", asked["deflate"])
            <=> DeflateError(asked["deflate"]) = "none"
        BY <2>4 DEF Accepts, Flags, FileFlags, Advanced
      <3> QED
        BY <1>1, <1>3, <2>2, <3>1, <3>2 DEF OptionError
    <2> QED
      BY <2>3, <2>4
  <1>4. CASE "deflate" \notin DOMAIN asked
    BY <1>1, <1>2, <1>4 DEF LateError
  <1> QED
    BY <1>3, <1>4
-----------------------------------------------------------------------------

\* level comes first, through every function.
LEMMA LevelFirst ==
    ASSUME NEW f \in Facades, NEW j PROVE ~Precedes(f, j, "level")
  <1>1. 1 \in DOMAIN Order[f] /\ Order[f][1] = "level"
    BY DEF Order
  <1>2. DOMAIN Order[f] \subseteq Nat \ {0}
    BY DEF Order, Facades
  <1> QED
    BY <1>1, <1>2 DEF Precedes

\* No option has been read.
LEMMA InitIInv == Init => IInv
  <1> SUFFICES ASSUME Init PROVE IInv
    OBVIOUS
  <1>1. CallInv
    BY DEF Init, CallInv
  <1>2. SlotsInv /\ ReadInv
    BY DEF Init, SlotsInv, ReadInv
  <1>3. EndInv /\ ErrorIsJustified
    BY DEF Init, EndInv, ErrorIsJustified, Errors
  <1> QED
    BY <1>1, <1>2, <1>3 DEF IInv

\* The call itself does not change.
LEMMA SameCall ==
    ASSUME CallInv, UNCHANGED <<called, asked, kwargs>>, todo' \subseteq todo
    PROVE  CallInv'
  BY DEF CallInv

\* Reading or refusing an option keeps what has been read in order.
LEMMA StepIInv == IInv /\ [Next]_vars => IInv'
  <1> SUFFICES ASSUME IInv, [Next]_vars PROVE IInv'
    OBVIOUS
  <1> USE DEF IInv
  <1>1. CASE FacadeRejects
    <2>1. CallInv' /\ SlotsInv' /\ ReadInv'
      BY <1>1, SameCall DEF FacadeRejects, SlotsInv, ReadInv, EntryError
    <2>2. EndInv'
      BY <1>1 DEF FacadeRejects, EndInv, Running, Errors
    <2>3. "level" \in DOMAIN asked /\ OptionError(called, "level", asked["level"]) = "TypeError"
      BY <1>1 DEF FacadeRejects, FacadeRefuses, OptionError, Accepts, WrongType,
                  Optional, Flags, FileFlags, Advanced, IsBool
    <2>4. ErrorIsJustified'
      BY <1>1, <2>3, LevelFirst DEF FacadeRejects, ErrorIsJustified
    <2> QED
      BY <2>1, <2>2, <2>4
  <1>2. ASSUME NEW k \in todo, ReadOption(k) PROVE IInv'
    <2>1. CallInv'
      BY <1>2, SameCall DEF ReadOption
    <2>2. k \in Names
      BY <1>2 DEF ReadOption, EntryError, OptionError, Known, CallInv, Names, Named
    <2>3. SlotsInv'
      BY <1>2, <2>2 DEF ReadOption, ReadValue, SlotsInv, CallInv
    <2>4. ReadInv'
      BY <1>2 DEF ReadOption, ReadInv, EntryError
    <2>5. EndInv' /\ ErrorIsJustified'
      BY <1>2 DEF ReadOption, IsNext, Running, EndInv, ErrorIsJustified, Errors
    <2> QED
      BY <2>1, <2>3, <2>4, <2>5
  <1>3. ASSUME NEW k \in todo, RejectOption(k) PROVE IInv'
    <2>1. CallInv' /\ SlotsInv' /\ ReadInv'
      BY <1>3, SameCall DEF RejectOption, SlotsInv, ReadInv, EntryError
    <2>2. k # "deflate" /\ outcome' = OptionError(called, k, kwargs[k]) /\ outcome' # "none"
      BY <1>3 DEF RejectOption, EntryError
    <2>3. k \in DOMAIN asked /\ kwargs[k] = asked[k]
      BY <2>2, KwargsAsked, DefaultAccepted DEF CallInv
    <2>4. EndInv'
      BY <1>3, <2>2, OptionErrors DEF RejectOption, IsNext, Running, EndInv, Errors
    <2>5. ASSUME called \in Facades, NEW j \in DOMAIN asked \ {"deflate"},
                 Precedes(called, j, k)
          PROVE  OptionError(called, j, asked[j]) = "none"
      <3>1. j \in DOMAIN kwargs \ todo /\ kwargs[j] = asked[j]
        BY <1>3, <2>5, KwargsAsked DEF RejectOption, IsNext
      <3> QED
        BY <2>5, <3>1 DEF ReadInv, EntryError
    <2>6. ErrorIsJustified'
      BY <1>3, <2>2, <2>3, <2>5, OptionErrors DEF RejectOption, ErrorIsJustified, Errors
    <2> QED
      BY <2>1, <2>4, <2>6
  <1>4. CASE RejectDeflate
    <2>1. CallInv' /\ SlotsInv' /\ ReadInv'
      BY <1>4, SameCall DEF RejectDeflate, SlotsInv, ReadInv, EntryError
    <2>2. outcome' = LateError /\ LateError # "none" /\ todo = {}
      BY <1>4 DEF RejectDeflate, AllRead
    <2>3. LateError \in Errors
      BY <2>2, DeflateErrors DEF LateError
    <2>4. EndInv'
      BY <1>4, <2>2, <2>3 DEF RejectDeflate, AllRead, Running, EndInv, Errors
    <2>5. ErrorIsJustified'
      BY <1>4, <2>2, <2>3, AllAccepted DEF RejectDeflate, ErrorIsJustified, Errors
    <2> QED
      BY <2>1, <2>4, <2>5
  <1>5. CASE Finish
    <2>1. CallInv' /\ SlotsInv' /\ ReadInv'
      BY <1>5, SameCall DEF Finish, SlotsInv, ReadInv, EntryError
    <2>2. EndInv'
      BY <1>5 DEF Finish, AllRead, EndInv, Errors, LateError, Built, Base
    <2>3. ErrorIsJustified'
      BY <1>5, AllAccepted DEF Finish, AllRead, ErrorIsJustified, Errors
    <2> QED
      BY <2>1, <2>2, <2>3
  <1>6. CASE UNCHANGED vars
    BY <1>6 DEF vars, CallInv, SlotsInv, ReadInv, EntryError, EndInv, LateError,
                Built, Base, ErrorIsJustified
  <1> QED
    BY <1>1, <1>2, <1>3, <1>4, <1>5, <1>6 DEF Next

\* And so in every behaviour.
LEMMA AlwaysIInv == Spec => []IInv
  BY InitIInv, StepIInv, PTL DEF Spec
-----------------------------------------------------------------------------

\* The invariant gives the options that were asked for.
LEMMA BuiltAsWanted ==
    ASSUME IInv, outcome = "ok" PROVE options = Wanted(asked)
  <1> USE DEF IInv
  <1>1. todo = {} /\ LateError = "none" /\ options = Built
    BY DEF EndInv
  <1>2. \A k \in DOMAIN asked : OptionError(called, k, asked[k]) = "none"
    BY <1>1, AllAccepted
  <1> DEFINE level == IF "level" \in DOMAIN asked THEN asked["level"].n ELSE 2
  <1>3. slot["level"] = level /\ level \in Levels
    <2>1. CASE "level" \in DOMAIN asked
      <3>1. asked["level"].n \in Levels /\ ~IsNone(asked["level"])
        BY <1>2, <2>1 DEF OptionError, Accepts, Optional, Flags, FileFlags, Advanced,
                          WrongType, IsNone
      <3> QED
        BY <1>1, <2>1, <3>1, SlotAsked, ParsedLevel DEF Names, Named
    <2>2. CASE "level" \notin DOMAIN asked
      <3>1. slot["level"] = NoValue("level")
        BY <1>1, <2>2, SlotAsked DEF Names, Named
      <3>2. NoValue("level") = 2 /\ 2 \in Levels
        BY DEF NoValue, Levels
      <3> QED
        BY <2>2, <3>1, <3>2
    <2> QED
      BY <2>1, <2>2
  <1>4. ASSUME NEW k \in OptionNames PROVE Built[k] = Wanted(asked)[k]
    <2>1. k \in Names /\ k # "level"
      BY DEF OptionNames
    <2> DEFINE given == k \in DOMAIN asked /\ ~IsNone(asked[k])
    <2>2. slot[k] = IF given THEN Parsed(k, asked[k]) ELSE NoValue(k)
      BY <1>1, <2>1, SlotAsked
    <2>3. given => Parsed(k, asked[k]) # Unset
      <3>1. k \in DOMAIN asked => k = "deflate" \/ Accepts(k, asked[k])
        BY <1>2 DEF OptionError
      <3> QED
        BY <3>1, UnsetAssumption DEF CallInv
    <2>4. Wanted(asked)[k] = IF ~given THEN Preset[level][k]
                             ELSE IF k = "deflate" THEN Deflater(asked[k], Preset[level][k])
                             ELSE Parsed(k, asked[k])
      BY DEF Wanted
    <2>5. CASE k \in Flags \cup FileFlags \cup {"timeout"}
      <3>1. NoValue(k) = Preset[level][k]
        BY <1>3, <2>1, <2>5, ParseOptionsAssumption DEF NoValue, Flags, FileFlags
      <3>2. Built[k] = slot[k] /\ k # "deflate"
        BY <2>5 DEF Built, Flags, FileFlags
      <3> QED
        BY <2>2, <2>4, <3>1, <3>2
    <2>6. CASE k \notin Flags \cup FileFlags \cup {"timeout"}
      <3>1. NoValue(k) = Unset
        BY <2>1, <2>6 DEF NoValue
      <3>2. Built[k] = IF slot[k] = Unset THEN Preset[level][k]
                       ELSE IF k = "deflate" THEN Deflater(slot[k], Preset[level][k])
                       ELSE slot[k]
        BY <1>3, <2>6 DEF Built, Base
      <3> QED
        BY <2>2, <2>3, <2>4, <3>1, <3>2, ParsedDeflate
    <2> QED
      BY <2>5, <2>6
  <1> QED
    BY <1>1, <1>4 DEF Built, Wanted

\* The types, and that there are options just when the call is let through.
THEOREM TypeCorrect == Spec => []TypeOK
  <1>1. IInv => TypeOK
    BY KwargsAsked DEF IInv, CallInv, SlotsInv, EndInv, TypeOK, Built, Errors
  <1> QED
    BY AlwaysIInv, <1>1, PTL

\* Whatever is asked, in whatever order, oxipng gets preset and overrides.
THEOREM OptionsAlwaysAsAsked == Spec => []OptionsAreAsked
  <1>1. IInv => OptionsAreAsked
    BY BuiltAsWanted DEF OptionsAreAsked
  <1> QED
    BY AlwaysIInv, <1>1, PTL

\* A call fails for one of its own options, the first at fault in the order of
\* the function that was called, and only then.
THEOREM ErrorsAlwaysJustified == Spec => []ErrorIsJustified
  BY AlwaysIInv, PTL DEF IInv
=============================================================================
