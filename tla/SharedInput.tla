----------------------------- MODULE SharedInput -----------------------------
(***************************************************************************)
(* The memory API of the extension on inputs that several threads share:   *)
(* a RawImage object, whose add_* methods change it in place, and a        *)
(* bytearray given to optimize_from_memory (src/lib.rs).                   *)
(*                                                                         *)
(* Python code runs one thread at a time under the GIL.  The add_* methods *)
(* never give it up, so each is one step.  create_optimized_png and        *)
(* optimize_from_memory run Python code while they parse their options     *)
(* (the .value attribute of any object is read) and release the GIL while  *)
(* oxipng works, so other calls, or calls nested in those attributes, come *)
(* in between: a call of this module is an activation, not a thread.       *)
(* What protects the RawImage is PyO3's borrow flag: &self is held, shared,*)
(* during the whole call, and &mut self is refused meanwhile.              *)
(***************************************************************************)
EXTENDS Naturals

CONSTANTS
    Calls,      \* the activations of API functions
    Images,     \* RawImage objects
    Buffers,    \* bytearray objects
    None,       \* the input of an activation that is not running
    MaxEdits    \* bound: how often an input is changed

Inputs == Images \cup Buffers

ASSUME SharedInputAssumption ==
    /\ Images \cap Buffers = {}
    /\ None \notin Inputs
    /\ MaxEdits \in Nat

\* The content of an input is the number of changes that were made to it.
Content == 0..MaxEdits

VARIABLES
    content,   \* the present content of every input
    pc,        \* where each activation is
    on,        \* its input
    given,     \* the content of its input when it was called
    copy,      \* the bytes it took from a buffer
    seen,      \* what oxipng has read in the course of it
    result     \* how it ended

vars == <<content, pc, on, given, copy, seen, result>>

Outcomes == {"none", "ok", "TypeError", "ValueError", "PngError", "RuntimeError"}

TypeOK ==
    /\ content \in [Inputs -> Content]
    /\ pc \in [Calls -> {"idle", "parse", "encode"}]
    /\ on \in [Calls -> Inputs \cup {None}]
    /\ given \in [Calls -> Content]
    /\ copy \in [Calls -> Content]
    /\ seen \in [Calls -> SUBSET Content]
    /\ result \in [Calls -> Outcomes]
    /\ \A c \in Calls : pc[c] # "idle" <=> on[c] # None

Init ==
    /\ content = [o \in Inputs |-> 0]
    /\ pc = [c \in Calls |-> "idle"]
    /\ on = [c \in Calls |-> None]
    /\ given = [c \in Calls |-> 0]
    /\ copy = [c \in Calls |-> 0]
    /\ seen = [c \in Calls |-> {}]
    /\ result = [c \in Calls |-> "none"]

-----------------------------------------------------------------------------

\* Variant: a borrow that ends when the GIL is released.
Borrowed_UntilDetach(o) == \E c \in Calls : pc[c] = "parse" /\ on[c] = o

\* PyO3's shared borrow of a RawImage.
Borrowed(o) == \E c \in Calls : pc[c] # "idle" /\ on[c] = o

Change(o) ==
    /\ content[o] < MaxEdits
    /\ content' = [content EXCEPT ![o] = @ + 1]

\* add_png_chunk and add_icc_profile: PyO3 takes &mut self before the method
\* looks at its arguments.
Add(c, o) ==
    /\ pc[c] = "idle"
    /\ \/ /\ Borrowed(o)
          /\ result' = [result EXCEPT ![c] = "RuntimeError"]
          /\ UNCHANGED content
       \/ /\ ~Borrowed(o)
          /\ \E e \in {"TypeError", "ValueError"} : result' = [result EXCEPT ![c] = e]
          /\ UNCHANGED content
       \/ /\ ~Borrowed(o)
          /\ Change(o)
          /\ result' = [result EXCEPT ![c] = "ok"]
    /\ UNCHANGED <<pc, on, given, copy, seen>>

\* Python code writes into a bytearray that it has passed, or will pass.
WriteBuffer(o) ==
    /\ Change(o)
    /\ UNCHANGED <<pc, on, given, copy, seen, result>>

Enter(c, o) ==
    /\ pc[c] = "idle"
    /\ pc' = [pc EXCEPT ![c] = "parse"]
    /\ on' = [on EXCEPT ![c] = o]
    /\ given' = [given EXCEPT ![c] = content[o]]
    /\ seen' = [seen EXCEPT ![c] = {}]
    /\ result' = [result EXCEPT ![c] = "none"]

\* create_optimized_png takes &self; no call of this kind is refused, since
\* &mut self is never held while another call begins.
CreateOptimizedPng(c, o) ==
    /\ Enter(c, o)
    /\ UNCHANGED <<content, copy>>

\* optimize_from_memory copies its data first.
OptimizeFromMemory(c, o) ==
    /\ Enter(c, o)
    /\ copy' = [copy EXCEPT ![c] = content[o]]
    /\ UNCHANGED content

\* The call is over: the borrow and the buffer are given back.
Leave(c, r) ==
    /\ pc' = [pc EXCEPT ![c] = "idle"]
    /\ on' = [on EXCEPT ![c] = None]
    /\ result' = [result EXCEPT ![c] = r]
    /\ UNCHANGED <<content, given, copy, seen>>

ParseFails(c) ==
    /\ pc[c] = "parse"
    /\ \E e \in {"TypeError", "ValueError"} : Leave(c, e)

\* Variant: the data are copied after the options have been parsed.
Detach_CopyLate(c) ==
    /\ pc[c] = "parse"
    /\ pc' = [pc EXCEPT ![c] = "encode"]
    /\ copy' = [copy EXCEPT ![c] = content[on[c]]]
    /\ UNCHANGED <<content, on, given, seen, result>>

\* py.detach: the options are parsed and the GIL is given up.
Detach(c) ==
    /\ pc[c] = "parse"
    /\ pc' = [pc EXCEPT ![c] = "encode"]
    /\ UNCHANGED <<content, on, given, copy, seen, result>>

\* oxipng reads some of its input, again and again while it encodes.
Read(c) ==
    /\ pc[c] = "encode"
    /\ seen' = [seen EXCEPT ![c] =
                  @ \cup {IF on[c] \in Images THEN content[on[c]] ELSE copy[c]}]
    /\ UNCHANGED <<content, pc, on, given, copy, result>>

Finish(c) ==
    /\ pc[c] = "encode"
    /\ seen[c] # {}
    /\ \E r \in {"ok", "PngError"} : Leave(c, r)

Step(c) == ParseFails(c) \/ Detach(c) \/ Read(c) \/ Finish(c)

Next ==
    \/ \E c \in Calls, o \in Images : Add(c, o) \/ CreateOptimizedPng(c, o)
    \/ \E c \in Calls, o \in Buffers : OptimizeFromMemory(c, o)
    \/ \E o \in Buffers : WriteBuffer(o)
    \/ \E c \in Calls : Step(c)

Spec == Init /\ [][Next]_vars

-----------------------------------------------------------------------------

\* A PNG is made of what its input was when the call was made, whatever other
\* threads do to the RawImage or the bytearray until it is done: oxipng never
\* sees a later state, nor two different ones.
EncodesGivenInput == \A c \in Calls : seen[c] \subseteq {given[c]}

\* An input that a running call uses is still what it was given: PyO3's borrow
\* keeps a RawImage, and the copy made on entry stands for a buffer.
InputHeld ==
    \A c \in Calls : pc[c] # "idle" =>
        given[c] = IF on[c] \in Images THEN content[on[c]] ELSE copy[c]
=============================================================================
