------------------------- MODULE SharedInput_proofs -------------------------
(***************************************************************************)
(* What the memory API encodes, for any number of calls, RawImage objects  *)
(* and buffers.                                                            *)
(***************************************************************************)
EXTENDS SharedInput, TLAPS

\* The inductive invariant: what oxipng has seen is what was given, because
\* what a running call reads cannot change.
IInv == TypeOK /\ InputHeld /\ EncodesGivenInput

\* The type of what a call was given follows from the types of the inputs.
LEMMA ContentTyped ==
    ASSUME TypeOK, NEW o \in Inputs
    PROVE  content[o] \in Content
  BY DEF TypeOK

\* Both ways into a call note what the input is, and the buffer is copied.
LEMMA EnterKeeps ==
    ASSUME IInv, NEW c \in Calls, NEW o \in Inputs, Enter(c, o),
           UNCHANGED content,
           \/ o \in Images /\ UNCHANGED copy
           \/ o \in Buffers /\ copy' = [copy EXCEPT ![c] = content[o]]
    PROVE  IInv'
  <1> USE SharedInputAssumption DEF IInv, Enter, Inputs
  <1>1. content[o] \in Content
    BY ContentTyped
  <1>2. TypeOK'
    BY <1>1 DEF TypeOK, Outcomes
  <1>3. InputHeld'
    <2> SUFFICES ASSUME NEW d \in Calls, pc'[d] # "idle"
                 PROVE  given'[d] = IF on'[d] \in Images THEN content'[on'[d]]
                                                         ELSE copy'[d]
      BY DEF InputHeld
    <2>1. CASE d = c
      BY <2>1 DEF TypeOK
    <2>2. CASE d # c
      BY <2>2 DEF TypeOK, InputHeld
    <2> QED
      BY <2>1, <2>2
  <1>4. EncodesGivenInput'
    BY DEF TypeOK, EncodesGivenInput
  <1> QED
    BY <1>2, <1>3, <1>4

\* Leaving a call changes nothing that the invariant looks at.
LEMMA LeaveKeeps ==
    ASSUME IInv, NEW c \in Calls, NEW r \in Outcomes, Leave(c, r)
    PROVE  IInv'
  <1> USE SharedInputAssumption DEF IInv, Leave, Inputs
  <1>1. TypeOK'
    BY DEF TypeOK
  <1>2. InputHeld'
    BY DEF TypeOK, InputHeld
  <1>3. EncodesGivenInput'
    BY DEF TypeOK, EncodesGivenInput
  <1> QED
    BY <1>1, <1>2, <1>3

\* A change of an input that no running call reads.
LEMMA ChangeKeeps ==
    ASSUME IInv, NEW o \in Inputs, Change(o), o \in Images => ~Borrowed(o),
           UNCHANGED <<pc, on, given, copy, seen>>,
           result' \in [Calls -> Outcomes]
    PROVE  IInv'
  <1> USE SharedInputAssumption DEF IInv, Change, Inputs
  <1>1. TypeOK'
    <2>1. content[o] + 1 \in Content
      BY DEF TypeOK, Content
    <2> QED
      BY <2>1 DEF TypeOK
  <1>2. InputHeld'
    <2> SUFFICES ASSUME NEW d \in Calls, pc[d] # "idle"
                 PROVE  given[d] = IF on[d] \in Images THEN content'[on[d]]
                                                       ELSE copy[d]
      BY DEF InputHeld
    <2>1. on[d] \in Images => on[d] # o
      BY DEF Borrowed
    <2> QED
      BY <2>1 DEF TypeOK, InputHeld
  <1>3. EncodesGivenInput'
    BY DEF EncodesGivenInput
  <1> QED
    BY <1>1, <1>2, <1>3

\* No call has begun.
LEMMA InitIInv == Init => IInv
  BY SharedInputAssumption
     DEF Init, IInv, TypeOK, InputHeld, EncodesGivenInput, Content, Outcomes, Inputs

\* Every step keeps what the calls hold.
LEMMA StepIInv == IInv /\ [Next]_vars => IInv'
  <1> SUFFICES ASSUME IInv, [Next]_vars PROVE IInv'
    OBVIOUS
  <1> USE SharedInputAssumption
  <1>1. ASSUME NEW c \in Calls, NEW o \in Images, Add(c, o) PROVE IInv'
    <2>1. result' \in [Calls -> Outcomes]
      BY <1>1 DEF Add, IInv, TypeOK, Outcomes
    <2>2. CASE UNCHANGED content
      BY <1>1, <2>1, <2>2 DEF Add, IInv, TypeOK, InputHeld, EncodesGivenInput
    <2>3. CASE ~Borrowed(o) /\ Change(o)
      BY <1>1, <2>1, <2>3, ChangeKeeps DEF Add, Inputs
    <2> QED
      BY <1>1, <2>2, <2>3 DEF Add
  <1>2. ASSUME NEW c \in Calls, NEW o \in Images, CreateOptimizedPng(c, o)
        PROVE  IInv'
    BY <1>2, EnterKeeps DEF CreateOptimizedPng, Inputs
  <1>3. ASSUME NEW c \in Calls, NEW o \in Buffers, OptimizeFromMemory(c, o)
        PROVE  IInv'
    BY <1>3, EnterKeeps DEF OptimizeFromMemory, Inputs
  <1>4. ASSUME NEW o \in Buffers, WriteBuffer(o) PROVE IInv'
    <2>1. result' \in [Calls -> Outcomes]
      BY <1>4 DEF WriteBuffer, IInv, TypeOK
    <2> QED
      BY <1>4, <2>1, ChangeKeeps DEF WriteBuffer, Inputs
  <1>5. ASSUME NEW c \in Calls, ParseFails(c) PROVE IInv'
    BY <1>5, LeaveKeeps DEF ParseFails, Outcomes
  <1>6. ASSUME NEW c \in Calls, Detach(c) PROVE IInv'
    BY <1>6 DEF Detach, IInv, TypeOK, InputHeld, EncodesGivenInput
  <1>7. ASSUME NEW c \in Calls, Read(c) PROVE IInv'
    <2>1. given[c] = IF on[c] \in Images THEN content[on[c]] ELSE copy[c]
      BY <1>7 DEF Read, IInv, InputHeld
    <2>2. seen' = [seen EXCEPT ![c] = @ \cup {given[c]}]
      BY <1>7, <2>1 DEF Read
    <2>3. TypeOK'
      BY <1>7, <2>2 DEF Read, IInv, TypeOK
    <2> QED
      BY <1>7, <2>2, <2>3 DEF Read, IInv, TypeOK, InputHeld, EncodesGivenInput
  <1>8. ASSUME NEW c \in Calls, Finish(c) PROVE IInv'
    BY <1>8, LeaveKeeps DEF Finish, Outcomes
  <1>9. CASE UNCHANGED vars
    BY <1>9 DEF vars, IInv, TypeOK, InputHeld, EncodesGivenInput
  <1> QED
    BY <1>1, <1>2, <1>3, <1>4, <1>5, <1>6, <1>7, <1>8, <1>9 DEF Next, Step

\* And so in every behaviour.
LEMMA AlwaysIInv == Spec => []IInv
  BY InitIInv, StepIInv, PTL DEF Spec

\* Every variable keeps its type, and a call has an input just while it runs.
THEOREM TypeCorrect == Spec => []TypeOK
  BY AlwaysIInv, PTL DEF IInv

\* A running call's input is still what it was given (the shared borrow of
\* create_optimized_png, the copy made by optimize_from_memory).
THEOREM InputIsHeld == Spec => []InputHeld
  BY AlwaysIInv, PTL DEF IInv

\* oxipng sees what the caller gave it and nothing else, however many threads
\* change RawImage objects and buffers meanwhile.
THEOREM EncodesWhatWasGiven == Spec => []EncodesGivenInput
  BY AlwaysIInv, PTL DEF IInv
=============================================================================
