------------------------ MODULE OptimizeFile_proofs ------------------------
(***************************************************************************)
(* Proofs about OptimizeFile, for every set of callers, paths and calls,   *)
(* every number of blocks and every MaxGen.                                *)
(***************************************************************************)
EXTENDS OptimizeFile, TLAPS

\* A file that a call copies from, copies to or writes exists.
Opened ==
    \A c \in Callers :
        /\ pc[c] = "copy" => Source(c) # Absent /\ files[BackupOf(c)] # Absent
        /\ pc[c] = "write" => files[Target(job[c])] # Absent

TypeInv == TypeOK /\ Opened

-----------------------------------------------------------------------------
(* Facts about the helpers.                                                *)

\* The blocks of a file are numbered from 1, and the last one is NBlocks.
LEMMA BlockFacts ==
    /\ 1 \in Block
    /\ NBlocks \in Block
    /\ \A i \in Block : i < NBlocks => i + 1 \in Block
    /\ \A i \in Block : ~(i < NBlocks) => i = NBlocks
BY OptimizeFileAssumption DEF Block

\* The contents that the steps write are contents, block by block.
LEMMA BytesFacts ==
    /\ Empty \in Bytes
    /\ \A v \in Version : Whole(v) \in Bytes
    /\ \A p \in Paths : <<p, 0>> \in Version /\ Original(p) \in Bytes
    /\ \A f \in Bytes, i \in Block, x \in Version \cup {Hole} :
          [f EXCEPT ![i] = x] \in Bytes
    /\ \A f \in Bytes, i \in Block : f[i] \in Version \cup {Hole}
    /\ Absent \notin Bytes
<1>1. \A p \in Paths : <<p, 0>> \in Version
  BY OptimizeFileAssumption DEF Version
<1>2. \A v \in Version : Whole(v) \in Bytes
  BY DEF Whole, Bytes
<1>. QED
  BY <1>1, <1>2, OptimizeFileAssumption DEF Empty, Bytes, Original

\* The files that a call names are paths, and its backup is not one of them.
LEMMA JobFacts ==
    /\ \A j \in Job : Target(j) \in Paths /\ j.in \in Paths
    /\ \A c \in Callers : \A j \in Jobs[c] : j \in Job
    /\ \A p \in Paths : Bak[p] \in Backups /\ Bak[p] \notin Paths
BY OptimizeFileAssumption DEF Job, Target

\* A call that goes on to its next block or step keeps the callers typed.
LEMMA NextBlockType ==
    ASSUME NEW c \in Callers, NEW s, TypeOK, NextBlock(c, s)
    PROVE  /\ at' \in [Callers -> Block]
           /\ pc' = pc \/ pc' = [pc EXCEPT ![c] = s]
BY BlockFacts DEF NextBlock, Goto, TypeOK

\* A call that is over leaves the callers typed.
LEMMA ReturnType ==
    ASSUME NEW c \in Callers, NEW r \in Errors \cup {"none", "ok", "died"},
           TypeOK, Return(c, r)
    PROVE  /\ pc' = [pc EXCEPT ![c] = "idle"]
           /\ at' \in [Callers -> Block]
           /\ job' = [job EXCEPT ![c] = NoJob]
           /\ buf' \in [Callers -> Bytes]
           /\ out' = [out EXCEPT ![c] = Hole]
           /\ result' \in [Callers -> Errors \cup {"none", "ok", "died"}]
BY BlockFacts, BytesFacts DEF Return, Goto, TypeOK

\* A call that is over leaves the files and the other callers' calls typed.
LEMMA ReturnInv ==
    ASSUME NEW c \in Callers, NEW r \in Errors \cup {"none", "ok", "died"},
           TypeInv, Return(c, r), files' = files,
           wrote' \in [Callers -> BOOLEAN], torn' \in SUBSET Paths
    PROVE  TypeInv'
<1>1. TypeOK'
  BY ReturnType DEF TypeInv, TypeOK
<1>2. Opened'
  <2>. SUFFICES ASSUME NEW d \in Callers, pc'[d] # "idle"
                PROVE  pc'[d] = pc[d] /\ job'[d] = job[d]
    BY DEF TypeInv, Opened, Source, BackupOf, Target
  <2>. QED
    BY ReturnType DEF TypeInv, TypeOK
<1>. QED
  BY <1>1, <1>2 DEF TypeInv

\* Files are only added, and a step of c leaves the other callers alone: the
\* files that the others have opened stay there.
LEMMA OpenedKept ==
    ASSUME NEW c \in Callers, TypeInv,
           \A k \in Paths \cup Backups : files'[k] = Absent => files[k] = Absent,
           \A d \in Callers \ {c} : pc'[d] = pc[d] /\ job'[d] = job[d],
           pc'[c] = "copy" => /\ files'[job'[c].in] # Absent
                              /\ files'[Bak[job'[c].in]] # Absent,
           pc'[c] = "write" => files'[Target(job'[c])] # Absent
    PROVE  Opened'
<1>. SUFFICES ASSUME NEW d \in Callers \ {c}, pc'[d] \in {"copy", "write"}
              PROVE  /\ pc'[d] = "copy" => /\ files'[job'[d].in] # Absent
                                           /\ files'[Bak[job'[d].in]] # Absent
                     /\ pc'[d] = "write" => files'[Target(job'[d])] # Absent
  BY DEF Opened, Source, BackupOf
<1>1. job[d] \in Job
  BY JobFacts DEF TypeInv, TypeOK
<1>. QED
  BY <1>1, JobFacts DEF TypeInv, Opened, Source, BackupOf

\* No call has begun, so the types hold and nothing is open.
LEMMA InitType == Init => TypeInv
BY BlockFacts, BytesFacts DEF Init, TypeInv, TypeOK, Opened, Errors

\* One lemma per action: it keeps the types and the opened files.
LEMMA CallType ==
    ASSUME NEW c \in Callers, TypeInv, Call(c) \/ Reject(c)
    PROVE  TypeInv'
<1>1. CASE Call(c)
  <2>1. PICK j \in Jobs[c] : /\ job' = [job EXCEPT ![c] = j]
                             /\ Goto(c, IF j.backup THEN "backup" ELSE "read")
    BY <1>1 DEF Call
  <2>2. TypeOK'
    BY <1>1, <2>1, BlockFacts, JobFacts DEF Call, Goto, TypeInv, TypeOK
  <2>3. Opened'
    BY <1>1, <2>1 DEF Call, Goto, TypeInv, TypeOK, Opened, Source, BackupOf, Target
  <2>. QED
    BY <2>2, <2>3 DEF TypeInv
<1>2. CASE Reject(c)
  BY <1>2 DEF Reject, TypeInv, TypeOK, Opened, Errors, Source, BackupOf, Target
<1>. QED
  BY <1>1, <1>2

\* An input that is opened, and a backup that is created.
LEMMA CreateBackupType ==
    ASSUME NEW c \in Callers, TypeInv, CreateBackup(c)
    PROVE  TypeInv'
<1>1. job[c] \in Job /\ BackupOf(c) \in Backups /\ job[c].in \in Paths
  BY JobFacts DEF CreateBackup, TypeInv, TypeOK, BackupOf
<1>2. TypeOK'
  BY <1>1, BlockFacts, BytesFacts DEF CreateBackup, Goto, TypeInv, TypeOK
<1>3. Opened'
  <2>1. /\ \A k \in Paths \cup Backups : files'[k] = Absent => files[k] = Absent
        /\ files'[BackupOf(c)] # Absent
    BY <1>1, BytesFacts DEF CreateBackup, TypeInv, TypeOK
  <2>. QED
    BY <1>1, <2>1, OpenedKept
    DEF CreateBackup, Goto, TypeInv, TypeOK, Source, BackupOf
<1>. QED
  BY <1>2, <1>3 DEF TypeInv

\* A block that is copied is one of a file that is there.
LEMMA CopyBlockType ==
    ASSUME NEW c \in Callers, TypeInv, CopyBlock(c)
    PROVE  TypeInv'
<1>1. /\ job[c] \in Job /\ BackupOf(c) \in Backups /\ job[c].in \in Paths
      /\ job'[c] = job[c] /\ at[c] \in Block
  BY JobFacts DEF CopyBlock, TypeInv, TypeOK, BackupOf
<1>2. Source(c) \in Bytes /\ files[BackupOf(c)] \in Bytes
  BY <1>1 DEF CopyBlock, TypeInv, TypeOK, Opened, Source
<1>3. [files[BackupOf(c)] EXCEPT ![at[c]] = Source(c)[at[c]]] \in Bytes
  BY <1>1, <1>2, BytesFacts
<1>4. /\ files' \in [Paths \cup Backups -> Bytes \cup {Absent}]
      /\ \A k \in Paths \cup Backups : files'[k] = Absent => files[k] = Absent
  BY <1>1, <1>3, BytesFacts DEF CopyBlock, TypeInv, TypeOK
<1>5. /\ at' \in [Callers -> Block]
      /\ pc' = pc \/ pc' = [pc EXCEPT ![c] = "read"]
  BY NextBlockType DEF CopyBlock, TypeInv
<1>6. TypeOK'
  BY <1>4, <1>5 DEF CopyBlock, TypeInv, TypeOK
<1>7. Opened'
  BY <1>1, <1>2, <1>4, <1>5, BytesFacts, OpenedKept
  DEF CopyBlock, TypeInv, TypeOK, Source, BackupOf
<1>. QED
  BY <1>6, <1>7 DEF TypeInv

\* A block that is read is one of a file that is there.
LEMMA ReadBlockType ==
    ASSUME NEW c \in Callers, TypeInv, ReadBlock(c)
    PROVE  TypeInv'
<1>1. job[c].in \in Paths /\ at[c] \in Block
  BY JobFacts DEF ReadBlock, TypeInv, TypeOK
<1>2. [buf[c] EXCEPT ![at[c]] = Source(c)[at[c]]] \in Bytes
  BY <1>1, BytesFacts DEF ReadBlock, TypeInv, TypeOK, Source
<1>3. /\ at' \in [Callers -> Block]
      /\ pc' = pc \/ pc' = [pc EXCEPT ![c] = "decode"]
  BY NextBlockType DEF ReadBlock, TypeInv
<1>4. TypeOK'
  BY <1>2, <1>3 DEF ReadBlock, TypeInv, TypeOK
<1>5. Opened'
  BY <1>3 DEF ReadBlock, TypeInv, TypeOK, Opened, Source, BackupOf
<1>. QED
  BY <1>4, <1>5 DEF TypeInv

\* A result that is to be written is a version.
LEMMA OptimizeToWriteType ==
    ASSUME NEW c \in Callers, TypeInv, OptimizeToWrite(c)
    PROVE  TypeInv'
<1>1. PICK w \in Version : out' = [out EXCEPT ![c] = w]
  BY DEF OptimizeToWrite, Recompressed
<1>2. TypeOK'
  BY <1>1, BlockFacts, OptimizeFileAssumption
  DEF OptimizeToWrite, Goto, TypeInv, TypeOK
<1>3. Opened'
  BY DEF OptimizeToWrite, Goto, TypeInv, TypeOK, Opened, Source, BackupOf
<1>. QED
  BY <1>2, <1>3 DEF TypeInv

\* The target is created or cut.
LEMMA CreateTargetType ==
    ASSUME NEW c \in Callers, TypeInv, CreateTarget(c)
    PROVE  TypeInv'
<1>1. job[c] \in Job /\ Target(job[c]) \in Paths
  BY JobFacts DEF CreateTarget, TypeInv, TypeOK
<1>2. TypeOK'
  BY <1>1, BlockFacts, BytesFacts DEF CreateTarget, Goto, TypeInv, TypeOK
<1>3. Opened'
  <2>1. /\ \A k \in Paths \cup Backups : files'[k] = Absent => files[k] = Absent
        /\ files'[Target(job[c])] # Absent
    BY <1>1, BytesFacts DEF CreateTarget, TypeInv, TypeOK
  <2>. QED
    BY <2>1, OpenedKept DEF CreateTarget, Goto, TypeInv, TypeOK
<1>. QED
  BY <1>2, <1>3 DEF TypeInv

\* A block that is written is one of the target.
LEMMA WriteBlockType ==
    ASSUME NEW c \in Callers, TypeInv, WriteBlock(c)
    PROVE  TypeInv'
<1>1. /\ job[c] \in Job /\ Target(job[c]) \in Paths /\ at[c] \in Block
      /\ out[c] \in Version /\ files[Target(job[c])] \in Bytes
  BY JobFacts DEF WriteBlock, TypeInv, TypeOK, Opened
<1>2. [files[Target(job[c])] EXCEPT ![at[c]] = out[c]] \in Bytes
  BY <1>1, BytesFacts
<1>3. /\ files' \in [Paths \cup Backups -> Bytes \cup {Absent}]
      /\ \A k \in Paths \cup Backups : files'[k] = Absent => files[k] = Absent
  BY <1>1, <1>2, BytesFacts DEF WriteBlock, TypeInv, TypeOK
<1>4. CASE at[c] = NBlocks
  <2>1. Return(c, "ok")
    BY <1>4 DEF WriteBlock
  <2>2. TypeOK'
    BY <1>3, <2>1, ReturnType DEF WriteBlock, TypeInv, TypeOK
  <2>3. Opened'
    BY <1>3, <2>1, ReturnType, OpenedKept DEF TypeInv, TypeOK
  <2>. QED
    BY <2>2, <2>3 DEF TypeInv
<1>5. CASE at[c] # NBlocks
  <2>1. /\ at' \in [Callers -> Block]
        /\ pc' = pc \/ pc' = [pc EXCEPT ![c] = "write"]
        /\ UNCHANGED <<job, buf, out, result>>
    BY <1>5, NextBlockType DEF WriteBlock, TypeInv
  <2>2. TypeOK'
    BY <1>3, <2>1 DEF WriteBlock, TypeInv, TypeOK
  <2>3. Opened'
    BY <1>1, <1>3, <2>1, BytesFacts, OpenedKept DEF WriteBlock, TypeInv, TypeOK
  <2>. QED
    BY <2>2, <2>3 DEF TypeInv
<1>. QED
  BY <1>4, <1>5

\* The steps that end a call without touching a file.
LEMMA EndType ==
    ASSUME NEW c \in Callers, TypeInv,
           \/ BackupFails(c) \/ ReadMissing(c) \/ DecodeFails(c)
           \/ OptimizeNoWrite(c) \/ IoError(c) \/ Crash(c)
    PROVE  TypeInv'
<1>1. PICK r \in Errors \cup {"none", "ok", "died"} : Return(c, r)
  BY DEF BackupFails, ReadMissing, DecodeFails, OptimizeNoWrite, IoError, Crash,
         Fail, MapPngError, MapBackupError, Errors
<1>2. Broken(c) \subseteq Paths
  BY JobFacts DEF Broken, TypeInv, TypeOK
<1>3. files' = files /\ wrote' = wrote /\ torn' \in SUBSET Paths
  BY <1>2 DEF BackupFails, ReadMissing, DecodeFails, OptimizeNoWrite, IoError,
              Crash, Fail, TypeInv, TypeOK
<1>. QED
  BY <1>1, <1>3, ReturnInv DEF TypeInv, TypeOK

\* So every step keeps the types.
LEMMA NextType == TypeInv /\ [Next]_vars => TypeInv'
<1>. SUFFICES ASSUME TypeInv, [Next]_vars
              PROVE  TypeInv'
  OBVIOUS
<1>1. CASE UNCHANGED vars
  BY <1>1 DEF vars, TypeInv, TypeOK, Opened, Source, BackupOf
<1>2. ASSUME NEW c \in Callers,
             Call(c) \/ Reject(c) \/ Step(c) \/ IoError(c) \/ Crash(c)
      PROVE  TypeInv'
  BY <1>2, CallType, CreateBackupType, CopyBlockType, ReadBlockType,
     OptimizeToWriteType, CreateTargetType, WriteBlockType, EndType DEF Step
<1>. QED
  BY <1>1, <1>2 DEF Next

\* And every behaviour has them.
LEMMA TypeInvariant == Spec => []TypeInv
BY InitType, NextType, PTL DEF Spec

\* Every variable keeps its type, in every behaviour of the calls.
THEOREM TypeCorrect == Spec => []TypeOK
BY TypeInvariant, PTL DEF TypeInv

-----------------------------------------------------------------------------
(* The original of a guarded file is never lost.                           *)
(*                                                                         *)
(* OriginalRecoverable is not inductive: it has to know that the one call  *)
(* that has created the backup is the only one past create_backup, how far *)
(* its copy is, and that the file does not change before the copy is whole.*)

\* c has created the backup of p and its call is not over.
Holds(c, p) ==
    /\ pc[c] \in {"copy", "read", "decode", "create", "write"}
    /\ job[c].backup
    /\ job[c].in = p

\* What the checks on the way to a step leave true of the call.
Shape(c) ==
    /\ pc[c] \in {"backup", "copy"} => job[c].backup
    /\ pc[c] # "idle" /\ job[c].backup => job[c].out = NoPath /\ ~job[c].dry
    /\ pc[c] \in {"create", "write"} => ~job[c].dry

\* Where the call of c, which holds the backup of p, is.
Progress(c, p) ==
    /\ files[Bak[p]] # Absent
    /\ pc[c] \in {"copy", "read"} => files[p] = Original(p)
    /\ pc[c] = "copy" =>
          \A b \in Block : b < at[c] => files[Bak[p]][b] = <<p, 0>>
    /\ pc[c] # "copy" => files[Bak[p]] = Original(p)
    /\ pc[c] = "read" => \A b \in Block : b < at[c] => buf[c][b] = <<p, 0>>
    /\ pc[c] \in {"decode", "create", "write"} => buf[c] = Original(p)

Saved(p) ==
    /\ \A c, d \in Callers : Holds(c, p) /\ Holds(d, p) => c = d
    /\ \A c \in Callers : Holds(c, p) => Progress(c, p)
    /\ files[p] = Original(p) \/ files[Bak[p]] = Original(p)

SavedInv ==
    /\ \A c \in Callers : Shape(c)
    /\ \A p \in Guarded : Saved(p)

\* Guarded files have backups of their own, and are written with backup=True.
LEMMA PathFacts ==
    /\ \A p \in Guarded : p \in Paths
    /\ \A p \in Guarded, c \in Callers : \A j \in Jobs[c] :
          ~j.dry /\ Target(j) = p => j.backup
    /\ \A p, q \in Paths : Bak[p] # q /\ (Bak[p] = Bak[q] => p = q)
BY OptimizeFileAssumption, JobFacts DEF Guarded, Writes

\* A step of c that leaves p and its backup alone, and c in order.
LEMMA SavedFrame ==
    ASSUME NEW c \in Callers, NEW p \in Guarded, Saved(p),
           \A d \in Callers \ {c} : /\ pc'[d] = pc[d] /\ job'[d] = job[d]
                                    /\ at'[d] = at[d] /\ buf'[d] = buf[d],
           files'[p] = files[p], files'[Bak[p]] = files[Bak[p]],
           Holds(c, p)' => Holds(c, p) /\ Progress(c, p)'
    PROVE  Saved(p)'
<1>1. ASSUME NEW d \in Callers, Holds(d, p)'
      PROVE  Holds(d, p)
  BY <1>1 DEF Holds
<1>2. ASSUME NEW d \in Callers, Holds(d, p)'
      PROVE  Progress(d, p)'
  BY <1>1, <1>2 DEF Saved, Progress, Holds, Original, Whole
<1>. QED
  BY <1>1, <1>2 DEF Saved, Original, Whole

\* A call that ends, or one that begins, holds no backup.
LEMMA SavedIdle ==
    ASSUME NEW c \in Callers, NEW p \in Guarded, Saved(p),
           pc'[c] \in {"idle", "backup"} \/ (pc'[c] = "read" /\ ~job'[c].backup),
           \A d \in Callers \ {c} : /\ pc'[d] = pc[d] /\ job'[d] = job[d]
                                    /\ at'[d] = at[d] /\ buf'[d] = buf[d],
           files' = files
    PROVE  Saved(p)'
<1>1. ~Holds(c, p)'
  BY DEF Holds
<1>. QED
  BY <1>1, SavedFrame

\* The call that creates the backup becomes its holder.
LEMMA SavedCreateBackup ==
    ASSUME NEW c \in Callers, NEW p \in Guarded, TypeInv, Saved(p), Shape(c),
           CreateBackup(c)
    PROVE  Saved(p)'
<1>1. /\ job[c] \in Job /\ job[c].in \in Paths /\ p \in Paths
      /\ Bak[p] \in Paths \cup Backups /\ Bak[p] # p
  BY JobFacts, PathFacts DEF CreateBackup, TypeInv, TypeOK
<1>2. \A d \in Callers \ {c} : /\ pc'[d] = pc[d] /\ job'[d] = job[d]
                               /\ at'[d] = at[d] /\ buf'[d] = buf[d]
  BY DEF CreateBackup, Goto, TypeInv, TypeOK
<1>3. pc'[c] = "copy" /\ at'[c] = 1 /\ job'[c] = job[c]
  BY DEF CreateBackup, Goto, TypeInv, TypeOK
<1>4. CASE job[c].in # p
  <2>1. files'[p] = files[p] /\ files'[Bak[p]] = files[Bak[p]]
    BY <1>1, <1>4, PathFacts DEF CreateBackup, TypeInv, TypeOK, BackupOf
  <2>2. ~Holds(c, p)'
    BY <1>3, <1>4 DEF Holds
  <2>. QED
    BY <1>2, <2>1, <2>2, SavedFrame
<1>5. CASE job[c].in = p
  <2>1. files[Bak[p]] = Absent
    BY <1>5 DEF CreateBackup, BackupFree, BackupOf
  <2>2. files[p] = Original(p)
    BY <1>1, <2>1, BytesFacts DEF Saved
  <2>3. \A d \in Callers : ~Holds(d, p)
    BY <2>1 DEF Saved, Progress
  <2>4. files'[p] = Original(p) /\ files'[Bak[p]] # Absent
    BY <1>1, <1>5, <2>2, BytesFacts DEF CreateBackup, TypeInv, TypeOK, BackupOf
  <2>5. \A d \in Callers : Holds(d, p)' => d = c
    BY <1>2, <2>3 DEF Holds
  <2>6. Progress(c, p)'
    BY <1>3, <2>4 DEF Progress, Block, Original, Whole
  <2>. QED
    BY <2>4, <2>5, <2>6 DEF Saved, Original, Whole
<1>. QED
  BY <1>4, <1>5

\* The holder copies the original, block by block.
LEMMA SavedCopyBlock ==
    ASSUME NEW c \in Callers, NEW p \in Guarded, TypeInv, Saved(p), Shape(c),
           CopyBlock(c)
    PROVE  Saved(p)'
<1>1. /\ job[c] \in Job /\ job[c].in \in Paths /\ p \in Paths
      /\ Bak[p] \in Paths \cup Backups /\ Bak[p] # p /\ at[c] \in Block
      /\ job'[c] = job[c]
  BY JobFacts, PathFacts DEF CopyBlock, TypeInv, TypeOK
<1>2. \A d \in Callers \ {c} : /\ pc'[d] = pc[d] /\ job'[d] = job[d]
                               /\ at'[d] = at[d] /\ buf'[d] = buf[d]
  BY DEF CopyBlock, NextBlock, Goto, TypeInv, TypeOK
<1>3. CASE job[c].in # p
  <2>1. files'[p] = files[p] /\ files'[Bak[p]] = files[Bak[p]]
    BY <1>1, <1>3, PathFacts DEF CopyBlock, TypeInv, TypeOK, BackupOf
  <2>2. ~Holds(c, p)'
    BY <1>1, <1>3 DEF Holds
  <2>. QED
    BY <1>2, <2>1, <2>2, SavedFrame
<1>4. CASE job[c].in = p
  <2>1. Holds(c, p) /\ pc[c] = "copy"
    BY <1>4 DEF CopyBlock, Shape, Holds
  <2>2. /\ files[p] = Original(p)
        /\ files[Bak[p]] \in Bytes
        /\ \A b \in Block : b < at[c] => files[Bak[p]][b] = <<p, 0>>
    BY <1>1, <2>1 DEF Saved, Progress, TypeInv, TypeOK
  <2>3. /\ files'[p] = Original(p)
        /\ files'[Bak[p]] = [files[Bak[p]] EXCEPT ![at[c]] = <<p, 0>>]
    BY <1>1, <1>4, <2>2
    DEF CopyBlock, BackupOf, Source, Original, Whole, TypeInv, TypeOK
  <2>4. \A b \in Block : b < at[c] \/ b = at[c] => files'[Bak[p]][b] = <<p, 0>>
    BY <1>1, <2>2, <2>3 DEF Bytes
  <2>5. files'[Bak[p]] \in Bytes
    <3>1. <<p, 0>> \in Version \cup {Hole}
      BY <1>1, BytesFacts
    <3>. QED
      BY <1>1, <2>2, <2>3, <3>1 DEF Bytes
  <2>6. Progress(c, p)'
    <3>1. CASE at[c] < NBlocks
      <4>1. pc'[c] = "copy" /\ at'[c] = at[c] + 1
        BY <1>1, <3>1 DEF CopyBlock, NextBlock, TypeInv, TypeOK
      <4>. QED
        BY <1>1, <2>3, <2>4, <2>5, <4>1, BytesFacts
        DEF Progress, Original, Whole, Block
    <3>2. CASE ~(at[c] < NBlocks)
      <4>1. pc'[c] = "read" /\ at'[c] = 1
        BY <3>2 DEF CopyBlock, NextBlock, Goto, TypeInv, TypeOK
      <4>2. \A b \in Block : b < at[c] \/ b = at[c]
        BY <1>1, <3>2, OptimizeFileAssumption DEF Block
      <4>3. files'[Bak[p]] = Original(p)
        BY <2>4, <2>5, <4>2 DEF Bytes, Original, Whole
      <4>4. \A b \in Block : ~(b < 1)
        BY DEF Block
      <4>. QED
        BY <2>3, <2>5, <4>1, <4>3, <4>4, BytesFacts DEF Progress, Original, Whole
    <3>. QED
      BY <3>1, <3>2
  <2>7. \A d \in Callers : Holds(d, p)' => d = c
    BY <1>2, <2>1 DEF Holds, Saved
  <2>. QED
    BY <2>3, <2>6, <2>7 DEF Saved, Original, Whole
<1>. QED
  BY <1>3, <1>4

\* The holder reads the original, block by block.
LEMMA SavedReadBlock ==
    ASSUME NEW c \in Callers, NEW p \in Guarded, TypeInv, Saved(p),
           ReadBlock(c)
    PROVE  Saved(p)'
<1>1. /\ p \in Paths /\ at[c] \in Block /\ pc[c] = "read" /\ buf[c] \in Bytes
      /\ job' = job /\ files' = files
  BY PathFacts DEF ReadBlock, TypeInv, TypeOK
<1>2. \A d \in Callers \ {c} : /\ pc'[d] = pc[d] /\ job'[d] = job[d]
                               /\ at'[d] = at[d] /\ buf'[d] = buf[d]
  BY DEF ReadBlock, NextBlock, Goto, TypeInv, TypeOK
<1>3. ASSUME Holds(c, p)'
      PROVE  Holds(c, p) /\ Progress(c, p)'
  <2>1. Holds(c, p)
    BY <1>1, <1>3 DEF Holds
  <2>2. /\ files[p] = Original(p) /\ files[Bak[p]] = Original(p)
        /\ files[Bak[p]] # Absent
        /\ \A b \in Block : b < at[c] => buf[c][b] = <<p, 0>>
    BY <1>1, <2>1 DEF Saved, Progress
  <2>3. buf'[c] = [buf[c] EXCEPT ![at[c]] = <<p, 0>>]
    BY <1>1, <2>1, <2>2
    DEF ReadBlock, Source, Holds, Original, Whole, TypeInv, TypeOK
  <2>4. \A b \in Block : b < at[c] \/ b = at[c] => buf'[c][b] = <<p, 0>>
    BY <1>1, <2>2, <2>3 DEF Bytes
  <2>5. CASE at[c] < NBlocks
    <3>1. pc'[c] = "read" /\ at'[c] = at[c] + 1
      BY <1>1, <2>5 DEF ReadBlock, NextBlock, TypeInv, TypeOK
    <3>2. \A b \in Block : b < at'[c] => buf'[c][b] = <<p, 0>>
      BY <1>1, <2>4, <3>1 DEF Block
    <3>. QED
      BY <1>1, <2>1, <2>2, <3>1, <3>2 DEF Progress, Original, Whole
  <2>6. CASE ~(at[c] < NBlocks)
    <3>1. pc'[c] = "decode"
      BY <2>6 DEF ReadBlock, NextBlock, Goto, TypeInv, TypeOK
    <3>2. \A b \in Block : b < at[c] \/ b = at[c]
      BY <1>1, <2>6, OptimizeFileAssumption DEF Block
    <3>3. buf'[c] = Original(p)
      BY <1>1, <2>3, <2>4, <3>2 DEF Bytes, Original, Whole
    <3>. QED
      BY <1>1, <2>1, <2>2, <3>1, <3>3 DEF Progress, Original, Whole
  <2>. QED
    BY <2>5, <2>6
<1>. QED
  BY <1>1, <1>2, <1>3, SavedFrame

\* The holder goes on to its write with the backup whole.
LEMMA SavedOptimizeToWrite ==
    ASSUME NEW c \in Callers, NEW p \in Guarded, TypeInv, Saved(p),
           OptimizeToWrite(c)
    PROVE  Saved(p)'
<1>1. /\ pc[c] = "decode" /\ pc' = [pc EXCEPT ![c] = "create"]
      /\ job' = job /\ buf' = buf /\ files' = files
  BY DEF OptimizeToWrite, Goto
<1>2. \A d \in Callers \ {c} : pc'[d] = pc[d] /\ at'[d] = at[d]
  BY DEF OptimizeToWrite, Goto, TypeInv, TypeOK
<1>3. Holds(c, p)' => Holds(c, p) /\ Progress(c, p)'
  BY <1>1 DEF TypeInv, TypeOK, Holds, Saved, Progress, Original, Whole
<1>. QED
  BY <1>1, <1>2, <1>3, SavedFrame

\* The steps that write the target: only the holder of its backup writes a
\* guarded file, and its backup is whole by then.
LEMMA SavedWrite ==
    ASSUME NEW c \in Callers, NEW p \in Guarded, TypeInv, Saved(p), Shape(c),
           CreateTarget(c) \/ WriteBlock(c)
    PROVE  Saved(p)'
<1>1. /\ p \in Paths /\ job[c] \in Jobs[c] /\ job[c] \in Job
      /\ Target(job[c]) \in Paths /\ Bak[p] # Target(job[c]) /\ ~job[c].dry
      /\ pc[c] \in {"create", "write"} /\ pc'[c] \in {"write", "idle"}
      /\ Bak[p] \in Paths \cup Backups
  BY JobFacts, PathFacts
  DEF CreateTarget, WriteBlock, NextBlock, Return, Goto, TypeInv, TypeOK, Shape
<1>2. \A d \in Callers \ {c} : /\ pc'[d] = pc[d] /\ job'[d] = job[d]
                               /\ at'[d] = at[d] /\ buf'[d] = buf[d]
  BY DEF CreateTarget, WriteBlock, NextBlock, Return, Goto, TypeInv, TypeOK
<1>3. pc'[c] = "write" => job'[c] = job[c] /\ buf'[c] = buf[c]
  BY <1>1 DEF CreateTarget, WriteBlock, NextBlock, Return, Goto, TypeInv, TypeOK
<1>4. files'[Bak[p]] = files[Bak[p]]
  BY <1>1 DEF CreateTarget, WriteBlock, TypeInv, TypeOK
<1>5. Holds(c, p)' => Holds(c, p)
  BY <1>1, <1>3 DEF Holds
<1>6. ASSUME Holds(c, p)'
      PROVE  Progress(c, p)'
  BY <1>1, <1>3, <1>4, <1>5, <1>6 DEF Holds, Saved, Progress, Original, Whole
<1>7. CASE Target(job[c]) # p
  <2>1. files'[p] = files[p]
    BY <1>1, <1>7 DEF CreateTarget, WriteBlock, TypeInv, TypeOK
  <2>. QED
    BY <1>2, <1>4, <1>5, <1>6, <2>1, SavedFrame
<1>8. CASE Target(job[c]) = p
  <2>1. Holds(c, p) /\ files[Bak[p]] = Original(p)
    BY <1>1, <1>8, PathFacts DEF Shape, Target, Holds, Saved, Progress
  <2>2. \A d \in Callers : Holds(d, p)' => d = c
    BY <1>2, <2>1 DEF Holds, Saved
  <2>. QED
    BY <1>4, <1>6, <2>1, <2>2 DEF Saved, Original, Whole
<1>. QED
  BY <1>7, <1>8

\* The steps that begin or end a call, or change nothing.
LEMMA SavedOther ==
    ASSUME NEW c \in Callers, NEW p \in Guarded, TypeInv, Saved(p),
           \/ Call(c) \/ Reject(c) \/ BackupFails(c) \/ ReadMissing(c)
           \/ DecodeFails(c) \/ OptimizeNoWrite(c) \/ IoError(c) \/ Crash(c)
    PROVE  Saved(p)'
<1>1. CASE Call(c)
  <2>1. PICK j \in Jobs[c] : /\ job' = [job EXCEPT ![c] = j]
                             /\ Goto(c, IF j.backup THEN "backup" ELSE "read")
    BY <1>1 DEF Call
  <2>2. /\ job'[c] = j
        /\ pc'[c] = IF j.backup THEN "backup" ELSE "read"
    BY <2>1 DEF Goto, TypeInv, TypeOK
  <2>3. \A d \in Callers \ {c} : /\ pc'[d] = pc[d] /\ job'[d] = job[d]
                                 /\ at'[d] = at[d] /\ buf'[d] = buf[d]
    BY <1>1, <2>1 DEF Call, Goto, TypeInv, TypeOK
  <2>. QED
    BY <1>1, <2>2, <2>3, SavedIdle DEF Call
<1>2. CASE Reject(c)
  BY <1>2 DEF Reject, Saved, Holds, Progress, Original, Whole
<1>3. CASE \/ BackupFails(c) \/ ReadMissing(c) \/ DecodeFails(c)
           \/ OptimizeNoWrite(c) \/ IoError(c) \/ Crash(c)
  <2>1. files' = files /\ \E r \in Errors \cup {"none", "ok", "died"} : Return(c, r)
    BY <1>3 DEF BackupFails, ReadMissing, DecodeFails, OptimizeNoWrite, IoError,
                Crash, Fail, MapPngError, MapBackupError, Errors
  <2>2. /\ pc'[c] = "idle"
        /\ \A d \in Callers \ {c} : /\ pc'[d] = pc[d] /\ job'[d] = job[d]
                                    /\ at'[d] = at[d] /\ buf'[d] = buf[d]
    BY <2>1 DEF Return, Goto, TypeInv, TypeOK
  <2>. QED
    BY <2>1, <2>2, SavedIdle
<1>. QED
  BY <1>1, <1>2, <1>3

\* No call has begun.
LEMMA ShapeInit == Init => \A c \in Callers : Shape(c)
BY DEF Init, Shape

\* Every step leaves every call in order.
LEMMA ShapeNext ==
    ASSUME NEW c \in Callers, NEW d \in Callers, TypeInv, Shape(d),
           Call(c) \/ Reject(c) \/ Step(c) \/ IoError(c) \/ Crash(c)
    PROVE  Shape(d)'
<1>1. CASE Call(c)
  <2>1. PICK j \in Jobs[c] : /\ Rejects(j) = {}
                             /\ job' = [job EXCEPT ![c] = j]
                             /\ Goto(c, IF j.backup THEN "backup" ELSE "read")
    BY <1>1 DEF Call
  <2>2. j.backup => j.out = NoPath /\ ~j.dry
    BY <2>1 DEF Rejects
  <2>. QED
    BY <2>1, <2>2 DEF Goto, Shape, TypeInv, TypeOK
<1>2. CASE Reject(c)
  BY <1>2 DEF Reject, Shape
<1>3. CASE IoError(c) \/ Crash(c)
  BY <1>3 DEF IoError, Crash, Return, Goto, Shape, TypeInv, TypeOK
<1>4. CASE CreateBackup(c) \/ CopyBlock(c) \/ ReadBlock(c)
  BY <1>4 DEF CreateBackup, CopyBlock, ReadBlock, NextBlock, Goto, Shape, TypeInv, TypeOK
<1>5. CASE BackupFails(c) \/ ReadMissing(c) \/ DecodeFails(c) \/ OptimizeNoWrite(c)
  BY <1>5 DEF BackupFails, ReadMissing, DecodeFails, OptimizeNoWrite, Fail, Return,
              Goto, Shape, TypeInv, TypeOK
<1>6. CASE OptimizeToWrite(c)
  BY <1>6 DEF OptimizeToWrite, ReturnsUnwritten, Goto, Shape, TypeInv, TypeOK
<1>7. CASE CreateTarget(c) \/ WriteBlock(c)
  BY <1>7 DEF CreateTarget, WriteBlock, NextBlock, Return, Goto, Shape, TypeInv, TypeOK
<1>. QED
  BY <1>1, <1>2, <1>3, <1>4, <1>5, <1>6, <1>7 DEF Step

\* No backup has been created by a call, and every original is in place.
LEMMA SavedInit == Init => SavedInv
<1>. SUFFICES ASSUME Init
              PROVE  \A p \in Guarded : Saved(p)
  BY ShapeInit DEF SavedInv
<1>1. ASSUME NEW p \in Guarded
      PROVE  Saved(p)
  <2>1. p \in Present /\ p \in Paths
    BY PathFacts DEF Guarded
  <2>2. \A c \in Callers : ~Holds(c, p)
    BY DEF Init, Holds
  <2>. QED
    BY <2>1, <2>2 DEF Init, Saved
<1>. QED
  BY <1>1

\* So every step keeps the originals.
LEMMA SavedNext == TypeInv /\ SavedInv /\ [Next]_vars => SavedInv'
<1>. SUFFICES ASSUME TypeInv, SavedInv, [Next]_vars
              PROVE  SavedInv'
  OBVIOUS
<1>1. CASE UNCHANGED vars
  <2>1. \A c \in Callers : Shape(c)'
    BY <1>1 DEF vars, SavedInv, Shape
  <2>2. ASSUME NEW p \in Guarded
        PROVE  Saved(p)'
    <3>1. \A c \in Callers : Holds(c, p)' <=> Holds(c, p)
      BY <1>1 DEF vars, Holds
    <3>2. \A c \in Callers : Progress(c, p)' <=> Progress(c, p)
      BY <1>1 DEF vars, Progress, Original, Whole
    <3>. QED
      BY <1>1, <3>1, <3>2 DEF vars, SavedInv, Saved, Original, Whole
  <2>. QED
    BY <2>1, <2>2 DEF SavedInv, Guarded
<1>2. ASSUME NEW c \in Callers,
             Call(c) \/ Reject(c) \/ Step(c) \/ IoError(c) \/ Crash(c)
      PROVE  SavedInv'
  <2>1. \A d \in Callers : Shape(d)'
    BY <1>2, ShapeNext DEF SavedInv
  <2>2. ASSUME NEW p \in Guarded
        PROVE  Saved(p)'
    BY <1>2, SavedCreateBackup, SavedCopyBlock, SavedReadBlock, SavedOptimizeToWrite,
       SavedWrite, SavedOther DEF Step, SavedInv
  <2>. QED
    BY <2>1, <2>2 DEF SavedInv, Guarded
<1>. QED
  BY <1>1, <1>2 DEF Next

\* And every behaviour does.
LEMMA SavedInvariant == Spec => []SavedInv
BY SavedInit, SavedNext, TypeInvariant, PTL DEF Spec

\* Whatever fails, dies or runs at the same time, the original of a file that
\* only calls with backup=True write is in its place or whole in the backup.
THEOREM OriginalNeverLost == Spec => []OriginalRecoverable
<1>1. SavedInv => OriginalRecoverable
  BY DEF SavedInv, Saved, OriginalRecoverable
<1>. QED
  BY <1>1, SavedInvariant, PTL

\* The backup of a guarded file holds the very bytes that the call replaces.
THEOREM BackupIsWhatIsReplaced == Spec => []GuardedBackupMatches
<1>1. SavedInv => GuardedBackupMatches
  BY DEF SavedInv, Saved, Holds, Progress, GuardedBackupMatches, BackupOf
<1>. QED
  BY <1>1, SavedInvariant, PTL

-----------------------------------------------------------------------------
(* A backup belongs to the call that created it.                           *)

SoleCopier ==
    \A c, d \in Callers :
        pc[c] = "copy" /\ pc[d] = "copy" /\ job[c].in = job[d].in => c = d

\* Two calls never copy to one backup: the second finds it there.
LEMMA SoleCopierNext ==
    ASSUME NEW c \in Callers, TypeInv, SoleCopier,
           Call(c) \/ Reject(c) \/ Step(c) \/ IoError(c) \/ Crash(c)
    PROVE  SoleCopier'
<1>1. \A d \in Callers \ {c} : pc'[d] = pc[d] /\ job'[d] = job[d]
  BY DEF Call, Reject, Step, IoError, Crash, CreateBackup, BackupFails, CopyBlock,
         ReadBlock, ReadMissing, DecodeFails, OptimizeNoWrite, OptimizeToWrite,
         CreateTarget, WriteBlock, NextBlock, Fail, Return, Goto, TypeInv, TypeOK
<1>2. CASE pc'[c] # "copy"
  BY <1>1, <1>2 DEF SoleCopier
<1>3. CASE pc'[c] = "copy" /\ ~CreateBackup(c)
  <2>1. pc[c] = "copy" /\ job'[c] = job[c]
    BY <1>3
    DEF Call, Reject, Step, IoError, Crash, BackupFails, CopyBlock,
        ReadBlock, ReadMissing, DecodeFails, OptimizeNoWrite, OptimizeToWrite,
        CreateTarget, WriteBlock, NextBlock, Fail, Return, Goto, TypeInv, TypeOK
  <2>. QED
    BY <1>1, <2>1 DEF SoleCopier
<1>4. CASE CreateBackup(c)
  <2>1. files[Bak[job[c].in]] = Absent /\ job'[c] = job[c]
    BY <1>4 DEF CreateBackup, BackupFree, BackupOf
  <2>2. \A d \in Callers : pc[d] = "copy" => job[d].in # job[c].in
    BY <2>1 DEF TypeInv, Opened, BackupOf
  <2>. QED
    BY <1>1, <2>1, <2>2 DEF SoleCopier
<1>. QED
  BY <1>2, <1>3, <1>4

\* No call but its creator ever changes a backup, and no retry does.
THEOREM BackupNeverReplaced == Spec => BackupKept
<1>1. Init => SoleCopier
  BY DEF Init, SoleCopier
<1>2. TypeInv /\ SoleCopier /\ [Next]_vars => SoleCopier'
  <2>1. UNCHANGED vars /\ SoleCopier => SoleCopier'
    BY DEF vars, SoleCopier
  <2>. QED
    BY <2>1, SoleCopierNext DEF Next
<1>3. TypeInv /\ SoleCopier /\ [Next]_vars =>
        [\A p \in Paths :
           \/ files[Bak[p]] = Absent
           \/ files'[Bak[p]] = files[Bak[p]]
           \/ \E c \in Callers : /\ pc[c] = "copy" /\ job[c].in = p
                                 /\ \A d \in Callers \ {c} :
                                       ~(pc[d] = "copy" /\ job[d].in = p)]_vars
  <2>. SUFFICES ASSUME TypeInv, SoleCopier, NEW c \in Callers,
                       Call(c) \/ Reject(c) \/ Step(c) \/ IoError(c) \/ Crash(c),
                       NEW p \in Paths,
                       files[Bak[p]] # Absent,
                       ~(pc[c] = "copy" /\ job[c].in = p)
                PROVE  files'[Bak[p]] = files[Bak[p]]
    BY DEF Next, SoleCopier
  <2>1. \A q \in Paths : Bak[p] # q /\ (Bak[p] = Bak[q] => p = q)
    BY PathFacts
  <2>2. Bak[p] \in Paths \cup Backups
    BY JobFacts
  <2>3. pc[c] # "idle" => job[c].in \in Paths /\ Target(job[c]) \in Paths
    BY JobFacts DEF TypeInv, TypeOK
  <2>4. CASE CreateBackup(c)
    BY <2>1, <2>2, <2>3, <2>4
    DEF CreateBackup, BackupFree, BackupOf, TypeInv, TypeOK
  <2>5. CASE CopyBlock(c)
    BY <2>1, <2>2, <2>3, <2>5 DEF CopyBlock, BackupOf, TypeInv, TypeOK
  <2>6. CASE CreateTarget(c) \/ WriteBlock(c)
    BY <2>1, <2>2, <2>3, <2>6 DEF CreateTarget, WriteBlock, TypeInv, TypeOK
  <2>7. CASE Call(c) \/ Reject(c) \/ IoError(c) \/ Crash(c)
    BY <2>7 DEF Call, Reject, IoError, Crash
  <2>8. CASE BackupFails(c) \/ ReadBlock(c) \/ ReadMissing(c) \/ DecodeFails(c)
             \/ OptimizeNoWrite(c) \/ OptimizeToWrite(c)
    BY <2>8 DEF BackupFails, ReadBlock, ReadMissing, DecodeFails, OptimizeNoWrite,
                OptimizeToWrite, Fail
  <2>. QED
    BY <2>4, <2>5, <2>6, <2>7, <2>8 DEF Step
<1>. QED
  BY <1>1, <1>2, <1>3, TypeInvariant, PTL DEF Spec, BackupKept

-----------------------------------------------------------------------------
(* The calls implement BackupContract.                                     *)

\* A step of c changes at most one file of a guarded pair, and that in order:
\* the backup while the original is in place, the file when the backup is whole.
LEMMA PhaseStep ==
    ASSUME NEW c \in Callers, TypeInv, SavedInv, SavedInv',
           Call(c) \/ Reject(c) \/ Step(c) \/ IoError(c) \/ Crash(c)
    PROVE  \/ files' = files
           \/ \E q \in Paths :
                /\ \A p \in Guarded \ {q} : /\ files'[p] = files[p]
                                           /\ files'[Bak[p]] = files[Bak[p]]
                /\ q \in Guarded =>
                     \/ /\ files[q] = Original(q) /\ files'[q] = Original(q)
                        /\ files[Bak[q]] = Original(q) => files'[Bak[q]] = Original(q)
                     \/ files[Bak[q]] = Original(q) /\ files'[Bak[q]] = Original(q)
<1>1. pc[c] # "idle" => /\ job[c] \in Jobs[c] /\ job[c].in \in Paths
                        /\ Target(job[c]) \in Paths /\ at[c] \in Block
  BY JobFacts DEF TypeInv, TypeOK
<1>2. CASE CreateBackup(c) \/ CopyBlock(c)
  <2>. DEFINE q == job[c].in
  <2>1. q \in Paths
    BY <1>1, <1>2 DEF CreateBackup, CopyBlock
  <2>2. \A p \in Guarded \ {q} : files'[p] = files[p] /\ files'[Bak[p]] = files[Bak[p]]
    <3>1. \A p \in Guarded \ {q} : p # Bak[q] /\ Bak[p] # Bak[q]
      BY <2>1, PathFacts
    <3>2. \A p \in Guarded : p \in Paths \cup Backups /\ Bak[p] \in Paths \cup Backups
      BY PathFacts, JobFacts
    <3>. QED
      BY <1>2, <3>1, <3>2 DEF CreateBackup, CopyBlock, BackupOf, TypeInv, TypeOK
  <2>3. ASSUME q \in Guarded
        PROVE  /\ files[q] = Original(q) /\ files'[q] = Original(q)
               /\ files[Bak[q]] = Original(q) => files'[Bak[q]] = Original(q)
    <3>1. files[q] = Original(q)
      <4>1. CASE CreateBackup(c)
        BY <2>1, <2>3, <4>1, BytesFacts
        DEF SavedInv, Saved, CreateBackup, BackupFree, BackupOf
      <4>2. CASE CopyBlock(c)
        BY <2>3, <4>2 DEF SavedInv, Saved, Shape, Holds, Progress, CopyBlock
      <4>. QED
        BY <1>2, <4>1, <4>2
    <3>2. q # Bak[q] /\ Bak[q] \in Paths \cup Backups
      BY <2>1, PathFacts, JobFacts
    <3>3. files'[q] = Original(q)
      BY <1>2, <2>1, <3>1, <3>2
      DEF CreateBackup, CopyBlock, BackupOf, TypeInv, TypeOK
    <3>4. files[Bak[q]] = Original(q) => files'[Bak[q]] = Original(q)
      <4>1. CASE CreateBackup(c)
        BY <2>1, <4>1, BytesFacts DEF CreateBackup, BackupFree, BackupOf
      <4>2. CASE CopyBlock(c)
        <5>. SUFFICES ASSUME files[Bak[q]] = Original(q)
                      PROVE  files'[Bak[q]] = Original(q)
          OBVIOUS
        <5>1. files'[Bak[q]] = [Original(q) EXCEPT ![at[c]] = Original(q)[at[c]]]
          BY <3>1, <3>2, <4>2 DEF CopyBlock, Source, BackupOf, TypeInv, TypeOK
        <5>. QED
          BY <2>1, <5>1 DEF Original, Whole
      <4>. QED
        BY <1>2, <4>1, <4>2
    <3>. QED
      BY <3>1, <3>3, <3>4
  <2>. QED
    BY <2>1, <2>2, <2>3
<1>3. CASE CreateTarget(c) \/ WriteBlock(c)
  <2>. DEFINE q == Target(job[c])
  <2>1. /\ q \in Paths /\ pc[c] \in {"create", "write"} /\ job[c] \in Jobs[c]
    BY <1>1, <1>3 DEF CreateTarget, WriteBlock
  <2>2. \A p \in Guarded : /\ p \in Paths \cup Backups /\ Bak[p] # q
                          /\ Bak[p] \in Paths \cup Backups
    BY <2>1, PathFacts, JobFacts
  <2>3. \A p \in Guarded : files'[Bak[p]] = files[Bak[p]] /\ (p # q => files'[p] = files[p])
    BY <1>3, <2>2 DEF CreateTarget, WriteBlock, TypeInv, TypeOK
  <2>4. ASSUME q \in Guarded
        PROVE  files[Bak[q]] = Original(q)
    <3>1. job[c].backup /\ job[c].in = q
      BY <2>1, <2>4, PathFacts DEF SavedInv, Shape, Target
    <3>. QED
      BY <2>1, <2>4, <3>1 DEF SavedInv, Saved, Holds, Progress
  <2>. QED
    BY <2>1, <2>3, <2>4
<1>4. CASE \/ Call(c) \/ Reject(c) \/ IoError(c) \/ Crash(c) \/ BackupFails(c)
           \/ ReadBlock(c) \/ ReadMissing(c) \/ DecodeFails(c)
           \/ OptimizeNoWrite(c) \/ OptimizeToWrite(c)
  BY <1>4 DEF Call, Reject, IoError, Crash, BackupFails, ReadBlock, ReadMissing,
              DecodeFails, OptimizeNoWrite, OptimizeToWrite, Fail
<1>. QED
  BY <1>2, <1>3, <1>4 DEF Step

\* Seen through Phase, the calls only save, replace and restore.
THEOREM ImplementsBackupContract == Spec => KeepsContract
<1>. DEFINE phase == [p \in Guarded |-> Phase(p)]
<1>1. Init => Contract!Init
  <2>. SUFFICES ASSUME Init, NEW p \in Guarded
                PROVE  Phase(p) = "unsaved"
    BY DEF Contract!Init
  <2>1. p \in Present /\ p \in Paths /\ Bak[p] \in Backups
    BY PathFacts, JobFacts DEF Guarded
  <2>2. Empty # Original(p) /\ Absent # Original(p)
    <3>1. 1 \in Block /\ <<p, 0>> \in Version
      BY <2>1, BlockFacts, BytesFacts
    <3>2. Empty[1] = Hole /\ Original(p)[1] = <<p, 0>>
      BY <3>1 DEF Empty, Original, Whole
    <3>. QED
      BY <2>1, <3>1, <3>2, BytesFacts, OptimizeFileAssumption
  <2>. QED
    BY <2>1, <2>2 DEF Init, Phase
<1>2. TypeInv /\ SavedInv /\ SavedInv' /\ [Next]_vars => [Contract!Next]_phase
  <2>. SUFFICES ASSUME TypeInv, SavedInv, SavedInv', [Next]_vars, phase' # phase
                PROVE  \E q \in Guarded :
                          Contract!Save(q) \/ Contract!Replace(q) \/ Contract!Restore(q)
    BY DEF Contract!Next
  <2>1. files' # files
    BY DEF Phase, Original, Whole
  <2>2. PICK q \in Paths :
           /\ \A p \in Guarded \ {q} : /\ files'[p] = files[p]
                                      /\ files'[Bak[p]] = files[Bak[p]]
           /\ q \in Guarded =>
                \/ /\ files[q] = Original(q) /\ files'[q] = Original(q)
                   /\ files[Bak[q]] = Original(q) => files'[Bak[q]] = Original(q)
                \/ files[Bak[q]] = Original(q) /\ files'[Bak[q]] = Original(q)
    BY <2>1, PhaseStep DEF Next, vars
  <2>3. \A p \in Guarded \ {q} : phase'[p] = phase[p]
    BY <2>2 DEF Phase, Original, Whole
  <2>4. q \in Guarded
    BY <2>3
  <2>5. /\ phase[q] = Phase(q) /\ phase'[q] = Phase(q)'
        /\ phase'[q] # phase[q]
        /\ phase' = [phase EXCEPT ![q] = phase'[q]]
    BY <2>3, <2>4
  <2>6. \/ phase[q] = "unsaved" /\ phase'[q] = "saved"
        \/ phase[q] = "saved" /\ phase'[q] = "replaced"
        \/ phase[q] = "replaced" /\ phase'[q] = "saved"
    BY <2>2, <2>4, <2>5 DEF Phase, Original, Whole
  <2>. QED
    BY <2>4, <2>5, <2>6 DEF Contract!Save, Contract!Replace, Contract!Restore
<1>. QED
  BY <1>1, <1>2, TypeInvariant, SavedInvariant, PTL
  DEF Spec, KeepsContract, Contract!Spec


-----------------------------------------------------------------------------
(* What a call that failed has done to its target.                         *)

\* A call has no outcome while it runs, and it truncates its target as the last
\* thing that can fail with anything but an OSError.
Outcome(c) ==
    /\ pc[c] # "idle" => result[c] = "none" /\ (wrote[c] => pc[c] = "write")
    /\ wrote[c] => result[c] \in {"none", "ok", "OSError", "died"}

\* Every step keeps that of every call.
LEMMA OutcomeNext ==
    ASSUME NEW c \in Callers, NEW d \in Callers, TypeInv, Outcome(d),
           Call(c) \/ Reject(c) \/ Step(c) \/ IoError(c) \/ Crash(c)
    PROVE  Outcome(d)'
<1>. USE DEF TypeInv, TypeOK
<1>1. CASE Call(c) \/ Reject(c)
  BY <1>1 DEF Call, Reject, Goto, Outcome
<1>2. CASE CreateBackup(c) \/ CopyBlock(c) \/ ReadBlock(c)
  BY <1>2 DEF CreateBackup, CopyBlock, ReadBlock, NextBlock, Goto, Outcome
<1>3. CASE OptimizeToWrite(c) \/ CreateTarget(c)
  BY <1>3 DEF OptimizeToWrite, CreateTarget, Goto, Outcome
<1>4. CASE WriteBlock(c)
  BY <1>4 DEF WriteBlock, NextBlock, Return, Goto, Outcome
<1>5. CASE BackupFails(c) \/ ReadMissing(c) \/ DecodeFails(c) \/ OptimizeNoWrite(c)
  BY <1>5 DEF BackupFails, ReadMissing, DecodeFails, OptimizeNoWrite, Fail, Return, Goto, Outcome
<1>6. CASE IoError(c) \/ Crash(c)
  BY <1>6 DEF IoError, Crash, MapBackupError, MapPngError, Return, Goto, Outcome
<1>. QED
  BY <1>1, <1>2, <1>3, <1>4, <1>5, <1>6 DEF Step

\* Every error but OSError leaves the target of its call as it was.
THEOREM OtherErrorsLeaveTheTarget == Spec => []OnlyOsErrorAfterWrite
<1>. DEFINE Outcomes == \A c \in Callers : Outcome(c)
<1>1. Init => Outcomes
  BY DEF Init, Outcome
<1>2. TypeInv /\ Outcomes /\ [Next]_vars => Outcomes'
  <2>. SUFFICES ASSUME TypeInv, Outcomes, [Next]_vars, NEW d \in Callers
                PROVE  Outcome(d)'
    OBVIOUS
  <2>1. CASE UNCHANGED vars
    BY <2>1 DEF vars, Outcome
  <2>. QED
    BY <2>1, OutcomeNext DEF Next
<1>3. Outcomes => OnlyOsErrorAfterWrite
  BY DEF Outcome, OnlyOsErrorAfterWrite
<1>. QED
  BY <1>1, <1>2, <1>3, TypeInvariant, PTL DEF Spec

-----------------------------------------------------------------------------
(* A file that one caller writes is one whole image when nobody writes it. *)

\* c is writing p, and has written the blocks before the next one.
WritesNow(c, p) == pc[c] = "write" /\ Target(job[c]) = p

Written(p) ==
    /\ \A c \in Callers : WritesNow(c, p) => \A b \in Block : b < at[c] => files[p][b] = out[c]
    /\ \/ p \in torn
       \/ \E c \in Callers : WritesNow(c, p)
       \/ files[p] \in {Absent} \cup {Whole(v) : v \in Version}

WrittenInv == \A p \in SoleWriter : Written(p)

\* Only one caller is ever about to write such a file, or writing it.
LEMMA OneWriter ==
    ASSUME TypeInv, \A c \in Callers : Shape(c), NEW p \in SoleWriter,
           NEW c \in Callers, pc[c] \in {"create", "write"}, Target(job[c]) = p,
           NEW d \in Callers, pc[d] \in {"create", "write"}, Target(job[d]) = p
    PROVE  c = d
<1>1. /\ job[c] \in Jobs[c] /\ Writes(job[c], p)
      /\ job[d] \in Jobs[d] /\ Writes(job[d], p)
  BY DEF TypeInv, TypeOK, Shape, Writes
<1>. QED
  BY <1>1 DEF SoleWriter

\* A step that neither begins nor goes on with a write of p.
LEMMA WrittenFrame ==
    ASSUME NEW c \in Callers, NEW p \in SoleWriter, Written(p),
           \A d \in Callers \ {c} : /\ pc'[d] = pc[d] /\ job'[d] = job[d]
                                    /\ at'[d] = at[d] /\ out'[d] = out[d],
           files'[p] = files[p], torn \subseteq torn',
           ~WritesNow(c, p)', WritesNow(c, p) => p \in torn'
    PROVE  Written(p)'
<1>1. \A d \in Callers \ {c} : WritesNow(d, p)' <=> WritesNow(d, p)
  BY DEF WritesNow
<1>. QED
  BY <1>1 DEF Written

\* A caller that writes a file block by block leaves it whole.
LEMMA WrittenBlock ==
    ASSUME NEW c \in Callers, NEW p \in SoleWriter, TypeInv, Written(p),
           \A d \in Callers : Shape(d), WriteBlock(c), Target(job[c]) = p
    PROVE  Written(p)'
<1>1. /\ p \in Paths /\ at[c] \in Block /\ pc[c] = "write" /\ out[c] \in Version
      /\ files[p] \in Bytes
  BY DEF SoleWriter, WriteBlock, TypeInv, TypeOK, Opened
<1>2. files'[p] = [files[p] EXCEPT ![at[c]] = out[c]]
  BY <1>1 DEF WriteBlock, TypeInv, TypeOK
<1>3. \A b \in Block : b < at[c] \/ b = at[c] => files'[p][b] = out[c]
  BY <1>1, <1>2 DEF Written, WritesNow, Bytes
<1>4. /\ torn' = torn
      /\ \A d \in Callers \ {c} : ~WritesNow(d, p) /\ pc'[d] = pc[d] /\ job'[d] = job[d]
  <2>1. \A d \in Callers \ {c} : ~WritesNow(d, p)
    BY <1>1, OneWriter DEF WritesNow
  <2>. QED
    BY <2>1 DEF WriteBlock, NextBlock, Return, Goto, TypeInv, TypeOK
<1>5. CASE at[c] = NBlocks
  <2>1. \A b \in Block : b < at[c] \/ b = at[c]
    BY <1>5, <1>1, BlockFacts DEF Block
  <2>2. files'[p] = Whole(out[c])
    BY <1>1, <1>2, <1>3, <2>1 DEF Bytes, Whole
  <2>3. \A d \in Callers : ~WritesNow(d, p)'
    BY <1>4, <1>5 DEF WriteBlock, Return, Goto, WritesNow, TypeInv, TypeOK
  <2>. QED
    BY <1>1, <2>2, <2>3 DEF Written
<1>6. CASE at[c] # NBlocks
  <2>1. /\ at[c] < NBlocks /\ pc'[c] = "write" /\ at'[c] = at[c] + 1
        /\ job'[c] = job[c] /\ out'[c] = out[c]
    BY <1>1, <1>6, BlockFacts DEF WriteBlock, NextBlock, TypeInv, TypeOK
  <2>2. WritesNow(c, p)' /\ \A d \in Callers \ {c} : ~WritesNow(d, p)'
    BY <1>4, <2>1 DEF WritesNow
  <2>3. \A b \in Block : b < at'[c] => files'[p][b] = out'[c]
    BY <1>1, <1>3, <2>1 DEF Block
  <2>. QED
    BY <2>2, <2>3 DEF Written
<1>. QED
  BY <1>5, <1>6

\* Every step keeps a file of one writer whole, torn or being written.
LEMMA WrittenNext ==
    ASSUME NEW c \in Callers, NEW p \in SoleWriter, TypeInv, Written(p),
           \A d \in Callers : Shape(d),
           Call(c) \/ Reject(c) \/ Step(c) \/ IoError(c) \/ Crash(c)
    PROVE  Written(p)'
<1>1. p \in Paths /\ \A q \in Paths : Bak[q] # p
  BY PathFacts DEF SoleWriter
<1>2. pc[c] # "idle" => /\ job[c] \in Job /\ job[c].in \in Paths /\ Target(job[c]) \in Paths
  BY JobFacts DEF TypeInv, TypeOK
<1>3. torn \subseteq torn'
      /\ \A d \in Callers \ {c} : /\ pc'[d] = pc[d] /\ job'[d] = job[d]
                                  /\ at'[d] = at[d] /\ out'[d] = out[d]
  BY DEF Call, Reject, Step, CreateBackup, BackupFails, CopyBlock, ReadBlock, ReadMissing,
         DecodeFails, OptimizeNoWrite, OptimizeToWrite, CreateTarget, WriteBlock,
         IoError, Crash, Fail, Return, NextBlock, Goto, TypeInv, TypeOK
<1>4. CASE CreateTarget(c) /\ Target(job[c]) = p
  <2>1. pc[c] = "create" /\ pc'[c] = "write" /\ at'[c] = 1 /\ job'[c] = job[c]
    BY <1>4 DEF CreateTarget, Goto, TypeInv, TypeOK
  <2>2. WritesNow(c, p)' /\ \A d \in Callers \ {c} : ~WritesNow(d, p)'
    BY <1>3, <1>4, <2>1, OneWriter DEF WritesNow
  <2>3. \A b \in Block : ~(b < at'[c])
    BY <2>1 DEF Block
  <2>. QED
    BY <2>2, <2>3 DEF Written
<1>5. CASE WriteBlock(c) /\ Target(job[c]) = p
  BY <1>5, WrittenBlock
<1>6. CASE (CreateTarget(c) \/ WriteBlock(c)) /\ Target(job[c]) # p
  <2>1. files'[p] = files[p]
    BY <1>1, <1>6 DEF CreateTarget, WriteBlock, TypeInv, TypeOK
  <2>2. pc'[c] = "write" => job'[c] = job[c]
    BY <1>6 DEF CreateTarget, WriteBlock, NextBlock, Return, Goto, TypeInv, TypeOK
  <2>3. ~WritesNow(c, p)' /\ ~WritesNow(c, p)
    BY <1>6, <2>2 DEF WritesNow
  <2>. QED
    BY <1>3, <2>1, <2>3, WrittenFrame
<1>7. CASE CreateBackup(c) \/ CopyBlock(c)
  <2>1. files'[p] = files[p]
    BY <1>1, <1>2, <1>7 DEF CreateBackup, CopyBlock, BackupOf, TypeInv, TypeOK
  <2>2. ~WritesNow(c, p)' /\ ~WritesNow(c, p)
    BY <1>7 DEF CreateBackup, CopyBlock, NextBlock, Goto, WritesNow, TypeInv, TypeOK
  <2>. QED
    BY <1>3, <2>1, <2>2, WrittenFrame
<1>8. CASE \/ Call(c) \/ Reject(c) \/ BackupFails(c) \/ ReadBlock(c) \/ ReadMissing(c)
           \/ DecodeFails(c) \/ OptimizeNoWrite(c) \/ OptimizeToWrite(c)
  <2>1. files' = files /\ ~WritesNow(c, p)' /\ ~WritesNow(c, p)
    BY <1>8 DEF Call, Reject, BackupFails, ReadBlock, ReadMissing, DecodeFails, OptimizeNoWrite,
                OptimizeToWrite, Fail, Return, NextBlock, Goto, WritesNow, TypeInv, TypeOK
  <2>. QED
    BY <1>3, <2>1, WrittenFrame
<1>9. CASE IoError(c) \/ Crash(c)
  <2>1. files' = files /\ torn' = torn \cup Broken(c) /\ pc'[c] = "idle"
    BY <1>9 DEF IoError, Crash, Return, Goto, TypeInv, TypeOK
  <2>2. ~WritesNow(c, p)' /\ (WritesNow(c, p) => p \in torn')
    BY <2>1 DEF WritesNow, Broken
  <2>. QED
    BY <1>3, <2>1, <2>2, WrittenFrame
<1>. QED
  BY <1>4, <1>5, <1>6, <1>7, <1>8, <1>9 DEF Step

\* And so in every behaviour.
LEMMA WrittenInvariant == Spec => []WrittenInv
<1>1. Init => WrittenInv
  <2>. SUFFICES ASSUME Init, NEW p \in SoleWriter PROVE Written(p)
    BY DEF WrittenInv
  <2>1. p \in Paths /\ <<p, 0>> \in Version
    BY BytesFacts DEF SoleWriter
  <2>2. files[p] \in {Absent} \cup {Whole(v) : v \in Version}
    BY <2>1 DEF Init, Original
  <2>. QED
    BY <2>2 DEF Init, Written, WritesNow
<1>2. TypeInv /\ SavedInv /\ WrittenInv /\ [Next]_vars => WrittenInv'
  <2>. SUFFICES ASSUME TypeInv, SavedInv, WrittenInv, [Next]_vars, NEW p \in SoleWriter
                PROVE  Written(p)'
    BY DEF WrittenInv, SoleWriter
  <2>1. CASE UNCHANGED vars
    BY <2>1 DEF vars, WrittenInv, Written, WritesNow
  <2>2. ASSUME NEW c \in Callers, Call(c) \/ Reject(c) \/ Step(c) \/ IoError(c) \/ Crash(c)
        PROVE  Written(p)'
    BY <2>2, WrittenNext DEF SavedInv, WrittenInv
  <2>. QED
    BY <2>1, <2>2 DEF Next
<1>. QED
  BY <1>1, <1>2, TypeInvariant, SavedInvariant, PTL DEF Spec

\* A file with one writer holds one whole image whenever no call is writing it,
\* unless a write of it was broken off.
THEOREM QuietFilesAreWhole == Spec => []QuietTargetWhole
<1>1. WrittenInv => QuietTargetWhole
  BY DEF WrittenInv, Written, WritesNow, QuietTargetWhole
<1>. QED
  BY <1>1, WrittenInvariant, PTL
=============================================================================
