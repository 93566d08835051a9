---------------------------- MODULE OptimizeFile ----------------------------
(***************************************************************************)
(* The file API of the extension: optimize() and analyze() of src/lib.rs,  *)
(* called by threads of one or several processes on a shared file system.  *)
(*                                                                         *)
(* Both functions parse their options while they hold the GIL and then     *)
(* release it for the backup copy and for the call of oxipng, so the file  *)
(* operations of two calls interleave freely.  A file is a row of blocks   *)
(* that are read, copied and written one at a time; a call may fail at     *)
(* every file operation and its process may die between any two of them.   *)
(* oxipng itself (read, decode, recompress, truncate, write) is not under  *)
(* src/: its steps are marked external in the map of this project.         *)
(***************************************************************************)
EXTENDS Naturals

CONSTANTS
    Callers,   \* the threads that call the API, whatever their process
    Paths,     \* the paths of PNG files that calls name
    Backups,   \* the paths that end in .bak; no call names one of them
    Bak,       \* Bak[p] is the path p with ".bak" appended
    Present,   \* the paths that hold a file when the calls begin
    Jobs,      \* Jobs[c] is the set of calls that caller c may make
    MaxGen,    \* how often an image can be made smaller
    NBlocks,   \* how many blocks a file has
    NoPath,    \* the output argument when it is omitted
    Absent,    \* the content of a path that holds no file
    Hole,      \* a block that is past the end, or was skipped by a seek
    NoJob      \* the job of a caller that makes no call

Block == 1..NBlocks
Version == Paths \X (0..MaxGen)   \* an image and how often it was made smaller

\* The arguments of a call that matter here.  dry is analyze().
Job == [in : Paths, out : Paths \cup {NoPath},
        backup : BOOLEAN, force : BOOLEAN, dry : BOOLEAN]

ASSUME OptimizeFileAssumption ==
    /\ Paths \cap Backups = {}
    /\ Bak \in [Paths -> Backups]
    /\ \A p, q \in Paths : Bak[p] = Bak[q] => p = q
    /\ Present \subseteq Paths
    /\ Jobs \in [Callers -> SUBSET Job]
    /\ MaxGen \in Nat
    /\ NBlocks \in Nat \ {0}
    /\ NoPath \notin Paths
    /\ Hole \notin Version
    /\ Absent \notin [Block -> Version \cup {Hole}]
    /\ NoJob \notin Job

VARIABLES
    files,     \* the content of every path
    pc,        \* the next step of every caller
    job,       \* the call that a caller is making
    at,        \* the next block that a caller copies, reads or writes
    buf,       \* the bytes that oxipng has read
    out,       \* the version that oxipng is going to write
    wrote,     \* has the latest call of a caller truncated its target?
    result,    \* the outcome of the latest call of a caller
    torn       \* the paths where a write was broken off

vars == <<files, pc, job, at, buf, out, wrote, result, torn>>

Bytes == [Block -> Version \cup {Hole}]
Empty == [b \in Block |-> Hole]
Whole(v) == [b \in Block |-> v]
Original(p) == Whole(<<p, 0>>)

Errors == {"TypeError", "ValueError", "FileExistsError", "FileNotFoundError",
           "OSError", "PngError"}

TypeOK ==
    /\ files \in [Paths \cup Backups -> Bytes \cup {Absent}]
    /\ pc \in [Callers -> {"idle", "backup", "copy", "read", "decode",
                           "create", "write"}]
    /\ job \in [Callers -> Job \cup {NoJob}]
    /\ at \in [Callers -> Block]
    /\ buf \in [Callers -> Bytes]
    /\ out \in [Callers -> Version \cup {Hole}]
    /\ wrote \in [Callers -> BOOLEAN]
    /\ result \in [Callers -> Errors \cup {"none", "ok", "died"}]
    /\ torn \in SUBSET Paths
    /\ \A c \in Callers : pc[c] # "idle" => job[c] \in Jobs[c]
    /\ \A c \in Callers : pc[c] \in {"create", "write"} => out[c] # Hole

\* A path may still have the backup that an earlier call left there; an empty
\* file stands for it, whatever its content is.
Init ==
    /\ files \in [Paths \cup Backups -> Bytes \cup {Absent}]
    /\ \A p \in Paths : files[p] = IF p \in Present THEN Original(p) ELSE Absent
    /\ \A k \in Backups : files[k] \in {Absent, Empty}
    /\ pc = [c \in Callers |-> "idle"]
    /\ job = [c \in Callers |-> NoJob]
    /\ at = [c \in Callers |-> 1]
    /\ buf = [c \in Callers |-> Empty]
    /\ out = [c \in Callers |-> Hole]
    /\ wrote = [c \in Callers |-> FALSE]
    /\ result = [c \in Callers |-> "none"]
    /\ torn = {}

-----------------------------------------------------------------------------
(* Helpers.                                                                *)

Target(j) == IF j.out = NoPath THEN j.in ELSE j.out
Source(c) == files[job[c].in]
BackupOf(c) == Bak[job[c].in]

\* Variant: create() in place of create_new().
BackupFree_Truncate(c) == TRUE

\* The path that ends in .bak belongs to the call that created it.
BackupFree(c) == files[BackupOf(c)] = Absent

\* Variant: a failed write is a PngError like any other error of oxipng.
MapPngError_NoWriteKind(kind) ==
    IF kind = "NotFound" THEN "FileNotFoundError" ELSE "PngError"

\* The kinds of Python exception that oxipng's errors become: reads and
\* writes that fail keep their I/O kind, everything else is a PngError.
MapPngError(kind) ==
    CASE kind = "NotFound" -> "FileNotFoundError"
      [] kind = "Io"       -> "OSError"
      [] OTHER             -> "PngError"

\* create_backup's errors: only an existing backup has a class of its own.
MapBackupError(kind) ==
    IF kind = "AlreadyExists" THEN "FileExistsError" ELSE "OSError"

\* Caller c moves on to step s, at the first block.
Goto(c, s) ==
    /\ pc' = [pc EXCEPT ![c] = s]
    /\ at' = [at EXCEPT ![c] = 1]

\* Caller c handles its next block, and goes to step s after the last one.
NextBlock(c, s) ==
    IF at[c] < NBlocks
    THEN at' = [at EXCEPT ![c] = @ + 1] /\ UNCHANGED pc
    ELSE Goto(c, s)

\* The call of c is over, with outcome r.
Return(c, r) ==
    /\ Goto(c, "idle")
    /\ job' = [job EXCEPT ![c] = NoJob]
    /\ buf' = [buf EXCEPT ![c] = Empty]
    /\ out' = [out EXCEPT ![c] = Hole]
    /\ result' = [result EXCEPT ![c] = r]

Fail(c, e) ==
    /\ Return(c, e)
    /\ UNCHANGED <<files, wrote, torn>>

-----------------------------------------------------------------------------
(* Entering a call: option parsing, under the GIL.                         *)

\* parse_options rejects an argument, or backup=True comes with an output or
\* goes to analyze(), whose parser does not know it.
Rejects(j) ==
    IF j.backup /\ j.dry THEN {"TypeError"}
    ELSE IF j.backup /\ j.out # NoPath THEN {"ValueError", "TypeError"}
    ELSE {}

Reject(c) ==
    /\ pc[c] = "idle"
    /\ \E j \in Jobs[c], e \in {"TypeError", "ValueError"} :
          /\ e \in Rejects(j) \/ Rejects(j) = {}
          /\ result' = [result EXCEPT ![c] = e]
    /\ wrote' = [wrote EXCEPT ![c] = FALSE]
    /\ UNCHANGED <<files, pc, job, at, buf, out, torn>>

\* Variant: the backup flag is parsed and forgotten.
Call_NoBackup(c) ==
    /\ pc[c] = "idle"
    /\ \E j \in Jobs[c] :
          /\ Rejects(j) = {}
          /\ job' = [job EXCEPT ![c] = j]
          /\ Goto(c, "read")
    /\ wrote' = [wrote EXCEPT ![c] = FALSE]
    /\ result' = [result EXCEPT ![c] = "none"]
    /\ UNCHANGED <<files, buf, out, torn>>

Call(c) ==
    /\ pc[c] = "idle"
    /\ \E j \in Jobs[c] :
          /\ Rejects(j) = {}
          /\ job' = [job EXCEPT ![c] = j]
          /\ Goto(c, IF j.backup THEN "backup" ELSE "read")
    /\ wrote' = [wrote EXCEPT ![c] = FALSE]
    /\ result' = [result EXCEPT ![c] = "none"]
    /\ UNCHANGED <<files, buf, out, torn>>

-----------------------------------------------------------------------------
(* create_backup.                                                          *)

\* File::open of the input, then create_new of the backup.
CreateBackup(c) ==
    /\ pc[c] = "backup"
    /\ Source(c) # Absent
    /\ BackupFree(c)
    /\ files' = [files EXCEPT ![BackupOf(c)] = Empty]
    /\ Goto(c, "copy")
    /\ UNCHANGED <<job, buf, out, wrote, result, torn>>

BackupFails(c) ==
    /\ pc[c] = "backup"
    /\ \/ Source(c) = Absent /\ Fail(c, MapBackupError("NotFound"))
       \/ /\ Source(c) # Absent
          /\ ~BackupFree(c)
          /\ Fail(c, MapBackupError("AlreadyExists"))

\* Variant: one read and write, without the loop of io::copy.
CopyBlock_Once(c) ==
    /\ pc[c] = "copy"
    /\ files' = [files EXCEPT ![BackupOf(c)][at[c]] = Source(c)[at[c]]]
    /\ Goto(c, "read")
    /\ UNCHANGED <<job, buf, out, wrote, result, torn>>

\* One block of io::copy.  Only this call writes the backup, so that reading
\* the block and writing it are one step.
CopyBlock(c) ==
    /\ pc[c] = "copy"
    /\ files' = [files EXCEPT ![BackupOf(c)][at[c]] = Source(c)[at[c]]]
    /\ NextBlock(c, "read")
    /\ UNCHANGED <<job, buf, out, wrote, result, torn>>

-----------------------------------------------------------------------------
(* oxipng::optimize: read, decode and recompress, write.                   *)

ReadBlock(c) ==
    /\ pc[c] = "read"
    /\ Source(c) # Absent
    /\ buf' = [buf EXCEPT ![c][at[c]] = Source(c)[at[c]]]
    /\ NextBlock(c, "decode")
    /\ UNCHANGED <<files, job, out, wrote, result, torn>>

\* Variant: a missing input is waited for.
ReadMissing_Wait(c) == FALSE /\ UNCHANGED vars

ReadMissing(c) ==
    /\ pc[c] = "read"
    /\ Source(c) = Absent
    /\ Fail(c, MapPngError("NotFound"))

\* Bytes that are not one whole image do not decode; an image may be refused
\* for a limit (max_decompressed_size) or for damage of its own.
DecodeFails(c) ==
    /\ pc[c] = "decode"
    /\ Fail(c, MapPngError("Png"))

\* What recompressing version v may give.  A result that is not smaller is
\* used only with force=True.
Recompressed(v) == {w \in Version : w[1] = v[1] /\ w[2] >= v[2]}

NotSmaller(v, w, j) == w = v /\ ~j.force

\* Nothing is written by a dry run, and nothing in place without a gain.
ReturnsUnwritten(v, w, j) == j.dry \/ (NotSmaller(v, w, j) /\ Target(j) = j.in)

OptimizeNoWrite(c) ==
    /\ pc[c] = "decode"
    /\ \E v \in Version : /\ buf[c] = Whole(v)
                          /\ \E w \in Recompressed(v) :
                                ReturnsUnwritten(v, w, job[c])
    /\ Return(c, "ok")
    /\ UNCHANGED <<files, wrote, torn>>

OptimizeToWrite(c) ==
    /\ pc[c] = "decode"
    /\ \E v \in Version :
          /\ buf[c] = Whole(v)
          /\ \E w \in Recompressed(v) :
                /\ ~ReturnsUnwritten(v, w, job[c])
                /\ out' = [out EXCEPT ![c] = w]
    /\ Goto(c, "create")
    /\ UNCHANGED <<files, job, buf, wrote, result, torn>>

\* File::create truncates a file that exists.
CreateTarget(c) ==
    /\ pc[c] = "create"
    /\ files' = [files EXCEPT ![Target(job[c])] = Empty]
    /\ wrote' = [wrote EXCEPT ![c] = TRUE]
    /\ Goto(c, "write")
    /\ UNCHANGED <<job, buf, out, result, torn>>

\* Variant: write() in place of write_all().
WriteBlock_Once(c) ==
    /\ pc[c] = "write"
    /\ files' = [files EXCEPT ![Target(job[c])][at[c]] = out[c]]
    /\ Return(c, "ok")
    /\ UNCHANGED <<wrote, torn>>

WriteBlock(c) ==
    /\ pc[c] = "write"
    /\ files' = [files EXCEPT ![Target(job[c])][at[c]] = out[c]]
    /\ IF at[c] = NBlocks THEN Return(c, "ok")
                          ELSE /\ NextBlock(c, "write")
                               /\ UNCHANGED <<job, buf, out, result>>
    /\ UNCHANGED <<wrote, torn>>

-----------------------------------------------------------------------------
(* Failures.                                                               *)

\* The target of a call that stops in the middle of its write stays cut.
Broken(c) == IF pc[c] = "write" THEN {Target(job[c])} ELSE {}

\* A file operation fails: permissions, a full disk, a missing parent of the
\* output.  Nothing that was written is taken back.
IoError(c) ==
    /\ \/ /\ pc[c] \in {"backup", "copy"}
          /\ Return(c, MapBackupError("Io"))
       \/ /\ pc[c] \in {"read", "create", "write"}
          /\ Return(c, MapPngError("Io"))
       \/ /\ pc[c] = "create" /\ Target(job[c]) # job[c].in
          /\ Return(c, MapPngError("NotFound"))
    /\ torn' = torn \cup Broken(c)
    /\ UNCHANGED <<files, wrote>>

\* The process of c dies.
Crash(c) ==
    /\ pc[c] # "idle"
    /\ Return(c, "died")
    /\ torn' = torn \cup Broken(c)
    /\ UNCHANGED <<files, wrote>>

-----------------------------------------------------------------------------
(* The specification.                                                      *)

Step(c) ==
    \/ CreateBackup(c) \/ BackupFails(c) \/ CopyBlock(c)
    \/ ReadBlock(c) \/ ReadMissing(c)
    \/ DecodeFails(c) \/ OptimizeNoWrite(c) \/ OptimizeToWrite(c)
    \/ CreateTarget(c) \/ WriteBlock(c)

Next == \E c \in Callers :
           Call(c) \/ Reject(c) \/ Step(c) \/ IoError(c) \/ Crash(c)

Spec == Init /\ [][Next]_vars

\* A call that has been made runs on: its thread is scheduled again and again.
Fairness == \A c \in Callers : WF_vars(Step(c))

FairSpec == Spec /\ Fairness

-----------------------------------------------------------------------------
(* Properties.                                                             *)

Writes(j, p) == ~j.dry /\ Target(j) = p

\* The files that only calls with backup=True write.
Guarded == {p \in Present :
               \A c \in Callers : \A j \in Jobs[c] : Writes(j, p) => j.backup}

\* The files that at most one caller writes, and never two calls at once.
SoleWriter == {p \in Paths :
                 \A c, d \in Callers : \A i \in Jobs[c], j \in Jobs[d] :
                    Writes(i, p) /\ Writes(j, p) => c = d}

\* The original of a guarded file is never lost: it is in its place or whole
\* in the backup (optimize, create_backup: "backup=True when an in-place write
\* should keep the original file"), whatever fails, dies or runs at the same
\* time.
OriginalRecoverable ==
    \A p \in Guarded : Original(p) \in {files[p], files[Bak[p]]}

\* A call with backup=True that is about to write a guarded file has backed up
\* the very bytes that it has read: the copy and oxipng's own read of the input
\* are two passes over a file that other calls may name too.
GuardedBackupMatches ==
    \A c \in Callers :
        pc[c] \in {"create", "write"} /\ job[c].backup /\ job[c].in \in Guarded
            => files[BackupOf(c)] = buf[c]

\* What the documentation says of every call, also next to calls without
\* backup: the write happens when a whole file has been kept
\* (docs/usage/file-optimization.md: "Use backup=True when an in-place write
\* should keep the original file").
EveryBackupWhole ==
    \A c \in Callers :
        pc[c] \in {"create", "write"} /\ job[c].backup
            => \E v \in Version : files[BackupOf(c)] = Whole(v)

\* Every error but OSError leaves the target of the call as it was: the call
\* has not truncated it (map_png_error, and the order of the steps).
OnlyOsErrorAfterWrite ==
    \A c \in Callers : wrote[c] => result[c] \in {"none", "ok", "OSError", "died"}

\* A file with one writer holds one whole image whenever no call is writing
\* it, unless a write of it was broken off.
QuietTargetWhole ==
    \A p \in SoleWriter :
        \/ p \in torn
        \/ \E c \in Callers : pc[c] = "write" /\ Target(job[c]) = p
        \/ files[p] \in {Absent} \cup {Whole(v) : v \in Version}

\* A backup belongs to the call that created it: no other call ever changes
\* it, so neither does a retry (create_new in create_backup).
BackupKept ==
    [][\A p \in Paths :
          \/ files[Bak[p]] = Absent
          \/ files'[Bak[p]] = files[Bak[p]]
          \/ \E c \in Callers : /\ pc[c] = "copy" /\ job[c].in = p
                                /\ \A d \in Callers \ {c} :
                                      ~(pc[d] = "copy" /\ job[d].in = p)]_vars

\* The abstract view of a guarded file.
Phase(p) ==
    IF files[p] = Original(p)
    THEN IF files[Bak[p]] = Original(p) THEN "saved" ELSE "unsaved"
    ELSE IF files[Bak[p]] = Original(p) THEN "replaced" ELSE "lost"

Contract == INSTANCE BackupContract
                WITH Files <- Guarded, phase <- [p \in Guarded |-> Phase(p)]

\* The calls implement the promise of BackupContract: a guarded file is never
\* replaced before its backup is complete, and is never lost.
KeepsContract == Contract!Spec

\* Every call comes to an end, by returning, raising or dying.
CallsReturn == \A c \in Callers : pc[c] # "idle" ~> pc[c] = "idle"
=============================================================================
