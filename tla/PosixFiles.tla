----------------------------- MODULE PosixFiles -----------------------------
(***************************************************************************)
(* The file system that the POSIX runtime gives a program under test:      *)
(* descriptors, symbolic files, injected failures.  It is compiled into    *)
(* the program and runs on each path; every step is one call.              *)
(*                                                                         *)
(* The contents of a symbolic file are the positions that the program has  *)
(* overwritten; its stat is symbolic, so that its type and its permissions *)
(* are choices.  The offset of a concrete file is left to the operating    *)
(* system, to which it is passed.                                          *)
(* A call that changes nothing here (access, stat, fsync, a call that      *)
(* returns EBADF) is a stuttering step.                                    *)
(***************************************************************************)
EXTENDS Integers, FiniteSets, FiniteSetsExt

CONSTANTS MaxFds,       \* MAX_FDS
          SymFiles,     \* the symbolic files that have a name
          FileSize,     \* size of a symbolic file
          OffMax,       \* the largest off64_t, 2^(w-1) - 1 for w bits
          MaxCount,     \* bound: bytes in a call, at most the largest size_t
          MaxStdout,    \* bound: bytes counted by stdout_writes
          FailKinds,    \* the calls that may fail
          Setups        \* the options: stdin, stdout, save_all_writes, max_failures

DFiles == SymFiles \union {"stdin", "stdout"}
None   == "none"
Fds    == 0 .. MaxFds - 1
Words  == 2 * (OffMax + 1)    \* the number of values of off64_t and of size_t: 2^w

ASSUME PosixAssumption ==
    /\ MaxFds \in Nat /\ MaxFds > 2
    /\ OffMax \in Nat /\ FileSize \in Nat \ {0} /\ MaxCount \in Nat /\ MaxStdout \in Nat
    \* a file is smaller than half the address space; a count is any size_t
    /\ FileSize <= OffMax /\ MaxCount < Words
    /\ FailKinds \subseteq {"read", "write", "close", "ftruncate", "getcwd"}
    /\ {"stdin", "stdout", None, "closed", "concrete"} \cap SymFiles = {}
    /\ \A s \in Setups : /\ {s.stdin, s.stdout, s.save_all_writes} \subseteq BOOLEAN
                         /\ s.max_failures \in Nat

VARIABLES
    fds,               \* __exe_env.fds: open, off, dfile
    written,           \* the positions of each file's contents that were overwritten
    ino,               \* the files whose st_ino is not 0
    save_all_writes,
    max_failures,
    failed,            \* the kinds of call whose symbolic *_fail has been met
    stdout_writes,
    fault              \* what made the runtime stop the path, and the call that met it

vars == <<fds, written, ino, save_all_writes, max_failures, failed, stdout_writes, fault>>

NoFault == [what |-> "none"]

Slot    == [open |-> TRUE, off |-> 0, dfile |-> None]
Cleared == [Slot EXCEPT !.open = FALSE]

InitialFds(setup) ==
    [fd \in Fds |->
       CASE fd = 0 -> [Slot EXCEPT !.dfile = IF setup.stdin THEN "stdin" ELSE None]
         [] fd = 1 -> [Slot EXCEPT !.dfile = IF setup.stdout THEN "stdout" ELSE None]
         [] fd = 2 -> Slot
         [] OTHER  -> Cleared]

(* The stat of a file is assumed to have an inode. *)
Init ==
    /\ \E setup \in Setups : /\ fds = InitialFds(setup)
                             /\ save_all_writes = setup.save_all_writes
                             /\ max_failures = setup.max_failures
    /\ written = [f \in DFiles |-> {}]
    /\ ino = DFiles
    /\ failed = {}
    /\ stdout_writes = 0
    /\ fault = NoFault

-----------------------------------------------------------------------------
(***************************************************************************)
(* Arithmetic of off64_t and size_t.                                       *)
(***************************************************************************)
Unsigned(n) == n % Words
Signed(n)   == LET u == Unsigned(n) IN IF u > OffMax THEN u - Words ELSE u

Fault(f) ==
    /\ fault' = f
    /\ UNCHANGED <<fds, written, ino, save_all_writes, max_failures, failed, stdout_writes>>

Put(fd, slot) == fds' = [fds EXCEPT ![fd] = slot]

(***************************************************************************)
(* *read_fail == n_calls and the like.  The value is symbolic, so that any *)
(* one call of the kind may be the one that fails.                         *)
(***************************************************************************)
InjectFailure(kind) ==
    /\ max_failures > 0 /\ kind \notin failed
    /\ max_failures' = max_failures - 1
    /\ failed' = failed \union {kind}

NoFailureMet == UNCHANGED <<max_failures, failed>>

-----------------------------------------------------------------------------
FreeFds == {fd \in Fds : ~fds[fd].open}

(* Mutant: the inode is not looked at. *)
SymFileEver(file) == file \in SymFiles

(* __get_sym_file: a removed file is not found. *)
SymFile(file) == file \in SymFiles /\ file \in ino

(***************************************************************************)
(* open and openat.  O_EXCL, and a permission that the stat does not give, *)
(* deny a symbolic file; the slot has been filled by then.  O_TRUNC has no *)
(* effect: its test against O_RDONLY, which is 0, is never true.           *)
(***************************************************************************)
OpenSymbolic(file, granted) ==
    /\ SymFile(file) /\ FreeFds # {}
    /\ Put(Min(FreeFds), [Slot EXCEPT !.open = granted, !.dfile = file])
    /\ NoFailureMet
    /\ UNCHANGED <<written, ino, save_all_writes, stdout_writes, fault>>

(* A name that is not a symbolic file's goes to the operating system. *)
OpenConcrete(granted) ==
    /\ FreeFds # {}
    /\ Put(Min(FreeFds), IF granted THEN Slot ELSE Cleared)
    /\ NoFailureMet
    /\ UNCHANGED <<written, ino, save_all_writes, stdout_writes, fault>>

(* The descriptor of the operating system is not closed. *)
Close(fd) ==
    /\ fds[fd].open
    /\ \/ InjectFailure("close") /\ UNCHANGED fds
       \/ NoFailureMet /\ Put(fd, Cleared)
    /\ UNCHANGED <<written, ino, save_all_writes, stdout_writes, fault>>

-----------------------------------------------------------------------------
(* A call of another kind that meets its failure: EIO, or ERANGE of getcwd. *)
FailOnly(kind) ==
    /\ InjectFailure(kind)
    /\ kind # "getcwd" => FreeFds # Fds
    /\ UNCHANGED <<fds, written, ino, save_all_writes, stdout_writes, fault>>

Contents == 0 .. FileSize - 1

(* The bytes that a call copies: memcpy leaves the contents if they do. *)
Copied(off, actual) == off .. off + actual - 1

(***************************************************************************)
(* read.  f->off + count is a size_t: a count that takes it past the       *)
(* largest one passes the test against the size, and is copied whole.      *)
(***************************************************************************)
ReadCount(off, count) ==
    IF FileSize < off THEN 0
    ELSE IF Unsigned(off + count) > FileSize THEN FileSize - off ELSE count

Read(fd, count) ==
    LET f      == fds[fd]
        actual == ReadCount(f.off, count)
        inside == Copied(f.off, actual) \subseteq Contents
    IN /\ f.open /\ f.dfile # None /\ count > 0
       /\ \/ f.off < 0 /\ Fault([what |-> "assert", fd |-> fd, count |-> count])
          \/ f.off >= 0 /\ ~inside /\ Fault([what |-> "bounds", fd |-> fd, count |-> count])
          \/ /\ f.off >= 0 /\ inside
             /\ Put(fd, [f EXCEPT !.off = @ + actual])
             /\ NoFailureMet
             /\ UNCHANGED <<written, ino, save_all_writes, stdout_writes, fault>>

(***************************************************************************)
(* write: what does not fit is dropped, and the offset moves as if it had  *)
(* been written.  The test wraps as in read.                               *)
(***************************************************************************)
(* Mutant: one byte too many. *)
FitsButOne(off, count) == Unsigned(off + count) <= FileSize + 1

Fits(off, count) == Unsigned(off + count) <= FileSize

ActualCount(off, count) ==
    IF Fits(off, count) THEN count
    ELSE IF off < FileSize THEN FileSize - off ELSE 0

OffAfterWrite(off, count) == Signed(off + count)

CountsAsStdout(fd) == fds[fd].dfile = "stdout"

Write(fd, count) ==
    LET f      == fds[fd]
        actual == ActualCount(f.off, count)
        copied == Copied(f.off, actual)
        inside == copied \subseteq Contents
        saves  == save_all_writes /\ ~Fits(f.off, count)
    IN /\ f.open /\ f.dfile # None
       /\ \/ saves /\ Fault([what |-> "save_all_writes", fd |-> fd, count |-> count])
          \/ ~saves /\ ~inside /\ Fault([what |-> "bounds", fd |-> fd, count |-> count])
          \/ /\ ~saves /\ inside
             /\ written' = [written EXCEPT ![f.dfile] = @ \union copied]
             /\ stdout_writes' = stdout_writes + (IF CountsAsStdout(fd) THEN actual ELSE 0)
             /\ stdout_writes' <= MaxStdout
             /\ Put(fd, [f EXCEPT !.off = OffAfterWrite(@, count)])
             /\ NoFailureMet
             /\ UNCHANGED <<ino, save_all_writes, fault>>

SeekTo(off, offset, whence) ==
    CASE whence = "SET" -> offset
      [] whence = "CUR" -> Signed(off + offset)
      [] whence = "END" -> Signed(FileSize + offset)

Lseek(fd, offset, whence) ==
    LET new == SeekTo(fds[fd].off, offset, whence)
    IN /\ fds[fd].open /\ fds[fd].dfile # None
       /\ new >= 0
       /\ Put(fd, [fds[fd] EXCEPT !.off = new])
       /\ NoFailureMet
       /\ UNCHANGED <<written, ino, save_all_writes, stdout_writes, fault>>

-----------------------------------------------------------------------------
(***************************************************************************)
(* dup2 closes the new descriptor first, ignores a failure of that, and    *)
(* copies the slot of the old one; it copies the cleared slot when the two *)
(* are the same.  dup takes the lowest free descriptor.                    *)
(***************************************************************************)
Dup2(oldfd, newfd) ==
    /\ fds[oldfd].open
    /\ \/ fds[newfd].open /\ InjectFailure("close") /\ Put(newfd, fds[oldfd])
       \/ NoFailureMet /\ Put(newfd, IF oldfd = newfd THEN Cleared ELSE fds[oldfd])
    /\ UNCHANGED <<written, ino, save_all_writes, stdout_writes, fault>>

Dup(oldfd) == FreeFds # {} /\ Dup2(oldfd, Min(FreeFds))

(* unlink and unlinkat of a regular file, rmdir of a directory. *)
Remove(file) ==
    /\ SymFile(file)
    /\ ino' = ino \ {file}
    /\ NoFailureMet
    /\ UNCHANGED <<fds, written, save_all_writes, stdout_writes, fault>>

(***************************************************************************)
(* chmod, and fchmod of an open descriptor.  klee_init_fds never allocates *)
(* chmod_fail and fchmod_fail: while failures are left to inject, the test *)
(* reads through NULL.                                                     *)
(***************************************************************************)
Chmod == max_failures > 0 /\ Fault([what |-> "chmod_fail"])

-----------------------------------------------------------------------------
(* The offsets that a seek asks for. *)
Offsets == {-1, 0, 1, OffMax}

Descriptor(fd) ==
    \/ Close(fd) \/ Dup(fd)
    \/ \E fd2 \in Fds : Dup2(fd, fd2)
    \/ \E count \in 0 .. MaxCount : Read(fd, count) \/ Write(fd, count)
    \/ \E offset \in Offsets, whence \in {"SET", "CUR", "END"} : Lseek(fd, offset, whence)

Next ==
    /\ fault = NoFault
    /\ \/ \E fd \in Fds : Descriptor(fd)
       \/ \E file \in SymFiles : Remove(file) \/ \E granted \in BOOLEAN : OpenSymbolic(file, granted)
       \/ \E granted \in BOOLEAN : OpenConcrete(granted)
       \/ \E kind \in FailKinds \ {"close"} : FailOnly(kind)
       \/ Chmod

Spec == Init /\ [][Next]_vars

=============================================================================
