--------------------------- MODULE PosixProperties ---------------------------
(***************************************************************************)
(* What the file system of the POSIX runtime keeps.                        *)
(***************************************************************************)
EXTENDS PosixFiles

(* read and write leave the contents of a file, and the assertion of read  *)
(* fails, in two ways only: the offset of the descriptor has wrapped past  *)
(* the largest off64_t in an earlier call, or f->off + count wraps past    *)
(* the largest size_t in this one.                                         *)
FaultsAreKnown ==
    fault.what \in {"assert", "bounds"} =>
        LET f == fds[fault.fd]
        IN f.open /\ (f.off < 0 \/ f.off + fault.count >= Words)

(* With save_all_writes, writes execute as expected (fd.h:85): no write    *)
(* stops the path for it.  The code asserts 0 at one that exceeds the file.*)
SavedWritesExecute == fault.what # "save_all_writes"

(* The inductive invariant: an offset is an off64_t, and a descriptor is   *)
(* of a file that there is.                                                *)
FilesInv ==
    /\ fds \in [Fds -> [open : BOOLEAN, off : -OffMax - 1 .. OffMax, dfile : DFiles \union {None}]]
    /\ written \in [DFiles -> SUBSET (0 .. FileSize - 1)]
    /\ ino \subseteq DFiles
    /\ FaultsAreKnown

(* The runtime implements OpenFiles: no call disturbs another descriptor,  *)
(* a removed file stays reachable and cannot be opened again, and a        *)
(* duplicate starts where its original stands.                             *)
Entries == [fd \in Fds |->
    IF ~fds[fd].open THEN [file |-> "closed", pos |-> 0]
    ELSE [file |-> IF fds[fd].dfile = None THEN "concrete" ELSE fds[fd].dfile,
          pos |-> IF fds[fd].off < 0 THEN -1 ELSE fds[fd].off]]

Abstract == INSTANCE OpenFiles WITH
    Descriptors <- Fds, Names <- SymFiles, Others <- {"stdin", "stdout"}, Size <- FileSize,
    MaxPos <- OffMax, table <- Entries, overwritten <- written, names <- ino \cap SymFiles

ImplementsOpenFiles == Abstract!Spec

=============================================================================
