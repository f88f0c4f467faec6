---------------------------- MODULE ArchiveStore ----------------------------
(***************************************************************************)
(* How the command-line tools put their results on disk.  A command writes *)
(* its files one after the other (the archive, then its .sha256 sidecar),  *)
(* each through write_atomic: the bytes go to a temporary, the old file is *)
(* removed, the temporary is renamed.  hbp.py does the same with           *)
(* os.replace and no removal.  A command can be interrupted between any    *)
(* two steps, by a crash or by an I/O error it returns; the operator may   *)
(* run another one afterwards.  Version n is what the n-th command writes. *)
(***************************************************************************)
EXTENDS Integers, Sequences

CONSTANTS
    Outputs,            \* the files a command writes, in order
    MaxCommands,        \* bound: commands
    MaxInterruptions    \* bound: crashes and I/O errors between two successes

Files == {Outputs[i] : i \in DOMAIN Outputs}

ASSUME StoreAssumption ==
    /\ Outputs \in Seq(Files)
    /\ Len(Outputs) > 0
    /\ \A i, j \in DOMAIN Outputs : Outputs[i] = Outputs[j] => i = j
    /\ MaxCommands \in Nat
    /\ MaxInterruptions \in Nat

Absent == 0
Partial == -1
Contents == Nat \cup {Partial}      \* Absent, a version, or a cut-off write

VARIABLES
    removesFirst,   \* write_atomic (Rust) does; hbp.py (os.replace) does not
    pc,             \* idle, create, write, remove or rename
    version,        \* what the running command writes
    index,          \* which of its Outputs it is at
    final,          \* the files
    temporary,      \* their temporaries
    published,      \* history: the files that were ever put in place
    succeeded,      \* the last command ran to its end
    interruptions   \* history: commands cut off since one ran to its end

storeVars == <<removesFirst, pc, version, index, final, temporary, published,
               succeeded, interruptions>>

StoreInit ==
    /\ removesFirst \in BOOLEAN
    /\ pc = "idle"
    /\ version = 0
    /\ index = 1
    /\ final = [f \in Files |-> Absent]
    /\ temporary = [f \in Files |-> Absent]
    /\ published = {}
    /\ succeeded = FALSE
    /\ interruptions = 0
-----------------------------------------------------------------------------
\* Mutant: the sidecar goes first.
FileReversed == Outputs[Len(Outputs) + 1 - index]

File == Outputs[index]

\* The command has computed (and verified) its bytes and starts to write.
Start ==
    /\ pc = "idle"
    /\ version < MaxCommands
    /\ pc' = "create"
    /\ version' = version + 1
    /\ index' = 1
    /\ succeeded' = FALSE
    /\ UNCHANGED <<removesFirst, final, temporary, published, interruptions>>

\* Mutant: the old file is removed before the new one is written.
CreateRemoving ==
    /\ pc = "create"
    /\ temporary' = [temporary EXCEPT ![File] = Partial]
    /\ final' = [final EXCEPT ![File] = Absent]
    /\ pc' = "write"
    /\ UNCHANGED <<removesFirst, version, index, published, succeeded, interruptions>>

\* fs::write opens the temporary and truncates it, then writes the bytes.
Create ==
    /\ pc = "create"
    /\ temporary' = [temporary EXCEPT ![File] = Partial]
    /\ pc' = "write"
    /\ UNCHANGED <<removesFirst, version, index, final, published, succeeded, interruptions>>

\* Mutant: the old file is removed although the rename would replace it.
WriteThenRemove ==
    /\ pc = "write"
    /\ temporary' = [temporary EXCEPT ![File] = version]
    /\ pc' = "remove"
    /\ UNCHANGED <<removesFirst, version, index, final, published, succeeded, interruptions>>

Write ==
    /\ pc = "write"
    /\ temporary' = [temporary EXCEPT ![File] = version]
    /\ pc' = IF removesFirst THEN "remove" ELSE "rename"
    /\ UNCHANGED <<removesFirst, version, index, final, published, succeeded, interruptions>>

\* remove_file if the path exists.
Remove ==
    /\ pc = "remove"
    /\ final' = [final EXCEPT ![File] = Absent]
    /\ pc' = "rename"
    /\ UNCHANGED <<removesFirst, version, index, temporary, published, succeeded,
                   interruptions>>

Rename ==
    /\ pc = "rename"
    /\ final' = [final EXCEPT ![File] = temporary[File]]
    /\ temporary' = [temporary EXCEPT ![File] = Absent]
    /\ published' = published \cup {File}
    /\ IF index < Len(Outputs)
         THEN /\ pc' = "create" /\ index' = index + 1
              /\ UNCHANGED <<succeeded, interruptions>>
         ELSE /\ pc' = "idle" /\ succeeded' = TRUE /\ interruptions' = 0
              /\ UNCHANGED index
    /\ UNCHANGED <<removesFirst, version>>

\* Mutant: an error while a later file is written is dropped, and success
\* reported.
InterruptSwallowed ==
    /\ pc # "idle"
    /\ interruptions < MaxInterruptions
    /\ pc' = "idle"
    /\ \/ interruptions' = interruptions + 1 /\ UNCHANGED succeeded
       \/ index > 1 /\ succeeded' = TRUE /\ interruptions' = 0
    /\ UNCHANGED <<removesFirst, version, index, final, temporary, published>>

\* A crash, or an error the step returns: nothing is cleaned up.
Interrupt ==
    /\ pc # "idle"
    /\ interruptions < MaxInterruptions
    /\ interruptions' = interruptions + 1
    /\ pc' = "idle"
    /\ UNCHANGED <<removesFirst, version, index, final, temporary, published, succeeded>>

Step == Create \/ Write \/ Remove \/ Rename

StoreNext == Start \/ Step \/ Interrupt

StoreSpec == StoreInit /\ [][StoreNext]_storeVars
-----------------------------------------------------------------------------
(* Properties.                                                             *)

\* Files hold nothing or a version, only a temporary can be cut off
\* (write_atomic renames temporaries it has written completely).
StoreTypeOK ==
    /\ removesFirst \in BOOLEAN
    /\ pc \in {"idle", "create", "write", "remove", "rename"}
    /\ version \in Nat
    /\ index \in DOMAIN Outputs
    /\ final \in [Files -> Nat]
    /\ temporary \in [Files -> Contents]
    /\ published \subseteq Files
    /\ succeeded \in BOOLEAN
    /\ interruptions \in Nat

Complete(content) == content \in Nat \ {Absent}

\* After a crash, wherever it fell, every file that was ever in place is
\* still on disk in full, under its own name or as its temporary; and a
\* command that then runs to its end makes good for it, so that the next
\* crash is survived as well.  Only two in a row, the second before anything
\* succeeded again, can truncate the temporary that is the last copy.
OneInterruptionKeepsACopy ==
    pc = "idle" /\ interruptions <= 1 =>
        \A f \in published : Complete(final[f]) \/ Complete(temporary[f])

\* Where the rename replaces the file (os.replace), it is there at every
\* moment from its first appearance, after any number of crashes.
ReplacedFilesStay ==
    ~removesFirst => \A f \in published : Complete(final[f])

\* A temporary that an interrupted command left behind is never renamed
\* into place: what appears under a file's name is what this command writes.
NoStaleTemporaryAppears ==
    [][\A f \in Files :
          final'[f] # final[f] => final'[f] \in {Absent, version}]_storeVars

\* A sidecar may be older than its archive, after a crash between the two,
\* never newer, so a mismatch always means that the sidecar is stale.
LaterFilesAreNotNewer ==
    \A i, j \in DOMAIN Outputs :
        i < j /\ Complete(final[Outputs[i]]) =>
            final[Outputs[j]] <= final[Outputs[i]]

\* A command that reports success leaves its own version of every file and
\* no temporary, whatever earlier commands left behind.
SuccessIsComplete ==
    pc = "idle" /\ succeeded =>
        \A f \in Files : final[f] = version /\ temporary[f] = Absent
=============================================================================
