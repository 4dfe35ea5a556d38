--------------------------- MODULE AtomicXmlFile ---------------------------
(***************************************************************************)
(* The files a profile is kept in (tools/atomicxmlfile): saveDocument      *)
(* writes name.temp, and renames the name to name.backup and the temp file *)
(* to the name; loadDocument takes the first of name.temp, the name and    *)
(* name.backup that parses.                                                *)
(*                                                                         *)
(* Every call of the file system is a step, and the application may be     *)
(* terminated between any two of them or in the middle of the write.  The  *)
(* documents saved are numbered: a later one has a larger number.          *)
(***************************************************************************)
EXTENDS Naturals

CONSTANTS
    Absent,             \* the file does not exist
    Torn,               \* the file does not parse: truncated, or half written
    MaxSaves,           \* bound: documents that saveDocument is called for
    MaxInterruptions,   \* bound: terminations, and saves that report an error
    MaxUnreported       \* bound: write errors that file.error() does not show

ASSUME FileAssumption == Absent \notin Nat /\ Torn \notin Nat /\ Absent # Torn
ASSUME BoundAssumption ==
    MaxSaves \in Nat /\ MaxInterruptions \in Nat /\ MaxUnreported \in Nat

VARIABLES
    disk,       \* disk[n]: what the file n holds
    pc,         \* the next call of saveDocument, or "ready", or "stopped"
    saving,     \* the last document saveDocument was called for
    known,      \* the last document loaded, or saved with success; 0 for none
    fresh,      \* known was saved with success, and no save has begun since
    hist        \* interruptions, unreported errors, whether a save succeeded

vars == <<disk, pc, saving, known, fresh, hist>>

Name == {"temp", "file", "backup"}
Steps == {"writing", "removeBackup", "renameFile", "renameTemp"}

Init ==
    /\ disk = [n \in Name |-> Absent]
    /\ pc = "stopped"
    /\ saving = 0
    /\ known = 0
    /\ fresh = FALSE
    /\ hist = [interruptions |-> 0, unreported |-> 0, succeeded |-> FALSE]

Exists(n) == disk[n] # Absent

----------------------------------------------------------------------------
\* Seeded fault: the backup is preferred to the file.
LoadedOldFirst(d) ==
    CASE d["temp"] \in Nat -> d["temp"]
      [] d["temp"] \notin Nat /\ d["backup"] \in Nat -> d["backup"]
      [] d["temp"] \notin Nat /\ d["backup"] \notin Nat /\ d["file"] \in Nat -> d["file"]
      [] d["temp"] \notin Nat /\ d["backup"] \notin Nat /\ d["file"] \notin Nat -> 0
\* What loadDocument finds on the disk d; 0 when it returns false.
Loaded(d) ==
    CASE d["temp"] \in Nat -> d["temp"]
      [] d["temp"] \notin Nat /\ d["file"] \in Nat -> d["file"]
      [] d["temp"] \notin Nat /\ d["file"] \notin Nat /\ d["backup"] \in Nat -> d["backup"]
      [] d["temp"] \notin Nat /\ d["file"] \notin Nat /\ d["backup"] \notin Nat -> 0

LoadDocument ==
    /\ pc = "stopped"
    /\ pc' = "ready"
    /\ known' = Loaded(disk)
    /\ fresh' = FALSE
    /\ UNCHANGED <<disk, saving, hist>>

----------------------------------------------------------------------------
(* saveDocument.                                                           *)

Interrupted ==
    /\ hist.interruptions < MaxInterruptions
    /\ hist' = [hist EXCEPT !.interruptions = @ + 1]

\* saveDocument returns false.
ReturnFalse ==
    /\ Interrupted
    /\ pc' = "ready"
    /\ UNCHANGED <<saving, known, fresh>>

\* QIODevice::WriteOnly truncates the file.
OpenTemp ==
    /\ pc = "ready"
    /\ saving < MaxSaves
    /\ saving' = saving + 1
    /\ fresh' = FALSE
    /\ UNCHANGED known
    /\ \/ /\ pc' = "writing"
          /\ disk' = [disk EXCEPT !["temp"] = Torn]
          /\ UNCHANGED hist
       \/ /\ pc' = "ready"
          /\ Interrupted
          /\ UNCHANGED disk

\* The error is read before close() has written out the buffers of the stream
\* and of the file: an error met there is not reported.
WriteTemp ==
    /\ pc = "writing"
    /\ \/ /\ pc' = "removeBackup"
          /\ disk' = [disk EXCEPT !["temp"] = saving]
          /\ UNCHANGED <<saving, known, fresh, hist>>
       \/ /\ pc' = "removeBackup"
          /\ hist.unreported < MaxUnreported
          /\ hist' = [hist EXCEPT !.unreported = @ + 1]
          /\ UNCHANGED <<disk, saving, known, fresh>>
       \/ ReturnFalse /\ UNCHANGED disk

\* Whether QFile::remove succeeds is not looked at.
RemoveBackup ==
    /\ pc = "removeBackup"
    /\ pc' = "renameFile"
    /\ \/ disk' = [disk EXCEPT !["backup"] = Absent] /\ UNCHANGED hist
       \/ Exists("backup") /\ Interrupted /\ UNCHANGED disk
    /\ UNCHANGED <<saving, known, fresh>>

\* QFile::rename does not replace a file.
Rename(from, to, step) ==
    /\ ~Exists(to)
    /\ disk' = [disk EXCEPT ![to] = disk[from], ![from] = Absent]
    /\ pc' = step

\* Seeded fault: the file is removed and not renamed.
RenameFileRemoves ==
    /\ pc = "renameFile"
    /\ pc' = "renameTemp"
    /\ disk' = [disk EXCEPT !["file"] = Absent]
    /\ UNCHANGED <<saving, known, fresh, hist>>
RenameFile ==
    /\ pc = "renameFile"
    /\ \/ /\ ~Exists("file")
          /\ pc' = "renameTemp"
          /\ UNCHANGED <<disk, saving, known, fresh, hist>>
       \/ /\ Exists("file")
          /\ Rename("file", "backup", "renameTemp")
          /\ UNCHANGED <<saving, known, fresh, hist>>
       \/ /\ Exists("file")
          /\ ReturnFalse
          /\ UNCHANGED disk

RenameTemp ==
    /\ pc = "renameTemp"
    /\ \/ /\ Rename("temp", "file", "ready")
          /\ known' = saving
          /\ fresh' = TRUE
          /\ hist' = [hist EXCEPT !.succeeded = TRUE]
          /\ UNCHANGED saving
       \/ ReturnFalse /\ UNCHANGED disk

SaveDocument == OpenTemp \/ WriteTemp \/ RemoveBackup \/ RenameFile \/ RenameTemp

\* The application ends, in the middle of a save or between two.
Quit ==
    /\ pc = "ready"
    /\ pc' = "stopped"
    /\ UNCHANGED <<disk, saving, known, fresh, hist>>
Terminated ==
    /\ pc \in Steps
    /\ pc' = "stopped"
    /\ Interrupted
    /\ UNCHANGED <<disk, saving, known, fresh>>

Next == LoadDocument \/ SaveDocument \/ Quit \/ Terminated

Spec == Init /\ [][Next]_vars

----------------------------------------------------------------------------
\* The state stays well-formed: in particular loadDocument never hands out a
\* file that does not parse as a document.
TypeOK ==
    /\ disk \in [Name -> Nat \cup {Absent, Torn}]
    /\ pc \in Steps \cup {"ready", "stopped"}
    /\ saving \in Nat
    /\ known \in Nat
    /\ fresh \in BOOLEAN
    /\ hist \in [interruptions : Nat, unreported : Nat, succeeded : BOOLEAN]

\* A save that returns true is the document the next start loads, whatever an
\* earlier save left in the three files, if no write error went unreported.
SavedIsLoaded ==
    fresh /\ hist.unreported = 0 => Loaded(disk) = saving

\* One interruption loses nothing: after it, loadDocument finds the document
\* last loaded or saved, or the newer one of the save that was interrupted.
OneInterruptionLosesNothing ==
    hist.interruptions <= 1 /\ hist.unreported = 0 /\ pc = "stopped" =>
        Loaded(disk) >= known

\* Two interruptions may lose a document, but once a save has succeeded they
\* leave one to load: the temp file and the backup are not both given up.
TwoInterruptionsLeaveOne ==
    hist.interruptions <= 2 /\ hist.unreported = 0 /\ hist.succeeded /\ pc = "stopped" =>
        Loaded(disk) # 0

\* A write error that saveDocument does not notice costs the document it was
\* saving, and not the one before, which is the backup by then.
UnreportedErrorCostsOne ==
    hist.interruptions = 0 /\ hist.unreported <= 1 /\ pc = "ready" /\ saving > 0 =>
        Loaded(disk) >= saving - 1

=============================================================================
