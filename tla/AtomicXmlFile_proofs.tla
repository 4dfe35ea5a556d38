------------------------ MODULE AtomicXmlFile_proofs ------------------------
(***************************************************************************)
(* Proofs about AtomicXmlFile, for any number of saves and any bounds: one *)
(* interruption loses no document, two leave one, a save that succeeds is  *)
(* loaded, and an error that nobody noticed costs one document.            *)
(***************************************************************************)
EXTENDS AtomicXmlFile, TLAPS

Resting == pc \in {"ready", "stopped"}

\* What is on the disk while no write error went unreported: the temp file is
\* the whole document from WriteTemp on; before the first interruption, the
\* file is what is known as long as the temp file is not whole.
Disk ==
    /\ pc \in {"removeBackup", "renameFile", "renameTemp"} => disk["temp"] = saving
    /\ hist.interruptions <= 1 /\ Resting => Loaded(disk) >= known
    /\ hist.interruptions = 0 /\ Resting =>
         disk["temp"] = Absent /\ Loaded(disk) = known /\ (known # 0 => disk["file"] = known)
    /\ hist.interruptions = 0 /\ pc = "writing" /\ known # 0 => disk["file"] = known
    /\ fresh => disk["temp"] = Absent /\ disk["file"] = saving

IInv ==
    /\ TypeOK
    /\ known <= saving
    /\ fresh => Resting
    /\ pc = "writing" => disk["temp"] = Torn
    /\ \A n \in Name : disk[n] \in Nat => disk[n] <= saving
    /\ hist.unreported = 0 => Disk

\* loadDocument finds a document or returns false.
LEMMA LoadedType ==
    ASSUME NEW d \in [Name -> Nat \cup {Absent, Torn}]
    PROVE  Loaded(d) \in Nat
  BY DEF Loaded

Hist == [interruptions : Nat, unreported : Nat, succeeded : BOOLEAN]

\* A termination is counted, and nothing else of the history changes.
LEMMA InterruptedType ==
    ASSUME TypeOK, Interrupted
    PROVE  /\ hist' \in Hist
           /\ hist'.interruptions = hist.interruptions + 1
           /\ hist'.unreported = hist.unreported
  BY DEF TypeOK, Interrupted, Hist

\* A fresh profile has none of the three files.
THEOREM InitIInv == Init => IInv
<1> SUFFICES ASSUME Init PROVE IInv
  OBVIOUS
<1>1. TypeOK
  BY DEF Init, TypeOK
<1>2. Loaded(disk) = 0
  BY FileAssumption DEF Init, Loaded, Name
<1> QED
  BY <1>1, <1>2, FileAssumption DEF Init, IInv, Disk, Resting, Name

\* loadDocument changes no file.
LEMMA LoadStep == IInv /\ LoadDocument => IInv'
<1> SUFFICES ASSUME IInv, LoadDocument PROVE IInv'
  OBVIOUS
<1>1. Loaded(disk) \in Nat
  BY LoadedType DEF IInv, TypeOK
<1>2. Loaded(disk) <= saving
  BY <1>1 DEF IInv, Loaded, Name, TypeOK
<1>3. TypeOK'
  BY <1>1 DEF LoadDocument, IInv, TypeOK
<1>4. (hist.unreported = 0 => Disk)'
  BY <1>1 DEF LoadDocument, IInv, TypeOK, Disk, Resting, Loaded, Steps
<1> QED
  BY <1>2, <1>3, <1>4 DEF LoadDocument, IInv, TypeOK, Resting

\* Opening name.temp truncates it; before any interruption the name still holds
\* the document that is known.
LEMMA OpenStep == IInv /\ OpenTemp => IInv'
<1> SUFFICES ASSUME IInv, OpenTemp PROVE IInv'
  OBVIOUS
<1>1. TypeOK'
  <2>1. disk' \in [Name -> Nat \cup {Absent, Torn}]
    BY DEF OpenTemp, IInv, TypeOK, Name
  <2>2. hist' \in Hist
    BY InterruptedType DEF OpenTemp, IInv, TypeOK, Hist
  <2>3. pc' \in Steps \cup {"ready", "stopped"}
    BY DEF OpenTemp, Steps
  <2>4. saving' \in Nat /\ known' \in Nat /\ fresh' \in BOOLEAN
    <3>1. saving' = saving + 1 /\ known' = known /\ fresh' = FALSE
      BY DEF OpenTemp
    <3>2. saving \in Nat /\ known \in Nat
      BY DEF IInv, TypeOK
    <3>3. saving' \in Nat /\ known' \in Nat
      BY <3>1, <3>2
    <3>4. fresh' \in BOOLEAN
      BY <3>1, Zenon
    <3> QED
      BY <3>3, <3>4
  <2> QED
    BY <2>1, <2>2, <2>3, <2>4 DEF TypeOK, Hist
<1>2. (\A n \in Name : disk[n] \in Nat => disk[n] <= saving)'
  BY FileAssumption DEF OpenTemp, IInv, TypeOK, Name
<1>3. (hist.unreported = 0 => Disk)'
  BY DEF OpenTemp, Interrupted, IInv, TypeOK, Disk, Resting, Loaded, Name
<1> QED
  BY <1>1, <1>2, <1>3 DEF OpenTemp, Interrupted, IInv, TypeOK, Resting, Name

\* Once name.temp is written it holds the newest document.
LEMMA WriteStep == IInv /\ WriteTemp => IInv'
<1> SUFFICES ASSUME IInv, WriteTemp PROVE IInv'
  OBVIOUS
<1>1. TypeOK'
  BY DEF WriteTemp, ReturnFalse, Interrupted, IInv, TypeOK, Steps, Name
<1>2. (\A n \in Name : disk[n] \in Nat => disk[n] <= saving)'
  BY DEF WriteTemp, ReturnFalse, IInv, TypeOK, Name
<1>3. (hist.unreported = 0 => Disk)'
  <2>1. CASE disk' = [disk EXCEPT !["temp"] = saving]
    <3>1. disk'["temp"] = saving /\ saving' = saving /\ fresh' = fresh
      BY <2>1, FileAssumption DEF WriteTemp, ReturnFalse, IInv, TypeOK, Name
    <3>2. pc' = "removeBackup" /\ ~fresh
      BY <2>1, FileAssumption DEF WriteTemp, ReturnFalse, IInv, TypeOK, Resting, Name
    <3> QED
      BY <3>1, <3>2 DEF Disk, Resting
  <2>2. CASE hist' = [hist EXCEPT !.unreported = @ + 1]
    BY <2>2 DEF IInv, TypeOK
  <2>3. CASE ReturnFalse /\ UNCHANGED disk
    BY <2>3, FileAssumption
       DEF ReturnFalse, Interrupted, WriteTemp, IInv, TypeOK, Disk, Resting, Loaded, Name
  <2> QED
    BY <2>1, <2>2, <2>3 DEF WriteTemp
<1> QED
  BY <1>1, <1>2, <1>3 DEF WriteTemp, ReturnFalse, IInv, Resting

\* The backup is only removed while name.temp holds the newest document.
LEMMA RemoveStep == IInv /\ RemoveBackup => IInv'
<1> SUFFICES ASSUME IInv, RemoveBackup PROVE IInv'
  OBVIOUS
<1>1. TypeOK'
  BY DEF RemoveBackup, Interrupted, IInv, TypeOK, Steps, Name
<1>2. (\A n \in Name : disk[n] \in Nat => disk[n] <= saving)'
  BY FileAssumption DEF RemoveBackup, IInv, TypeOK, Name
<1>3. (hist.unreported = 0 => Disk)'
  BY DEF RemoveBackup, Interrupted, IInv, TypeOK, Disk, Resting, Name
<1> QED
  BY <1>1, <1>2, <1>3 DEF RemoveBackup, IInv, Resting

\* The name is only renamed while name.temp holds the newest document.
LEMMA RenameFileStep == IInv /\ RenameFile => IInv'
<1> SUFFICES ASSUME IInv, RenameFile PROVE IInv'
  OBVIOUS
<1>1. TypeOK'
  <2>1. disk' \in [Name -> Nat \cup {Absent, Torn}]
    BY DEF RenameFile, Rename, ReturnFalse, IInv, TypeOK, Name
  <2>2. hist' \in Hist
    BY InterruptedType DEF RenameFile, Rename, ReturnFalse, IInv, TypeOK, Hist
  <2>3. pc' \in Steps \cup {"ready", "stopped"}
    BY DEF RenameFile, Rename, ReturnFalse, Steps
  <2>4. saving' \in Nat /\ known' \in Nat /\ fresh' \in BOOLEAN
    BY DEF RenameFile, Rename, ReturnFalse, IInv, TypeOK
  <2> QED
    BY <2>1, <2>2, <2>3, <2>4 DEF TypeOK, Hist
<1>2. (\A n \in Name : disk[n] \in Nat => disk[n] <= saving)'
  BY FileAssumption DEF RenameFile, Rename, ReturnFalse, IInv, TypeOK, Name
<1>3. (hist.unreported = 0 => Disk)'
  BY DEF RenameFile, Rename, ReturnFalse, Interrupted, IInv, TypeOK, Disk, Resting,
         Loaded, Name
<1> QED
  BY <1>1, <1>2, <1>3 DEF RenameFile, Rename, ReturnFalse, IInv, Resting

\* The last rename makes it the first that loadDocument finds.
LEMMA RenameTempStep == IInv /\ RenameTemp => IInv'
<1> SUFFICES ASSUME IInv, RenameTemp PROVE IInv'
  OBVIOUS
<1>1. TypeOK'
  <2>1. disk' \in [Name -> Nat \cup {Absent, Torn}]
    BY DEF RenameTemp, Rename, ReturnFalse, IInv, TypeOK, Name
  <2>2. hist' \in Hist
    BY InterruptedType DEF RenameTemp, Rename, ReturnFalse, IInv, TypeOK, Hist
  <2>3. pc' \in Steps \cup {"ready", "stopped"}
    BY DEF RenameTemp, Rename, ReturnFalse, Steps
  <2>4. saving' \in Nat /\ known' \in Nat /\ fresh' \in BOOLEAN
    BY DEF RenameTemp, Rename, ReturnFalse, IInv, TypeOK
  <2> QED
    BY <2>1, <2>2, <2>3, <2>4 DEF TypeOK, Hist
<1>2. (\A n \in Name : disk[n] \in Nat => disk[n] <= saving)'
  BY FileAssumption DEF RenameTemp, Rename, ReturnFalse, IInv, TypeOK, Name
<1>3. (hist.unreported = 0 => Disk)'
  BY FileAssumption
     DEF RenameTemp, Rename, ReturnFalse, Interrupted, IInv, TypeOK, Disk, Resting,
         Loaded, Name
<1> QED
  BY <1>1, <1>2, <1>3 DEF RenameTemp, Rename, ReturnFalse, IInv, TypeOK, Resting

\* Ending, or being terminated, leaves the files as they are.
LEMMA StopStep == IInv /\ (Quit \/ Terminated) => IInv'
<1> SUFFICES ASSUME IInv, Quit \/ Terminated PROVE IInv'
  OBVIOUS
<1>1. TypeOK'
  BY DEF Quit, Terminated, Interrupted, IInv, TypeOK
<1>2. (hist.unreported = 0 => Disk)'
  BY FileAssumption
     DEF Quit, Terminated, Interrupted, IInv, TypeOK, Disk, Resting, Loaded, Name, Steps
<1> QED
  BY <1>1, <1>2 DEF Quit, Terminated, IInv, Resting

\* Every call of the file system, and a termination, keeps the invariant.
THEOREM NextIInv == IInv /\ [Next]_vars => IInv'
<1>1. IInv /\ UNCHANGED vars => IInv'
  BY DEF vars, IInv, TypeOK, Disk, Resting, Loaded
<1> QED
  BY <1>1, LoadStep, OpenStep, WriteStep, RemoveStep, RenameFileStep, RenameTempStep,
     StopStep DEF Next, SaveDocument

\* The state stays well-formed: loadDocument hands out documents only.
THEOREM TypeCorrect == Spec => []TypeOK
<1>1. IInv => TypeOK
  BY DEF IInv
<1> QED
  BY <1>1, InitIInv, NextIInv, PTL DEF Spec

\* After one termination or one save that failed, the next start loads the
\* document that was loaded or saved last, or the newer one being saved.
THEOREM OneInterruption == Spec => []OneInterruptionLosesNothing
<1>1. IInv => OneInterruptionLosesNothing
  BY DEF IInv, Disk, Resting, OneInterruptionLosesNothing
<1> QED
  BY <1>1, InitIInv, NextIInv, PTL DEF Spec

\* saveDocument returning true means that loadDocument finds that document,
\* however many interruptions came before.
THEOREM SavedLoads == Spec => []SavedIsLoaded
<1>1. IInv => SavedIsLoaded
  BY FileAssumption DEF IInv, TypeOK, Disk, Loaded, SavedIsLoaded, Name
<1> QED
  BY <1>1, InitIInv, NextIInv, PTL DEF Spec

----------------------------------------------------------------------------
(* Two interruptions: which files hold a document, while there were none,  *)
(* one and two of them.                                                    *)

Doc(n) == disk[n] \in Nat

Remaining ==
    /\ hist.interruptions = 0 /\ pc # "renameTemp" => Doc("file")
    /\ hist.interruptions = 0 /\ pc = "renameTemp" => Doc("backup")
    /\ hist.interruptions <= 1 /\ (Resting \/ pc = "writing") => Doc("file") \/ Doc("backup")
    /\ hist.interruptions <= 2 /\ Resting => \E n \in Name : Doc(n)

TwoInv ==
    /\ \A n \in Name : disk[n] # 0
    /\ pc \in Steps => saving > 0
    /\ hist.unreported = 0 /\ hist.succeeded => Remaining

\* Each call of the file system leaves that many documents.
LEMMA TwoStep == IInv /\ TwoInv /\ [Next]_vars => TwoInv'
<1> SUFFICES ASSUME IInv, TwoInv, [Next]_vars PROVE TwoInv'
  OBVIOUS
<1> USE FileAssumption DEF IInv, TypeOK, TwoInv, Remaining, Doc, Resting, Name, Steps
<1>1. CASE LoadDocument
  BY <1>1 DEF LoadDocument
<1>2. CASE OpenTemp
  BY <1>2 DEF OpenTemp, Interrupted
<1>3. CASE WriteTemp
  BY <1>3 DEF WriteTemp, ReturnFalse, Interrupted, Disk
<1>4. CASE RemoveBackup
  BY <1>4 DEF RemoveBackup, Interrupted, Disk
<1>5. CASE RenameFile
  BY <1>5 DEF RenameFile, Rename, Exists, ReturnFalse, Interrupted, Disk
<1>6. CASE RenameTemp
  BY <1>6 DEF RenameTemp, Rename, Exists, ReturnFalse, Interrupted, Disk
<1>7. CASE Quit \/ Terminated
  BY <1>7 DEF Quit, Terminated, Interrupted, Disk
<1>8. CASE UNCHANGED vars
  BY <1>8 DEF vars
<1> QED
  BY <1>1, <1>2, <1>3, <1>4, <1>5, <1>6, <1>7, <1>8 DEF Next, SaveDocument

\* Two terminations or failed saves, wherever they come, leave a document.
THEOREM TwoInterruptions == Spec => []TwoInterruptionsLeaveOne
<1>1. Init => TwoInv
  BY FileAssumption DEF Init, TwoInv, Remaining, Doc, Resting, Name, Steps
<1>2. IInv /\ TwoInv => TwoInterruptionsLeaveOne
  BY FileAssumption
     DEF IInv, TypeOK, TwoInv, Remaining, Doc, Resting, Name, Loaded, TwoInterruptionsLeaveOne
<1> QED
  BY <1>1, <1>2, TwoStep, InitIInv, NextIInv, PTL DEF Spec

----------------------------------------------------------------------------
(* An error that nobody noticed: where the document before the one being   *)
(* saved is.                                                               *)

OneBefore(n) == saving > 1 => disk[n] = saving - 1

CostInv ==
    /\ pc \in Steps => saving > 0
    /\ hist.interruptions = 0 =>
        /\ Resting => disk["temp"] = Absent
        /\ hist.unreported = 0 /\ Resting /\ saving > 0 => disk["file"] = saving
        /\ hist.unreported = 0 /\ pc = "writing" => OneBefore("file")
        /\ hist.unreported <= 1 =>
            /\ pc \in {"removeBackup", "renameFile"} =>
                disk["temp"] = saving \/ (disk["temp"] = Torn /\ OneBefore("file"))
            /\ pc = "renameTemp" =>
                disk["temp"] = saving \/ (disk["temp"] = Torn /\ OneBefore("backup"))
            /\ Resting /\ saving > 0 =>
                disk["file"] = saving \/ (disk["file"] = Torn /\ OneBefore("backup"))

\* Each call keeps it: the file becomes the backup before it is replaced.
LEMMA CostStep == IInv /\ CostInv /\ [Next]_vars => CostInv'
<1> SUFFICES ASSUME IInv, CostInv, [Next]_vars PROVE CostInv'
  OBVIOUS
<1> USE FileAssumption DEF IInv, TypeOK, CostInv, OneBefore, Resting, Name, Steps
<1>1. CASE LoadDocument
  BY <1>1 DEF LoadDocument
<1>2. CASE OpenTemp
  BY <1>2 DEF OpenTemp, Interrupted
<1>3. CASE WriteTemp
  BY <1>3 DEF WriteTemp, ReturnFalse, Interrupted
<1>4. CASE RemoveBackup
  BY <1>4 DEF RemoveBackup, Interrupted
<1>5. CASE RenameFile
  BY <1>5 DEF RenameFile, Rename, Exists, ReturnFalse, Interrupted
<1>6. CASE RenameTemp
  BY <1>6 DEF RenameTemp, Rename, Exists, ReturnFalse, Interrupted, Disk
<1>7. CASE Quit \/ Terminated
  BY <1>7 DEF Quit, Terminated, Interrupted
<1>8. CASE UNCHANGED vars
  BY <1>8 DEF vars
<1> QED
  BY <1>1, <1>2, <1>3, <1>4, <1>5, <1>6, <1>7, <1>8 DEF Next, SaveDocument

\* A full disk that saveDocument does not notice costs the document it was
\* saving; the one before is loaded.
THEOREM UnreportedError == Spec => []UnreportedErrorCostsOne
<1>1. Init => CostInv
  BY FileAssumption DEF Init, CostInv, OneBefore, Resting, Name, Steps
<1>2. IInv /\ CostInv => UnreportedErrorCostsOne
  BY FileAssumption
     DEF IInv, TypeOK, CostInv, OneBefore, Resting, Name, Loaded, UnreportedErrorCostsOne
<1> QED
  BY <1>1, <1>2, CostStep, InitIInv, NextIInv, PTL DEF Spec
=============================================================================
