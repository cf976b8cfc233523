--------------------------- MODULE RegistryProofs ---------------------------
(***************************************************************************)
(* Proofs about Registry: what clients read is whole and, if files do not  *)
(* change while a client reads them, becomes current, for any keys, files  *)
(* and databases.                                                          *)
(***************************************************************************)
EXTENDS Registry, FiniteSetTheorems, TLAPS

-----------------------------------------------------------------------------
(* The inductive invariant                                                 *)

ToolRecord == [at : {"off", "reading", "writing", "renaming"}, todo : SUBSET Files,
               parsed : [Files -> Contents], inode : Inodes \cup {Unopened}, ours : BOOLEAN]

DiskTypes ==
  /\ files \in [Files -> Contents] /\ parsed \in [Files -> Contents]
  /\ disk \in [Inodes -> Database]
  /\ cache \in Inodes \cup {Unopened} /\ reader \in Inodes \cup {Unopened}
  /\ tool \in ToolRecord
  /\ todo \subseteq Files /\ watched \subseteq Files
  /\ backend \in {"none", "cdb", "xml"}

\* What is linked or open is whole, and the tool does not touch it.
DatabaseInv ==
  /\ cache # Unopened => disk[cache].whole
  /\ reader # Unopened => disk[reader].whole
  /\ tool.at \in {"writing", "renaming"} => tool.inode \in Inodes \ {cache, reader}
  /\ tool.at = "renaming" => disk[tool.inode].whole

PlaceInv ==
  /\ backend = "none" => at = "idle" /\ ~constructed /\ tracked = Unopened
  /\ backend = "cdb" => /\ cache # Unopened
                        /\ at \in {"idle", "watching", "remembering", "reopening"}
  /\ backend = "xml" => at \in {"idle", "reading", "adding"}

\* A client in the middle of a reload knows the former keys.
TrackedInv ==
  backend = "xml" /\ tracked # Unopened =>
    constructed /\ IF at = "idle" THEN tracked = ListKeys ELSE tracked = oldKeys

ReadInv == DiskTypes /\ DatabaseInv /\ PlaceInv /\ TrackedInv

\* No file has changed since the run of the tool began.
CompileInv ==
  ~dirty =>
    /\ tool.at = "off" /\ cache # Unopened => disk[cache].data = DataOf(files)
    /\ tool.at = "reading" => \A f \in Files \ tool.todo : tool.parsed[f] = files[f]
    /\ tool.at = "writing" => tool.parsed = files
    /\ tool.at = "renaming" => disk[tool.inode].data = DataOf(files)

\* A client of the database knows its inode, or has a notice to handle.
CdbInv ==
  backend = "cdb" =>
    /\ at # "watching" => directoryWatched
    /\ at \in {"watching", "remembering"} => reader = cache
    /\ at \in {"remembering", "idle"} => databaseCompatible = Compatible(reader)
    /\ at = "reopening" => lastInode = cache
    /\ at = "idle" => /\ reader = lastInode /\ reader # Unopened
                      /\ lastInode # cache => directoryNotice

\* A client of the files watches what it has read; a file that appeared, and
\* is not watched, is missing in the number of files.
XmlInv ==
  backend = "xml" =>
    /\ directoryWatched
    /\ countOfFiles = Cardinality(watched)
    /\ at # "idle" =>
         /\ todo \subseteq Present(files) /\ watched = Present(files) \ todo
         /\ \A f \in Files \ todo : parsed[f] = files[f]
         /\ at = "adding" => current \in todo /\ parsed[current] = files[current]
    /\ at = "idle" =>
         /\ watched = Present(parsed)
         /\ \A f \in watched : parsed[f] # files[f] => f \in fileNotices
         /\ ~directoryNotice => Cardinality(Present(files)) = countOfFiles

FollowInv == CompileInv /\ CdbInv /\ XmlInv

-----------------------------------------------------------------------------
(* Lemmas about the definitions                                            *)

LEMMA DataOfType == ASSUME NEW fs PROVE DataOf(fs) \in Data
BY DEF DataOf, Data, Declares, Present

LEMMA NoFilesType == NoFiles \in [Files -> Contents]
BY DEF NoFiles, Contents

LEMMA DatabaseTypes ==
  /\ NewDatabase \in Database
  /\ EmptyDatabase \in Database
  /\ \A ours \in BOOLEAN : \A fs : [whole |-> TRUE, ours |-> ours, data |-> DataOf(fs)] \in Database
<1>1. NoData \in Data
  BY DEF NoData, Data
<1> QED
  BY <1>1, DataOfType DEF NewDatabase, EmptyDatabase, Database

\* A client that knows the former keys knows the present ones when it has applied
\* the signals.
LEMMA AppliedIsNow ==
  ASSUME NEW t, NEW now, NEW old, t # Unopened, t = old
  PROVE  Applied(t, now, old) = now
BY DEF Applied

-----------------------------------------------------------------------------
(* Types and databases                                                     *)

LEMMA DiskTypesInit == RegistryInit => DiskTypes
<1> SUFFICES ASSUME RegistryInit PROVE DiskTypes
  OBVIOUS
<1>1. disk \in [Inodes -> Database]
  BY DatabaseTypes DEF RegistryInit
<1>2. tool \in ToolRecord
  BY NoFilesType DEF RegistryInit, ToolOff, ToolRecord
<1> QED
  BY <1>1, <1>2, NoFilesType DEF RegistryInit, DiskTypes

LEMMA DiskTypesNext == ASSUME DiskTypes, RegistryNext PROVE DiskTypes'
<1> USE DEF DiskTypes, ToolRecord
<1>1. ASSUME NEW f \in Files, ChangeFile(f) PROVE DiskTypes'
  <2>1. files' \in [Files -> Contents]
    BY <1>1 DEF ChangeFile, Contents
  <2> QED
    BY <1>1, <2>1 DEF ChangeFile, cdbVars, xmlVars, clientVars
<1>2. ASSUME NEW f \in Files, ToolReadsFile(f) PROVE DiskTypes'
  <2>1. tool' \in ToolRecord
    BY <1>2 DEF ToolReadsFile
  <2> QED
    BY <1>2, <2>1 DEF ToolReadsFile, ToolUnchanged, cdbVars, xmlVars, clientVars
<1>3. ASSUME NEW f \in Files, OnFileChanged(f) PROVE DiskTypes'
  BY <1>3, NoFilesType DEF OnFileChanged, Regenerate, Present, ClientUnchanged, registryVars, toolVars, cdbVars
<1>4. ASSUME NEW f \in Files, ReadDeclarations(f) PROVE DiskTypes'
  BY <1>4 DEF ReadDeclarations, ClientUnchanged, registryVars, toolVars, cdbVars, watchVars
<1>5. CASE ToolStarts
  <2>1. tool' \in ToolRecord
    BY <1>5, NoFilesType DEF ToolStarts, ToolOff, Present
  <2> QED
    BY <1>5, <2>1 DEF ToolStarts, ToolUnchanged, cdbVars, xmlVars, clientVars
<1>6. CASE ToolMakesFile
  <2>1. PICK i \in Inodes : /\ tool' = [tool EXCEPT !.at = "writing", !.inode = i]
                            /\ disk' = [disk EXCEPT ![i] = NewDatabase]
    BY <1>6 DEF ToolMakesFile
  <2>2. tool' \in ToolRecord
    BY <2>1
  <2>3. disk' \in [Inodes -> Database]
    BY <2>1, DatabaseTypes
  <2> QED
    BY <1>6, <2>2, <2>3 DEF ToolMakesFile, ToolUnchanged, cdbVars, xmlVars, clientVars
<1>7. CASE ToolWrites
  <2>1. tool' \in ToolRecord
    BY <1>7 DEF ToolWrites
  <2>2. [whole |-> TRUE, ours |-> tool.ours, data |-> DataOf(tool.parsed)] \in Database
    BY DatabaseTypes
  <2>3. disk' \in [Inodes -> Database]
    BY <1>7, <2>2 DEF ToolWrites
  <2> QED
    BY <1>7, <2>1, <2>3 DEF ToolWrites, ToolUnchanged, cdbVars, xmlVars, clientVars
<1>8. CASE ToolRenames
  <2>1. tool' \in ToolRecord /\ cache' \in Inodes \cup {Unopened}
    BY <1>8, NoFilesType DEF ToolRenames, ToolOff
  <2> QED
    BY <1>8, <2>1 DEF ToolRenames, ToolUnchanged, cdbVars, xmlVars, clientVars
<1>9. CASE ToolFails
  <2>1. tool' \in ToolRecord
    BY <1>9, NoFilesType DEF ToolFails, ToolOff
  <2> QED
    BY <1>9, <2>1 DEF ToolFails, ToolUnchanged, cdbVars, xmlVars, clientVars
<1> USE DEF ClientUnchanged, registryVars, toolVars
<1>10. CASE CreateCdbBackend
  BY <1>10 DEF CreateCdbBackend, xmlVars, watchVars
<1>11. CASE WatchDatabase
  BY <1>11 DEF WatchDatabase, xmlVars
<1>12. CASE RememberInode
  BY <1>12 DEF RememberInode, xmlVars, watchVars
<1>13. CASE OnDatabaseDirectoryChanged
  BY <1>13 DEF OnDatabaseDirectoryChanged, xmlVars
<1>14. CASE ReopenDatabase
  BY <1>14 DEF ReopenDatabase, xmlVars, watchVars
<1>15. CASE CreateXmlBackend
  BY <1>15, NoFilesType DEF CreateXmlBackend, Regenerate, Present, cdbVars
<1>16. CASE OnDirectoryChanged
  BY <1>16, NoFilesType DEF OnDirectoryChanged, Regenerate, Present, cdbVars, xmlVars
<1>17. CASE AddWatch
  BY <1>17 DEF AddWatch, Present, cdbVars
<1>18. CASE EndRegenerate
  BY <1>18 DEF EndRegenerate, cdbVars, xmlVars, watchVars
<1>19. ASSUME NEW i \in Infos,
              CreateInfo(i) \/ ReadDeclared(i) \/ ReadProviders(i) \/ OnKeyChanged(i)
       PROVE  DiskTypes'
  BY <1>19 DEF CreateInfo, ReadDeclared, ReadProviders, OnKeyChanged, InfoUnchanged,
               cdbVars, xmlVars, watchVars, clientVars
<1>20. CASE OpenRegistryInfo
  BY <1>20 DEF OpenRegistryInfo, InfoUnchanged, cdbVars, xmlVars, watchVars, clientVars
<1> QED
  BY <1>1, <1>2, <1>3, <1>4, <1>5, <1>6, <1>7, <1>8, <1>9, <1>10, <1>11, <1>12, <1>13, <1>14,
     <1>15, <1>16, <1>17, <1>18, <1>19, <1>20 DEF RegistryNext


LEMMA DatabaseInvInit == RegistryInit => DatabaseInv
BY RegistryAssumption DEF RegistryInit, DatabaseInv, EmptyDatabase, ToolOff

\* What happens in the client leaves the database alone; it opens the linked one.
LEMMA DatabaseInvClient ==
  ASSUME DatabaseInv, ClientUnchanged, reader' \in {reader, cache, Unopened}
  PROVE  DatabaseInv'
BY RegistryAssumption DEF DatabaseInv, ClientUnchanged, registryVars, toolVars

\* The reader of the client after one of its steps.
LEMMA ReaderNext ==
  ASSUME RegistryNext,
         ~ \E f \in Files : ChangeFile(f) \/ ToolReadsFile(f),
         ~ (ToolStarts \/ ToolMakesFile \/ ToolWrites \/ ToolRenames \/ ToolFails)
  PROVE  /\ ClientUnchanged
         /\ reader' \in {reader, cache, Unopened}
<1> USE DEF cdbVars, InfoUnchanged
<1>1. ASSUME NEW f \in Files, OnFileChanged(f) \/ ReadDeclarations(f)
      PROVE  ClientUnchanged /\ reader' \in {reader, cache, Unopened}
  BY <1>1 DEF OnFileChanged, ReadDeclarations
<1>2. CASE CreateCdbBackend \/ WatchDatabase \/ RememberInode \/ OnDatabaseDirectoryChanged
           \/ ReopenDatabase
  BY <1>2 DEF CreateCdbBackend, WatchDatabase, RememberInode, OnDatabaseDirectoryChanged,
              ReopenDatabase
<1>3. CASE CreateXmlBackend \/ OnDirectoryChanged \/ AddWatch \/ EndRegenerate
  BY <1>3 DEF CreateXmlBackend, OnDirectoryChanged, AddWatch, EndRegenerate
<1>4. ASSUME NEW i \in Infos,
             CreateInfo(i) \/ ReadDeclared(i) \/ ReadProviders(i) \/ OnKeyChanged(i)
      PROVE  ClientUnchanged /\ reader' \in {reader, cache, Unopened}
  BY <1>4 DEF CreateInfo, ReadDeclared, ReadProviders, OnKeyChanged
<1>5. CASE OpenRegistryInfo
  BY <1>5 DEF OpenRegistryInfo
<1> QED
  BY <1>1, <1>2, <1>3, <1>4, <1>5 DEF RegistryNext

LEMMA DatabaseInvNext ==
  ASSUME DiskTypes, DatabaseInv, RegistryNext
  PROVE  DatabaseInv'
<1> USE RegistryAssumption DEF DatabaseInv, ToolUnchanged, cdbVars
<1>1. ASSUME NEW f \in Files, ChangeFile(f) \/ ToolReadsFile(f) PROVE DatabaseInv'
  <2>1. tool'.at = tool.at /\ tool'.inode = tool.inode
    BY <1>1 DEF ChangeFile, ToolReadsFile, DiskTypes, ToolRecord
  <2> QED
    BY <1>1, <2>1 DEF ChangeFile, ToolReadsFile
<1>2. CASE ToolStarts
  BY <1>2 DEF ToolStarts, ToolOff
<1>3. CASE ToolMakesFile
  <2>1. PICK i \in Inodes : /\ InodeOfTemporary(i)
                            /\ tool' = [tool EXCEPT !.at = "writing", !.inode = i]
                            /\ disk' = [disk EXCEPT ![i] = NewDatabase]
    BY <1>3 DEF ToolMakesFile
  <2>2. i # cache /\ i # reader
    BY <2>1 DEF InodeOfTemporary, InUse
  <2>3. tool'.at = "writing" /\ tool'.inode = i
    BY <2>1 DEF DiskTypes, ToolRecord
  <2> QED
    BY <1>3, <2>1, <2>2, <2>3 DEF ToolMakesFile, DiskTypes
<1>4. CASE ToolWrites
  <2>1. tool'.at = "renaming" /\ tool'.inode = tool.inode
    BY <1>4 DEF ToolWrites, DiskTypes, ToolRecord
  <2>2. \A i \in Inodes : disk'[i].whole = (i = tool.inode \/ disk[i].whole)
    BY <1>4 DEF ToolWrites, DiskTypes, Database
  <2> QED
    BY <1>4, <2>1, <2>2 DEF ToolWrites, DiskTypes
<1>5. CASE ToolRenames
  BY <1>5 DEF ToolRenames, ToolOff
<1>6. CASE ToolFails
  BY <1>6 DEF ToolFails, ToolOff
<1> QED
  BY <1>1, <1>2, <1>3, <1>4, <1>5, <1>6, ReaderNext, DatabaseInvClient

\* The tool and the packages leave the client alone, except for its notices.
LEMMA ClientNext ==
  ASSUME \/ \E f \in Files : ChangeFile(f) \/ ToolReadsFile(f)
         \/ ToolStarts \/ ToolMakesFile \/ ToolWrites \/ ToolRenames \/ ToolFails
  PROVE  UNCHANGED <<cdbVars, xmlVars, directoryWatched, watched, clientVars, infoVars>>
BY DEF ChangeFile, ToolReadsFile, ToolStarts, ToolMakesFile, ToolWrites, ToolRenames, ToolFails,
       ToolUnchanged

-----------------------------------------------------------------------------
(* Where the client is, and what it knows                                  *)

LEMMA ListOfXml ==
  ASSUME backend = "xml"
  PROVE  ListKeys = {k \in Keys : DataOf(parsed)[k] # Undeclared}
BY DEF ListKeys, Answers

\* A new emission makes a client that knew the former keys know the present ones.
LEMMA EmissionInforms ==
  ASSUME NEW answers, NEW old, Emit(answers, old), tracked # Unopened => tracked = old
  PROVE  tracked' # Unopened => tracked' = {k \in Keys : answers[k] # Undeclared}
<1>1. tracked' = Applied(tracked, {k \in Keys : answers[k] # Undeclared}, old)
  BY DEF Emit
<1> QED
  BY <1>1, AppliedIsNow DEF Applied

LEMMA PlaceInvNext ==
  ASSUME DatabaseInv, PlaceInv, TrackedInv, RegistryNext, backend \in {"none", "cdb", "xml"}
  PROVE  PlaceInv' /\ TrackedInv'
<1> USE DEF PlaceInv, TrackedInv, cdbVars, xmlVars, watchVars, clientVars, infoVars,
            InfoUnchanged
<1>1. CASE \/ \E f \in Files : ChangeFile(f) \/ ToolReadsFile(f)
           \/ ToolStarts \/ ToolMakesFile \/ ToolWrites \/ ToolRenames \/ ToolFails
  <2>1. UNCHANGED <<backend, at, constructed, tracked, oldKeys, parsed>>
    BY <1>1, ClientNext
  <2>2. cache # Unopened => cache' # Unopened
    BY <1>1, RegistryAssumption DEF ChangeFile, ToolReadsFile, ToolStarts, ToolMakesFile,
       ToolWrites, ToolRenames, ToolFails, DatabaseInv
  <2> QED
    BY <2>1, <2>2, ListOfXml DEF ListKeys, Answers
<1> USE DEF ClientUnchanged, registryVars
<1>2. ASSUME NEW f \in Files, OnFileChanged(f) PROVE PlaceInv' /\ TrackedInv'
  BY <1>2 DEF OnFileChanged, Regenerate
<1>3. ASSUME NEW f \in Files, ReadDeclarations(f) PROVE PlaceInv' /\ TrackedInv'
  BY <1>3 DEF ReadDeclarations
<1>4. CASE CreateCdbBackend
  BY <1>4 DEF CreateCdbBackend
<1>5. CASE WatchDatabase \/ RememberInode \/ OnDatabaseDirectoryChanged
  BY <1>5 DEF WatchDatabase, RememberInode, OnDatabaseDirectoryChanged
<1>6. CASE ReopenDatabase
  BY <1>6 DEF ReopenDatabase
<1>7. CASE CreateXmlBackend
  BY <1>7 DEF CreateXmlBackend, Regenerate
<1>8. CASE OnDirectoryChanged
  <2>1. CASE Cardinality(Present(files)) = countOfFiles
    BY <1>8, <2>1, ListOfXml DEF OnDirectoryChanged, ListKeys, Answers
  <2>2. CASE Cardinality(Present(files)) # countOfFiles
    BY <1>8, <2>2 DEF OnDirectoryChanged, Regenerate
  <2> QED
    BY <2>1, <2>2
<1>9. CASE AddWatch
  BY <1>9 DEF AddWatch
<1>10. CASE EndRegenerate
  <2>1. backend = "xml" /\ backend' = "xml" /\ at' = "idle" /\ constructed'
    BY <1>10 DEF EndRegenerate
  <2>2. tracked' # Unopened => tracked' = {k \in Keys : DataOf(parsed)[k] # Undeclared}
    BY <1>10, <2>1, EmissionInforms DEF EndRegenerate, NoEmission
  <2>3. ListKeys' = {k \in Keys : DataOf(parsed)[k] # Undeclared}
    BY <1>10, <2>1 DEF EndRegenerate, ListKeys, Answers
  <2> QED
    BY <2>1, <2>2, <2>3
<1>11. ASSUME NEW i \in Infos,
              CreateInfo(i) \/ ReadDeclared(i) \/ ReadProviders(i) \/ OnKeyChanged(i)
       PROVE  PlaceInv' /\ TrackedInv'
  <2>1. UNCHANGED <<backend, at, constructed, tracked, oldKeys, parsed, cache>>
    BY <1>11 DEF CreateInfo, ReadDeclared, ReadProviders, OnKeyChanged
  <2> QED
    BY <2>1, ListOfXml DEF ListKeys, Answers
<1>12. CASE OpenRegistryInfo
  <2>1. UNCHANGED <<backend, at, constructed, oldKeys, parsed, cache>> /\ tracked' = ListKeys
    BY <1>12 DEF OpenRegistryInfo
  <2>2. at = "idle" /\ constructed
    BY <1>12 DEF OpenRegistryInfo
  <2> QED
    BY <2>1, <2>2, ListOfXml DEF ListKeys, Answers
<1> QED
  BY <1>1, <1>2, <1>3, <1>4, <1>5, <1>6, <1>7, <1>8, <1>9, <1>10, <1>11, <1>12 DEF RegistryNext

\* With the types of the files, the databases that are linked or open, and the keys
\* that a client knows in the middle of a reload (update-contextkit-providers.cpp,
\* CDBReader::reopen, InfoXmlBackend::regenerateKeyDataList): the inductive invariant.
THEOREM ReadInvariant == RegistrySpec => []ReadInv
<1>1. RegistryInit => ReadInv
  BY DiskTypesInit, DatabaseInvInit DEF RegistryInit, ReadInv, PlaceInv, TrackedInv
<1>2. ReadInv /\ [RegistryNext]_vars => ReadInv'
  <2> SUFFICES ASSUME ReadInv, [RegistryNext]_vars PROVE ReadInv'
    OBVIOUS
  <2>1. CASE RegistryNext
    BY <2>1, DiskTypesNext, DatabaseInvNext, PlaceInvNext DEF ReadInv, DiskTypes
  <2>2. CASE UNCHANGED vars
    BY <2>2 DEF vars, registryVars, toolVars, cdbVars, xmlVars, watchVars, clientVars, infoVars,
                ReadInv, DiskTypes, DatabaseInv, PlaceInv, TrackedInv, ListKeys, Answers,
                CdbAnswers
  <2> QED
    BY <2>1, <2>2
<1> QED
  BY <1>1, <1>2, PTL DEF RegistrySpec

\* A client that applies keysAdded and keysRemoved knows what listKeys() returns when
\* all notices are handled, whatever changes while the files are read
\* (checkAndEmitKeysAdded, checkAndEmitKeysRemoved).
THEOREM TrackedFollows == RegistrySpec => []XmlTrackedFollow
<1>1. ReadInv => XmlTrackedFollow
  BY DEF ReadInv, TrackedInv, XmlTrackedFollow, Settled
<1> QED
  BY <1>1, ReadInvariant, PTL

-----------------------------------------------------------------------------
(* A reader sees whole files that were current when it read them           *)

Stored == [p \in Files \cup {Cache} |-> IF p = Cache THEN SeenDatabase(cache) ELSE files[p]]
View   == [p \in Files \cup {Cache} |-> IF p = Cache THEN SeenDatabase(reader) ELSE parsed[p]]

LEMMA AbsentIsWhole == Absent # Torn
BY RegistryAssumption DEF Contents

LEMMA DatabasesAreWhole ==
  ASSUME DiskTypes, DatabaseInv
  PROVE  /\ \A i \in {cache, reader} : SeenDatabase(i) = IF i = Unopened THEN Absent ELSE disk[i]
         /\ SeenDatabase(cache) # Torn
BY RegistryAssumption, AbsentIsWhole DEF DiskTypes, DatabaseInv, SeenDatabase

LEMMA ReaderInit == RegistryInit => Reader!Init
<1> SUFFICES ASSUME RegistryInit PROVE Reader!Init
  OBVIOUS
<1>1. DiskTypes /\ DatabaseInv
  BY DiskTypesInit, DatabaseInvInit
<1>2. \A p \in Files \cup {Cache} : Stored[p] # Torn
  BY <1>1, DatabasesAreWhole, RegistryAssumption DEF Stored, DiskTypes
<1>3. View = [p \in Files \cup {Cache} |-> Absent]
  BY RegistryAssumption DEF RegistryInit, View, SeenDatabase, NoFiles
<1> QED
  BY <1>2, <1>3 DEF Reader!Init, Stored, View

\* A step that leaves what is linked and what is read alone is a stutter.
LEMMA ReaderStutters ==
  ASSUME DiskTypes, DatabaseInv, DatabaseInv', UNCHANGED <<files, parsed, cache, reader>>,
         \A i \in {cache, reader} \ {Unopened} : disk'[i] = disk[i]
  PROVE  UNCHANGED <<Stored, View>>
<1>1. SeenDatabase(cache)' = SeenDatabase(cache) /\ SeenDatabase(reader)' = SeenDatabase(reader)
  BY DEF SeenDatabase
<1> QED
  BY <1>1 DEF Stored, View

\* The databases in use are not written.
LEMMA DatabasesAreKept ==
  ASSUME DiskTypes, DatabaseInv, RegistryNext
  PROVE  \A i \in {cache, reader} \ {Unopened} : disk'[i] = disk[i]
<1>1. ASSUME \/ \E f \in Files : ChangeFile(f) \/ ToolReadsFile(f)
             \/ ToolStarts \/ ToolRenames \/ ToolFails
      PROVE  disk' = disk
  BY <1>1 DEF ChangeFile, ToolReadsFile, ToolStarts, ToolRenames, ToolFails
<1>2. CASE ToolMakesFile
  <2>1. PICK i \in Inodes : InodeOfTemporary(i) /\ disk' = [disk EXCEPT ![i] = NewDatabase]
    BY <1>2 DEF ToolMakesFile
  <2> QED
    BY <2>1 DEF InodeOfTemporary, InUse, DiskTypes
<1>3. CASE ToolWrites
  BY <1>3 DEF ToolWrites, DiskTypes, DatabaseInv
<1>4. ClientUnchanged => disk' = disk
  BY DEF ClientUnchanged, registryVars
<1> QED
  BY <1>1, <1>2, <1>3, <1>4, ReaderNext

LEMMA Publishes ==
  ASSUME NEW p \in Files \cup {Cache}, Stored'[p] # Torn, UNCHANGED View,
         \A q \in (Files \cup {Cache}) \ {p} : Stored'[q] = Stored[q]
  PROVE  Reader!Next
<1>1. Stored' = [Stored EXCEPT ![p] = Stored'[p]]
  BY DEF Stored
<1>2. Reader!Publish(p)
  BY <1>1 DEF Reader!Publish, Stored, View
<1> QED
  BY <1>2 DEF Reader!Next

LEMMA Reads ==
  ASSUME NEW p \in Files \cup {Cache}, View'[p] = Stored[p], UNCHANGED Stored,
         \A q \in (Files \cup {Cache}) \ {p} : View'[q] = View[q]
  PROVE  Reader!Next
<1>1. View' = [View EXCEPT ![p] = Stored[p]]
  BY DEF View
<1>2. Reader!Read(p)
  BY <1>1 DEF Reader!Read, Stored, View
<1> QED
  BY <1>2 DEF Reader!Next

LEMMA Forgets ==
  ASSUME UNCHANGED Stored, \A p \in Files \cup {Cache} : View'[p] \in {View[p], Absent}
  PROVE  Reader!Next
BY DEF Reader!Next, Reader!Forget, Stored, View

LEMMA ReaderSteps ==
  ASSUME ReadInv, ReadInv', RegistryNext
  PROVE  Reader!Next \/ UNCHANGED <<Stored, View>>
<1> USE DEF ReadInv, cdbVars, xmlVars, watchVars, clientVars, infoVars, InfoUnchanged
<1> DEFINE Same == \A i \in {cache, reader} \ {Unopened} : disk'[i] = disk[i]
<1>0. Same
  BY DatabasesAreKept
<1>1. ASSUME NEW f \in Files, ChangeFile(f) PROVE Reader!Next
  <2>1. Stored'[f] = files'[f] /\ files'[f] # Torn
    BY RegistryAssumption DEF Stored, DiskTypes
  <2>2. UNCHANGED <<cache, disk, reader, parsed>> /\ \A g \in Files \ {f} : files'[g] = files[g]
    BY <1>1 DEF ChangeFile, DiskTypes
  <2>3. UNCHANGED View /\ \A q \in (Files \cup {Cache}) \ {f} : Stored'[q] = Stored[q]
    BY <2>2, RegistryAssumption DEF Stored, View, SeenDatabase
  <2> QED
    BY <2>1, <2>3, Publishes
<1>2. CASE \/ \E f \in Files : ToolReadsFile(f)
           \/ ToolStarts \/ ToolMakesFile \/ ToolWrites \/ ToolFails
  <2>1. UNCHANGED <<files, parsed, cache, reader>>
    BY <1>2 DEF ToolReadsFile, ToolStarts, ToolMakesFile, ToolWrites, ToolFails, ToolUnchanged
  <2> QED
    BY <1>0, <2>1, ReaderStutters
<1>3. CASE ToolRenames
  <2>1. UNCHANGED <<files, parsed, reader>>
    BY <1>3 DEF ToolRenames, ToolUnchanged
  <2>2. SeenDatabase(reader)' = SeenDatabase(reader)
    BY <1>0, <2>1 DEF SeenDatabase
  <2>3. UNCHANGED View
    BY <2>1, <2>2 DEF View
  <2>4. (SeenDatabase(cache) # Torn)'
    BY DatabasesAreWhole, PTL
  <2>5. Stored'[Cache] # Torn /\ \A q \in Files : Stored'[q] = Stored[q]
    BY <2>1, <2>4, RegistryAssumption DEF Stored
  <2> QED
    BY <2>3, <2>5, Publishes
<1>4. CASE CreateCdbBackend \/ ReopenDatabase
  <2>1. UNCHANGED <<files, parsed, cache, disk>> /\ reader' = cache
    BY <1>4 DEF CreateCdbBackend, ReopenDatabase, ClientUnchanged, registryVars
  <2>2. /\ UNCHANGED Stored /\ View'[Cache] = Stored[Cache]
        /\ \A q \in Files : View'[q] = View[q]
    BY <2>1, RegistryAssumption DEF Stored, View, SeenDatabase
  <2> QED
    BY <2>2, Reads
<1>5. ASSUME NEW f \in Files, ReadDeclarations(f) PROVE Reader!Next
  <2>1. UNCHANGED <<files, cache, disk, reader>> /\ parsed' = [parsed EXCEPT ![f] = files[f]]
    BY <1>5 DEF ReadDeclarations, ClientUnchanged, registryVars
  <2>2. /\ UNCHANGED Stored /\ View'[f] = Stored[f]
        /\ \A q \in (Files \cup {Cache}) \ {f} : View'[q] = View[q]
    BY <2>1, RegistryAssumption DEF Stored, View, SeenDatabase, DiskTypes
  <2> QED
    BY <2>2, Reads
<1>6. ASSUME UNCHANGED <<files, cache, disk>>, reader' \in {reader, Unopened},
             parsed' \in {parsed, NoFiles}
      PROVE  Reader!Next
  <2>1. UNCHANGED Stored
    BY <1>6 DEF Stored, SeenDatabase
  <2>2. \A p \in Files \cup {Cache} : View'[p] \in {View[p], Absent}
    BY <1>6 DEF View, SeenDatabase, NoFiles
  <2> QED
    BY <2>1, <2>2, Forgets
<1>7. ASSUME \/ \E f \in Files : OnFileChanged(f)
             \/ WatchDatabase \/ RememberInode \/ OnDatabaseDirectoryChanged
             \/ CreateXmlBackend \/ OnDirectoryChanged \/ AddWatch \/ EndRegenerate
      PROVE  /\ UNCHANGED <<files, cache, disk>>
             /\ reader' \in {reader, Unopened} /\ parsed' \in {parsed, NoFiles}
  BY <1>7 DEF OnFileChanged, WatchDatabase, RememberInode, OnDatabaseDirectoryChanged,
       CreateXmlBackend, OnDirectoryChanged, AddWatch, EndRegenerate, Regenerate,
       ClientUnchanged, registryVars
<1>8. ASSUME \/ \E i \in Infos : \/ CreateInfo(i) \/ ReadDeclared(i)
                                 \/ ReadProviders(i) \/ OnKeyChanged(i)
             \/ OpenRegistryInfo
      PROVE  UNCHANGED <<files, cache, disk, reader, parsed>>
  BY <1>8 DEF CreateInfo, ReadDeclared, ReadProviders, OnKeyChanged, OpenRegistryInfo,
       ClientUnchanged, registryVars
<1> QED
  BY <1>1, <1>2, <1>3, <1>4, <1>5, <1>6, <1>7, <1>8 DEF RegistryNext

\* Whatever part of the registry a client knows was whole and current when it was read:
\* the tool writes where nobody reads and replaces the database by a rename, and a
\* reader that is open keeps the database it opened (update-contextkit-providers.cpp,
\* CDBReader::reopen).
THEOREM ReadersSeeWhole == RegistrySpec => ImplementsReader
<1>1. ReadInv /\ ReadInv' /\ [RegistryNext]_vars => [Reader!Next]_(Reader!readerVars)
  <2> SUFFICES ASSUME ReadInv, ReadInv', [RegistryNext]_vars
               PROVE  Reader!Next \/ UNCHANGED <<Stored, View>>
    BY DEF Reader!readerVars, Stored, View
  <2>1. CASE UNCHANGED vars
    BY <2>1 DEF vars, registryVars, cdbVars, xmlVars, Stored, View, SeenDatabase
  <2> QED
    BY <2>1, ReaderSteps
<1>2. RegistryInit => Reader!Init
  BY ReaderInit
<1> QED
  BY <1>1, <1>2, ReadInvariant, PTL DEF RegistrySpec, ImplementsReader, Reader!Spec

-----------------------------------------------------------------------------
(* Changes are followed, if no file changes while the client reads files   *)

LEMMA FilesAreFinite ==
  ASSUME NEW fs
  PROVE  IsFiniteSet(Present(fs)) /\ Cardinality(Present(fs)) \in Nat
BY RegistryAssumption, FS_Subset, FS_CardinalityType DEF Present

LEMMA CompileInvNext == ASSUME ReadInv, CompileInv, RegistryNext PROVE CompileInv'
<1> USE DEF CompileInv, ReadInv
<1>1. ASSUME NEW f \in Files, ChangeFile(f) PROVE CompileInv'
  BY <1>1 DEF ChangeFile
<1>2. ASSUME NEW f \in Files, ToolReadsFile(f) PROVE CompileInv'
  <2>1. /\ tool'.at = "reading" /\ tool'.todo = tool.todo \ {f}
        /\ tool'.parsed = [tool.parsed EXCEPT ![f] = files[f]]
    BY <1>2 DEF ToolReadsFile, DiskTypes, ToolRecord
  <2>2. UNCHANGED <<files, dirty>> /\ tool.at = "reading" /\ tool.parsed \in [Files -> Contents]
    BY <1>2 DEF ToolReadsFile, ToolUnchanged, DiskTypes, ToolRecord
  <2> QED
    BY <2>1, <2>2
<1>3. CASE ToolStarts
  <2>1. tool'.at = "reading" /\ tool'.todo = Present(files) /\ tool'.parsed = NoFiles
    BY <1>3 DEF ToolStarts, ToolOff
  <2>2. \A f \in Files \ Present(files) : NoFiles[f] = files[f]
    BY DEF Present, NoFiles
  <2> QED
    BY <1>3, <2>1, <2>2 DEF ToolStarts, ToolUnchanged
<1>4. CASE ToolMakesFile
  <2>1. tool'.at = "writing" /\ tool'.parsed = tool.parsed
    BY <1>4 DEF ToolMakesFile, DiskTypes, ToolRecord
  <2>2. tool.at = "reading" /\ tool.todo = {} /\ UNCHANGED <<files, dirty>>
    BY <1>4 DEF ToolMakesFile, ToolUnchanged
  <2>3. ~dirty => tool.parsed = files
    BY <2>2 DEF DiskTypes, ToolRecord
  <2> QED
    BY <2>1, <2>2, <2>3
<1>5. CASE ToolWrites
  <2>1. tool'.at = "renaming" /\ tool'.inode = tool.inode /\ tool.inode \in Inodes
    BY <1>5 DEF ToolWrites, DiskTypes, ToolRecord, DatabaseInv
  <2>2. disk'[tool.inode].data = DataOf(tool.parsed)
    BY <1>5, <2>1 DEF ToolWrites, DiskTypes
  <2> QED
    BY <1>5, <2>1, <2>2 DEF ToolWrites, ToolUnchanged
<1>6. CASE ToolRenames
  BY <1>6 DEF ToolRenames, ToolUnchanged, ToolOff
<1>7. CASE ToolFails
  BY <1>7 DEF ToolFails
<1>8. ClientUnchanged => CompileInv'
  BY DEF ClientUnchanged, registryVars, toolVars
<1> QED
  BY <1>1, <1>2, <1>3, <1>4, <1>5, <1>6, <1>7, <1>8, ReaderNext DEF RegistryNext

LEMMA CdbInvNext ==
  ASSUME ~ChangesDuringReads, ReadInv, CdbInv, RegistryNext
  PROVE  CdbInv'
<1> USE DEF CdbInv, ReadInv, PlaceInv, cdbVars, xmlVars, watchVars, clientVars, infoVars
<1>0. reader' = reader => Compatible(reader)' = Compatible(reader)
  BY DatabasesAreKept DEF Compatible
<1>1. CASE \/ \E f \in Files : ChangeFile(f) \/ ToolReadsFile(f)
           \/ ToolStarts \/ ToolWrites \/ ToolFails
  <2>1. UNCHANGED <<cdbVars, directoryWatched, clientVars, cache>>
    BY <1>1 DEF ChangeFile, ToolReadsFile, ToolStarts, ToolWrites, ToolFails, ToolUnchanged
  <2>2. directoryNotice => directoryNotice'
    BY <1>1 DEF ChangeFile, ToolReadsFile, ToolStarts, ToolWrites, ToolFails
  <2> QED
    BY <1>0, <2>1, <2>2
<1>2. CASE ToolMakesFile \/ ToolRenames
  <2>1. UNCHANGED <<cdbVars, directoryWatched, clientVars>> /\ directoryNotice' = directoryWatched
    BY <1>2 DEF ToolMakesFile, ToolRenames, ToolUnchanged, NoticeDirectory
  <2>2. cache' = cache \/ (cache' \in Inodes /\ at = "idle")
    BY <1>2 DEF ToolMakesFile, ToolRenames, MayChange, ClientReads, DatabaseInv
  <2> QED
    BY <1>0, <2>1, <2>2
<1> USE DEF ClientUnchanged, registryVars
<1>3. ASSUME NEW f \in Files, OnFileChanged(f) \/ ReadDeclarations(f) PROVE CdbInv'
  BY <1>3 DEF OnFileChanged, ReadDeclarations
<1>4. CASE CreateCdbBackend
  BY <1>4 DEF CreateCdbBackend
<1>5. CASE WatchDatabase
  BY <1>5, <1>0 DEF WatchDatabase
<1>6. CASE RememberInode
  BY <1>6, <1>0 DEF RememberInode
<1>7. CASE OnDatabaseDirectoryChanged
  BY <1>7, <1>0 DEF OnDatabaseDirectoryChanged
<1>8. CASE ReopenDatabase
  <2>1. reader' = cache /\ cache' = cache /\ disk' = disk /\ at' = "idle"
    BY <1>8 DEF ReopenDatabase
  <2>2. backend = "cdb" => databaseCompatible' = Compatible(reader)'
    BY <1>8, <2>1 DEF ReopenDatabase, Compatible
  <2> QED
    BY <1>8, <2>1, <2>2 DEF ReopenDatabase
<1>9. CASE CreateXmlBackend \/ OnDirectoryChanged \/ AddWatch \/ EndRegenerate
  BY <1>9 DEF CreateXmlBackend, OnDirectoryChanged, AddWatch, EndRegenerate
<1>10. CASE \/ \E i \in Infos : \/ CreateInfo(i) \/ ReadDeclared(i)
                                \/ ReadProviders(i) \/ OnKeyChanged(i)
            \/ OpenRegistryInfo
  <2>1. UNCHANGED <<cdbVars, watchVars, clientVars, cache>>
    BY <1>10 DEF CreateInfo, ReadDeclared, ReadProviders, OnKeyChanged, OpenRegistryInfo,
                 InfoUnchanged
  <2> QED
    BY <1>0, <2>1
<1> QED
  BY <1>1, <1>2, <1>3, <1>4, <1>5, <1>6, <1>7, <1>8, <1>9, <1>10 DEF RegistryNext

\* regenerateKeyDataList begins with nothing parsed and nothing watched.
LEMMA XmlInvRegenerates ==
  ASSUME Regenerate, UNCHANGED files, directoryWatched'
  PROVE  XmlInv'
<1>1. /\ parsed' = NoFiles /\ countOfFiles' = 0 /\ watched' = {}
      /\ todo' = Present(files) /\ at' = "reading"
  BY DEF Regenerate, CountAtStart
<1>2. Cardinality({}) = 0
  BY FS_EmptySet
<1>3. \A f \in Files \ Present(files) : NoFiles[f] = files[f]
  BY DEF Present, NoFiles
<1> QED
  BY <1>1, <1>2, <1>3 DEF XmlInv, Present

LEMMA XmlInvNext ==
  ASSUME ~ChangesDuringReads, ReadInv, XmlInv, RegistryNext
  PROVE  XmlInv'
<1> USE DEF ReadInv, PlaceInv, cdbVars, xmlVars, clientVars
<1>1. ASSUME NEW f \in Files, ChangeFile(f) PROVE XmlInv'
  <2>1. /\ UNCHANGED <<xmlVars, directoryWatched, watched, clientVars>> /\ at = "idle"
        /\ fileNotices' = fileNotices \cup ({f} \cap watched)
        /\ \A g \in Files \ {f} : files'[g] = files[g]
    BY <1>1 DEF ChangeFile, MayChange, ClientReads, DiskTypes
  <2>2. ASSUME directoryWatched, ~directoryNotice'
        PROVE  ~directoryNotice /\ Present(files') = Present(files)
    <3>1. (files'[f] = Absent) = (files[f] = Absent) /\ ~directoryNotice
      BY <1>1, <2>2 DEF ChangeFile, DiskTypes
    <3> QED
      BY <2>1, <3>1 DEF Present
  <2> QED
    BY <2>1, <2>2 DEF XmlInv, Present
<1>2. CASE \/ \E f \in Files : ToolReadsFile(f)
           \/ ToolStarts \/ ToolMakesFile \/ ToolWrites \/ ToolRenames \/ ToolFails
  <2>1. UNCHANGED <<xmlVars, directoryWatched, fileNotices, watched, clientVars, files>>
    BY <1>2 DEF ToolReadsFile, ToolStarts, ToolMakesFile, ToolWrites, ToolRenames, ToolFails,
                ToolUnchanged
  <2>2. directoryNotice' \in {directoryNotice, directoryWatched}
    BY <1>2 DEF ToolReadsFile, ToolStarts, ToolMakesFile, ToolWrites, ToolRenames, ToolFails,
                NoticeDirectory
  <2> QED
    BY <2>1, <2>2 DEF XmlInv, Present
<1> USE DEF ClientUnchanged, registryVars
<1>3. ASSUME NEW f \in Files, OnFileChanged(f) PROVE XmlInv'
  BY <1>3, XmlInvRegenerates DEF OnFileChanged, XmlInv
<1>4. CASE CreateXmlBackend
  BY <1>4, XmlInvRegenerates DEF CreateXmlBackend
<1>5. CASE OnDirectoryChanged
  <2>1. CASE Cardinality(Present(files)) = countOfFiles
    <3>1. UNCHANGED <<xmlVars, fileNotices, watched, at, files, directoryWatched, backend>>
      BY <1>5, <2>1 DEF OnDirectoryChanged
    <3> QED
      BY <1>5, <2>1, <3>1 DEF OnDirectoryChanged, XmlInv, Present
  <2>2. CASE Cardinality(Present(files)) # countOfFiles
    BY <1>5, <2>2, XmlInvRegenerates DEF OnDirectoryChanged, XmlInv
  <2> QED
    BY <2>1, <2>2
<1>6. ASSUME NEW f \in Files, ReadDeclarations(f) PROVE XmlInv'
  BY <1>6 DEF ReadDeclarations, watchVars, XmlInv, DiskTypes, Present
<1>7. CASE AddWatch
  <2>1. /\ backend' = backend /\ backend # "cdb" /\ backend # "none" /\ at = "adding"
        /\ at' = "reading"
    BY <1>7 DEF AddWatch
  <2> SUFFICES ASSUME backend = "xml" PROVE XmlInv'
    BY <2>1 DEF XmlInv
  <2>2. current \in todo /\ current \in Present(files) /\ current \notin watched
    BY <2>1 DEF XmlInv
  <2>3. /\ watched' = watched \cup {current} /\ todo' = todo \ {current}
        /\ countOfFiles' = countOfFiles + 1
        /\ UNCHANGED <<files, parsed, directoryWatched>>
    BY <1>7, <2>2 DEF AddWatch, WatchAgain
  <2>4. countOfFiles' = Cardinality(watched')
    <3>1. IsFiniteSet(watched)
      BY RegistryAssumption, FS_Subset DEF DiskTypes
    <3> QED
      BY <2>2, <2>3, <3>1, FS_AddElement DEF XmlInv
  <2> QED
    BY <2>1, <2>2, <2>3, <2>4 DEF XmlInv, Present
<1>8. CASE EndRegenerate
  <2>1. /\ at = "reading" /\ todo = {} /\ at' = "idle" /\ backend' = backend
        /\ UNCHANGED <<files, xmlVars, watchVars>>
    BY <1>8 DEF EndRegenerate
  <2>2. backend = "xml" => parsed = files /\ watched = Present(files)
    BY <2>1 DEF XmlInv, DiskTypes
  <2> QED
    BY <2>1, <2>2 DEF XmlInv, watchVars, Present
<1>9. CASE CreateCdbBackend \/ WatchDatabase \/ RememberInode \/ OnDatabaseDirectoryChanged
           \/ ReopenDatabase
  BY <1>9 DEF CreateCdbBackend, WatchDatabase, RememberInode, OnDatabaseDirectoryChanged,
              ReopenDatabase, XmlInv
<1>10. CASE \/ \E i \in Infos : \/ CreateInfo(i) \/ ReadDeclared(i)
                                \/ ReadProviders(i) \/ OnKeyChanged(i)
            \/ OpenRegistryInfo
  <2>1. UNCHANGED <<xmlVars, watchVars, clientVars, files>>
    BY <1>10 DEF CreateInfo, ReadDeclared, ReadProviders, OnKeyChanged, OpenRegistryInfo,
                 InfoUnchanged
  <2> QED
    BY <2>1 DEF XmlInv, Present, watchVars
<1> QED
  BY <1>1, <1>2, <1>3, <1>4, <1>5, <1>6, <1>7, <1>8, <1>9, <1>10 DEF RegistryNext

LEMMA FollowInvariant ==
  ASSUME ~ChangesDuringReads
  PROVE  RegistrySpec => []FollowInv
<1>1. RegistryInit => FollowInv
  <2> SUFFICES ASSUME RegistryInit PROVE FollowInv
    OBVIOUS
  <2>1. cache # Unopened => disk[cache].data = DataOf(files)
    BY DEF RegistryInit, EmptyDatabase
  <2>2. CompileInv
    BY <2>1 DEF RegistryInit, CompileInv, ToolOff
  <2> QED
    BY <2>2 DEF RegistryInit, FollowInv, CdbInv, XmlInv
<1>2. ReadInv /\ FollowInv /\ [RegistryNext]_vars => FollowInv'
  <2> SUFFICES ASSUME ReadInv, FollowInv, [RegistryNext]_vars PROVE FollowInv'
    OBVIOUS
  <2>1. CASE RegistryNext
    BY <2>1, CompileInvNext, CdbInvNext, XmlInvNext DEF FollowInv
  <2>2. CASE UNCHANGED vars
    BY <2>2 DEF vars, registryVars, toolVars, cdbVars, xmlVars, watchVars, clientVars, infoVars,
                FollowInv, CompileInv, CdbInv, XmlInv, Compatible, Present
  <2> QED
    BY <2>1, <2>2
<1> QED
  BY <1>1, <1>2, ReadInvariant, PTL DEF RegistrySpec

\* If no file changes while a client reads the registry, then a client that has handled
\* all its notices has the present files, or the present database: comparing numbers of
\* files and inodes misses nothing (infoxmlbackend.cpp, onDirectoryChanged and
\* onFileChanged; infocdbbackend.cpp, onDatabaseDirectoryChanged).
THEOREM AnswersCurrent ==
  ASSUME ~ChangesDuringReads
  PROVE  RegistrySpec => []AnswersAreCurrent
<1>1. ASSUME ReadInv, FollowInv, Settled, backend = "xml" PROVE parsed = files
  <2>1. /\ watched = Present(parsed)
        /\ \A f \in watched : parsed[f] = files[f]
        /\ Cardinality(Present(files)) = Cardinality(Present(parsed))
    BY <1>1 DEF FollowInv, XmlInv, Settled
  <2>2. Present(parsed) \subseteq Present(files)
    BY <2>1 DEF Present
  <2>3. Present(parsed) = Present(files)
    BY <2>1, <2>2, FilesAreFinite, FS_Subset
  <2>4. \A f \in Files : parsed[f] = files[f]
    BY <2>1, <2>3 DEF Present
  <2> QED
    BY <1>1, <2>4 DEF ReadInv, DiskTypes
<1>2. ReadInv /\ FollowInv => AnswersAreCurrent
  BY <1>1 DEF AnswersAreCurrent, FollowInv, CdbInv, Settled
<1> QED
  BY <1>2, ReadInvariant, FollowInvariant, PTL

\* If no file changes while a client reads the registry, then a client of the database
\* answers what the declaration files say once update-contextkit-providers has run after
\* the last change, however many of its runs have failed and whatever versions they had.
THEOREM CompiledSeen ==
  ASSUME ~ChangesDuringReads
  PROVE  RegistrySpec => []CompiledIsSeen
<1>1. ASSUME ReadInv, FollowInv, Settled, backend = "cdb", ~dirty, tool.at = "off"
      PROVE  Answers = IF disk[cache].ours THEN DataOf(files) ELSE NoData
  <2>1. /\ reader = cache /\ cache # Unopened /\ databaseCompatible = Compatible(cache)
        /\ disk[cache].data = DataOf(files)
    BY <1>1 DEF FollowInv, CdbInv, CompileInv, Settled
  <2>2. disk[cache].whole
    BY <1>1, <2>1 DEF ReadInv, DatabaseInv
  <2> QED
    BY <1>1, <2>1, <2>2 DEF Answers, CdbAnswers, Compatible
<1>2. ReadInv /\ FollowInv => CompiledIsSeen
  BY <1>1 DEF CompiledIsSeen
<1> QED
  BY <1>2, ReadInvariant, FollowInvariant, PTL

-----------------------------------------------------------------------------
(* Info objects follow the declaration files                               *)

\* What an info object has read so far agrees with an answer for its key.
AgreesWith(object, answer) ==
  /\ object.at \in {"providers", "idle"} => object.declared = (answer # Undeclared)
  /\ object.at = "idle" => object.providers = ProvidersIn(answer)

InfoRecord == [at : {"none", "declared", "providers", "idle"}, declared : BOOLEAN,
               providers : SUBSET Files]

\* While the files are read, only infos that will be told may be wrong: if the key is
\* neither a former key nor declared so far, they say that it is undeclared.
InfoInv ==
  /\ info \in [Infos -> InfoRecord]
  /\ ~constructed => posted = {} /\ \A i \in Infos : info[i].at = "none"
  /\ backend = "xml" =>
       /\ at = "idle" => \A i \in Infos \ posted : AgreesWith(info[i], DataOf(parsed)[infoKey])
       /\ at # "idle" /\ infoKey \notin oldKeys /\ DataOf(parsed)[infoKey] = Undeclared =>
            \A i \in Infos \ posted : AgreesWith(info[i], Undeclared)
       /\ at = "reading" => \A f \in todo : parsed[f] = Absent
       /\ at = "adding" => \A f \in todo \ {current} : parsed[f] = Absent

LEMMA AnswersType ==
  ASSUME DiskTypes
  PROVE  Answers \in Data
<1>1. NoData \in Data
  BY DEF NoData, Data
<1>2. CdbAnswers \in Data
  BY <1>1 DEF CdbAnswers, DiskTypes, Database
<1> QED
  BY <1>1, <1>2, DataOfType DEF Answers

LEMMA ShownType ==
  ASSUME NEW answer \in {Undeclared} \cup SUBSET Files
  PROVE  /\ Shown(answer) \in InfoRecord
         /\ ProvidersIn(answer) \in SUBSET Files
BY DEF Shown, ProvidersIn, InfoRecord

\* A file that is read for the first time takes no declaration away.
LEMMA ReadingAdds ==
  ASSUME DiskTypes, NEW f \in Files, parsed[f] = Absent,
         parsed' = [parsed EXCEPT ![f] = files[f]], NEW k \in Keys,
         DataOf(parsed')[k] = Undeclared
  PROVE  DataOf(parsed)[k] = Undeclared
<1>1. Declares(parsed, k) \subseteq Declares(parsed', k)
  BY DEF Declares, Present, DiskTypes
<1>2. Declares(parsed', k) \in SUBSET Files
  BY DEF Declares, Present
<1> QED
  BY <1>1, <1>2, RegistryAssumption DEF DataOf

LEMMA EmissionTypes ==
  ASSUME NEW answers \in Data, NEW old, Emit(answers, old), info \in [Infos -> InfoRecord]
  PROVE  info' \in [Infos -> InfoRecord]
<1>1. answers[infoKey] \in {Undeclared} \cup SUBSET Files
  BY RegistryAssumption DEF Data
<1>2. Shown(answers[infoKey]) \in InfoRecord
  BY <1>1, ShownType
<1> QED
  BY <1>2 DEF Emit

\* Every connected info is told, or posted to, when its key is or was declared.
LEMMA EmissionReaches ==
  ASSUME NEW answers \in Data, NEW old, Emit(answers, old), info \in [Infos -> InfoRecord],
         infoKey \notin old /\ answers[infoKey] = Undeclared =>
            \A i \in Infos \ posted : AgreesWith(info[i], Undeclared)
  PROVE  \A i \in Infos \ posted' : AgreesWith(info'[i], answers[infoKey])
<1> DEFINE now == {k \in Keys : answers[k] # Undeclared}
<1>1. CASE infoKey \in now \cup old
  <2>1. /\ posted' = posted \cup (ConnectedInfos \ MainInfos)
        /\ \A i \in Infos : info'[i] = IF i \in ConnectedInfos \cap MainInfos
                                       THEN Shown(answers[infoKey]) ELSE info[i]
    BY <1>1 DEF Emit
  <2>2. TAKE i \in Infos \ posted'
  <2>3. CASE i \in ConnectedInfos
    BY <2>1, <2>2, <2>3 DEF Shown, AgreesWith
  <2>4. CASE i \notin ConnectedInfos
    BY <2>1, <2>2, <2>4 DEF ConnectedInfos, AgreesWith
  <2> QED
    BY <2>3, <2>4
<1>2. CASE infoKey \notin now \cup old
  <2>1. answers[infoKey] = Undeclared /\ infoKey \notin old
    BY <1>2, RegistryAssumption
  <2>2. posted' = posted /\ \A i \in Infos : info'[i] = info[i]
    BY <1>2 DEF Emit
  <2> QED
    BY <2>1, <2>2 DEF AgreesWith
<1> QED
  BY <1>1, <1>2

LEMMA InfoInvRegenerates ==
  ASSUME InfoInv, Regenerate, UNCHANGED <<info, posted, constructed>>,
         backend = "xml" \/ ~constructed, backend = "xml" => at = "idle"
  PROVE  InfoInv'
<1>1. /\ oldKeys' = ListKeys /\ at' = "reading" /\ parsed' = NoFiles
      /\ todo' \subseteq Files
  BY DEF Regenerate, Present
<1>2. \A f \in Files : NoFiles[f] = Absent
  BY DEF NoFiles
<1>3. ASSUME backend = "xml", infoKey \notin oldKeys', NEW i \in Infos \ posted
      PROVE  AgreesWith(info'[i], Undeclared)
  <2>1. DataOf(parsed)[infoKey] = Undeclared
    BY <1>1, <1>3, ListOfXml, RegistryAssumption
  <2> QED
    BY <1>3, <2>1 DEF InfoInv, AgreesWith
<1>4. ASSUME ~constructed, NEW i \in Infos PROVE AgreesWith(info'[i], Undeclared)
  BY <1>4 DEF InfoInv, AgreesWith
<1> QED
  BY <1>1, <1>2, <1>3, <1>4 DEF InfoInv

\* The client of the files never waits at a place of InfoCdbBackend.
LEMMA InfoInvNext == ASSUME ReadInv, InfoInv, RegistryNext PROVE InfoInv'
<1> USE DEF ReadInv, PlaceInv, cdbVars, xmlVars, watchVars, clientVars, infoVars
<1>0. Answers[infoKey] \in {Undeclared} \cup SUBSET Files
  BY AnswersType, RegistryAssumption DEF Data
<1>1. CASE \/ \E f \in Files : ChangeFile(f) \/ ToolReadsFile(f)
           \/ ToolStarts \/ ToolMakesFile \/ ToolWrites \/ ToolRenames \/ ToolFails
  BY <1>1, ClientNext DEF InfoInv, AgreesWith
<1>2. ASSUME \/ \E f \in Files : OnFileChanged(f)
             \/ CreateXmlBackend
             \/ OnDirectoryChanged /\ Cardinality(Present(files)) # countOfFiles
      PROVE  InfoInv'
  BY <1>2, InfoInvRegenerates DEF OnFileChanged, CreateXmlBackend, OnDirectoryChanged
<1>3. CASE OnDirectoryChanged /\ Cardinality(Present(files)) = countOfFiles
  BY <1>3 DEF OnDirectoryChanged, InfoInv, AgreesWith
<1>4. ASSUME NEW f \in Files, ReadDeclarations(f) PROVE InfoInv'
  <2>1. /\ at = "reading" /\ f \in todo /\ at' = "adding" /\ current' = f /\ backend' = backend
        /\ parsed' = [parsed EXCEPT ![f] = files[f]]
        /\ UNCHANGED <<todo, oldKeys, info, posted, constructed>>
    BY <1>4 DEF ReadDeclarations
  <2>2. ASSUME backend = "xml", DataOf(parsed')[infoKey] = Undeclared
        PROVE  DataOf(parsed)[infoKey] = Undeclared
    BY <2>1, <2>2, ReadingAdds, RegistryAssumption DEF InfoInv
  <2>3. ASSUME backend = "xml" PROVE \A g \in todo \ {f} : parsed'[g] = Absent
    BY <2>1, <2>3 DEF InfoInv, DiskTypes
  <2> QED
    BY <2>1, <2>2, <2>3 DEF InfoInv, AgreesWith
<1>5. CASE AddWatch
  BY <1>5 DEF AddWatch, InfoInv, AgreesWith
<1>6. CASE EndRegenerate
  <2>1. /\ backend = "xml" /\ at = "reading" /\ at' = "idle" /\ constructed'
        /\ UNCHANGED <<backend, parsed>>
    BY <1>6 DEF EndRegenerate, DiskTypes
  <2>2. CASE constructed
    <3>1. Emit(DataOf(parsed), oldKeys)
      BY <1>6, <2>2 DEF EndRegenerate
    <3>2. info' \in [Infos -> InfoRecord]
      BY <3>1, DataOfType, EmissionTypes DEF InfoInv
    <3>3. \A i \in Infos \ posted' : AgreesWith(info'[i], DataOf(parsed)[infoKey])
      <4>1. infoKey \notin oldKeys /\ DataOf(parsed)[infoKey] = Undeclared =>
              \A i \in Infos \ posted : AgreesWith(info[i], Undeclared)
        BY <2>1 DEF InfoInv
      <4>2. \A i \in Infos \ posted' : AgreesWith(info'[i], DataOf(parsed)[infoKey])
        BY <3>1, <4>1, DataOfType, EmissionReaches DEF InfoInv
      <4> QED
        BY <2>1, <4>2 DEF AgreesWith
    <3> QED
      BY <2>1, <3>2, <3>3 DEF InfoInv, AgreesWith
  <2>3. CASE ~constructed
    BY <1>6, <2>1, <2>3 DEF EndRegenerate, NoEmission, InfoInv, AgreesWith
  <2> QED
    BY <2>2, <2>3
<1>7. CASE CreateCdbBackend \/ WatchDatabase \/ RememberInode \/ OnDatabaseDirectoryChanged
  BY <1>7 DEF CreateCdbBackend, WatchDatabase, RememberInode, OnDatabaseDirectoryChanged, InfoInv
<1>8. CASE ReopenDatabase
  <2>1. backend' = "cdb" /\ constructed' = constructed
    BY <1>8 DEF ReopenDatabase, DiskTypes
  <2>2. CASE connectCount = 0
    BY <1>8, <2>1, <2>2 DEF ReopenDatabase, NoEmission, InfoInv
  <2>3. CASE connectCount # 0
    <3> DEFINE answers == IF databaseCompatible' /\ disk[cache].whole THEN disk[cache].data
                          ELSE NoData
    <3>1. Emit(answers, oldKeys)
      BY <1>8, <2>3 DEF ReopenDatabase
    <3>2. answers \in Data
      BY <1>8 DEF ReopenDatabase, NoData, Data, DiskTypes, Database
    <3> HIDE DEF answers
    <3>3. info' \in [Infos -> InfoRecord]
      BY <3>1, <3>2, EmissionTypes DEF InfoInv
    <3>4. ~constructed => posted' = {} /\ \A i \in Infos : info'[i] = info[i]
      BY <3>1 DEF Emit, ConnectedInfos, InfoInv
    <3> QED
      BY <2>1, <3>3, <3>4 DEF InfoInv
  <2> QED
    BY <2>2, <2>3
<1> USE DEF InfoUnchanged, ClientUnchanged
<1>9. ASSUME NEW i \in Infos, CreateInfo(i) PROVE InfoInv'
  <2>1. CASE i \in MainInfos
    <3>1. /\ info' = [info EXCEPT ![i] = Shown(Answers[infoKey])] /\ at = "idle" /\ constructed
          /\ UNCHANGED <<posted, parsed, todo, current, clientVars>>
      BY <1>9, <2>1 DEF CreateInfo
    <3>2. Shown(Answers[infoKey]) \in InfoRecord
      BY <1>0, ShownType
    <3>3. backend = "xml" => AgreesWith(Shown(Answers[infoKey]), DataOf(parsed)[infoKey])
      BY DEF Answers, AgreesWith, Shown
    <3> QED
      BY <3>1, <3>2, <3>3 DEF InfoInv
  <2>2. CASE i \notin MainInfos
    <3>1. /\ info' = [info EXCEPT ![i] = [info[i] EXCEPT !.at = "declared"]] /\ constructed
          /\ UNCHANGED <<posted, parsed, todo, current, clientVars>>
      BY <1>9, <2>2 DEF CreateInfo
    <3>2. /\ [info[i] EXCEPT !.at = "declared"] \in InfoRecord
          /\ [info[i] EXCEPT !.at = "declared"].at = "declared"
      BY DEF InfoInv, InfoRecord
    <3> QED
      BY <3>1, <3>2 DEF InfoInv, AgreesWith
  <2> QED
    BY <2>1, <2>2
<1>10. ASSUME NEW i \in Infos, NEW a \in Readable(infoKey)
       PROVE  /\ a \in {Undeclared} \cup SUBSET Files
              /\ backend = "xml" /\ at = "idle" => a = DataOf(parsed)[infoKey]
              /\ backend = "xml" /\ DataOf(parsed)[infoKey] = Undeclared => a = Undeclared
  BY <1>0, <1>10 DEF Readable, Answers
<1>11. ASSUME NEW i \in Infos, ReadDeclared(i) PROVE InfoInv'
  <2>1. PICK a \in Readable(infoKey) :
          info' = [info EXCEPT ![i].declared = (a # Undeclared), ![i].at = "providers"]
    BY <1>11 DEF ReadDeclared
  <2>2. UNCHANGED <<posted, parsed, todo, current, clientVars>> /\ info[i].at = "declared"
    BY <1>11 DEF ReadDeclared
  <2>3. /\ info' \in [Infos -> InfoRecord]
        /\ info'[i].at = "providers" /\ info'[i].declared = (a # Undeclared)
        /\ \A j \in Infos \ {i} : info'[j] = info[j]
    BY <2>1 DEF InfoInv, InfoRecord
  <2> QED
    BY <1>10, <2>2, <2>3 DEF InfoInv, AgreesWith
<1>12. ASSUME NEW i \in Infos, ReadProviders(i) PROVE InfoInv'
  <2>1. PICK a \in Readable(infoKey) :
          info' = [info EXCEPT ![i].providers = ProvidersIn(a), ![i].at = "idle"]
    BY <1>12 DEF ReadProviders
  <2>2. UNCHANGED <<posted, parsed, todo, current, clientVars>> /\ info[i].at = "providers"
    BY <1>12 DEF ReadProviders
  <2>3. ProvidersIn(a) \in SUBSET Files
    BY <1>10, ShownType
  <2>4. /\ info' \in [Infos -> InfoRecord]
        /\ info'[i].at = "idle" /\ info'[i].providers = ProvidersIn(a)
        /\ info'[i].declared = info[i].declared
        /\ \A j \in Infos \ {i} : info'[j] = info[j]
    BY <2>1, <2>3 DEF InfoInv, InfoRecord
  <2> QED
    BY <1>10, <2>2, <2>4 DEF InfoInv, AgreesWith
<1>13. ASSUME NEW i \in Infos, OnKeyChanged(i) PROVE InfoInv'
  <2>1. /\ info' = [info EXCEPT ![i].at = "declared"] /\ posted' = posted \ {i} /\ i \in posted
        /\ UNCHANGED <<parsed, todo, current, clientVars>>
    BY <1>13 DEF OnKeyChanged
  <2>2. /\ info' \in [Infos -> InfoRecord] /\ info'[i].at = "declared"
        /\ \A j \in Infos \ {i} : info'[j] = info[j]
    BY <2>1 DEF InfoInv, InfoRecord
  <2> QED
    BY <2>1, <2>2 DEF InfoInv, AgreesWith
<1>14. CASE OpenRegistryInfo
  BY <1>14 DEF OpenRegistryInfo, InfoInv
<1> QED
  BY <1>1, <1>2, <1>3, <1>4, <1>5, <1>6, <1>7, <1>8, <1>9, <1>11, <1>12, <1>13, <1>14
  DEF RegistryNext

\* An info object, of any thread, agrees with the declaration files when nothing is
\* posted to it, whenever it was constructed and whatever changed while the files were
\* being read: it connects before it reads, and a reload tells everybody about every key
\* of before and after (ContextPropertyInfo::ContextPropertyInfo, onKeyChanged,
\* InfoBackend::checkAndEmitKeysRemoved).
THEOREM InfosFollowFiles == RegistrySpec => []XmlInfosFollow
<1>1. RegistryInit => InfoInv
  BY DEF RegistryInit, InfoInv, InfoRecord, NoInfo, AgreesWith
<1>2. ReadInv /\ InfoInv /\ [RegistryNext]_vars => InfoInv'
  <2> SUFFICES ASSUME ReadInv, InfoInv, [RegistryNext]_vars PROVE InfoInv'
    OBVIOUS
  <2>1. CASE UNCHANGED vars
    BY <2>1 DEF vars, xmlVars, clientVars, infoVars, InfoInv
  <2> QED
    BY <2>1, InfoInvNext
<1>3. ReadInv /\ InfoInv => XmlInfosFollow
  <2> SUFFICES ASSUME ReadInv, InfoInv, Settled, backend = "xml", NEW i \in Infos,
                      info[i].at = "idle", i \notin posted
               PROVE  info[i] = Shown(Answers[infoKey])
    BY DEF XmlInfosFollow, InfosFollow
  <2>1. AgreesWith(info[i], Answers[infoKey]) /\ info[i] \in InfoRecord
    BY DEF InfoInv, Settled, Answers
  <2> QED
    BY <2>1 DEF AgreesWith, InfoRecord, Shown
<1> QED
  BY <1>1, <1>2, <1>3, ReadInvariant, PTL DEF RegistrySpec

-----------------------------------------------------------------------------
(* The values of the variables                                             *)

\* What is noticed is watched; a listing never counts a file that it does not hold.
ReloadInv ==
  /\ fileNotices \subseteq watched
  /\ directoryNotice => directoryWatched
  /\ countOfFiles \in Nat /\ countOfFiles + Cardinality(todo) <= Cardinality(Files)
  /\ at = "adding" => current \in todo

\* Nothing counts the connections: Qt 5 does not call connectNotify(const char *).
ClientTypes ==
  /\ litter \subseteq Inodes /\ lastInode \in Inodes \cup {Unopened}
  /\ at \in {"idle", "watching", "remembering", "reopening", "reading", "adding"}
  /\ posted \subseteq Infos \ MainInfos
  /\ oldKeys \subseteq Keys
  /\ connectCount = 0

\* A new listing holds at most all files.
LEMMA ReloadRegenerates ==
  ASSUME Regenerate, directoryNotice' => directoryWatched'
  PROVE  ReloadInv'
<1>1. /\ countOfFiles' = 0 /\ todo' = Present(files) /\ at' = "reading" /\ fileNotices' = {}
  BY DEF Regenerate, CountAtStart
<1>2. Present(files) \subseteq Files
  BY DEF Present
<1>3. /\ Cardinality(Present(files)) <= Cardinality(Files)
      /\ Cardinality(Present(files)) \in Nat /\ Cardinality(Files) \in Nat
  BY <1>2, RegistryAssumption, FS_Subset, FS_CardinalityType
<1> QED
  BY <1>1, <1>3 DEF ReloadInv

LEMMA ReloadNext == ASSUME DiskTypes, ReloadInv, RegistryNext PROVE ReloadInv'
<1> USE DEF cdbVars, xmlVars, clientVars, infoVars
<1>0. /\ IsFiniteSet(todo) /\ Cardinality(todo) \in Nat /\ Cardinality(Files) \in Nat
      /\ todo \subseteq Files
  BY RegistryAssumption, FS_Subset, FS_CardinalityType DEF DiskTypes
<1>1. CASE \/ \E f \in Files : ChangeFile(f) \/ ToolReadsFile(f)
           \/ ToolStarts \/ ToolMakesFile \/ ToolWrites \/ ToolRenames \/ ToolFails
  <2>1. UNCHANGED <<xmlVars, at, watched, directoryWatched>>
    BY <1>1, ClientNext
  <2>2. fileNotices' \subseteq watched
    BY <1>1 DEF ChangeFile, ToolReadsFile, ToolStarts, ToolMakesFile, ToolWrites, ToolRenames,
       ToolFails, ToolUnchanged, ReloadInv
  <2>3. directoryNotice' => directoryWatched
    BY <1>1 DEF ChangeFile, ToolReadsFile, ToolStarts, ToolMakesFile, ToolWrites, ToolRenames,
       ToolFails, NoticeDirectory, ReloadInv
  <2> QED
    BY <2>1, <2>2, <2>3 DEF ReloadInv
<1>2. ASSUME \/ \E f \in Files : OnFileChanged(f)
             \/ CreateXmlBackend
             \/ OnDirectoryChanged /\ Cardinality(Present(files)) # countOfFiles
      PROVE  ReloadInv'
  BY <1>2, ReloadRegenerates DEF OnFileChanged, CreateXmlBackend, OnDirectoryChanged, ReloadInv
<1>3. CASE OnDirectoryChanged /\ Cardinality(Present(files)) = countOfFiles
  BY <1>3 DEF OnDirectoryChanged, ReloadInv
<1>4. ASSUME NEW f \in Files, ReadDeclarations(f) PROVE ReloadInv'
  BY <1>4 DEF ReadDeclarations, watchVars, ReloadInv
<1>5. CASE AddWatch
  <2>1. /\ current \in todo /\ todo' = todo \ {current} /\ countOfFiles' = countOfFiles + 1
        /\ at' = "reading" /\ watched \subseteq watched'
        /\ UNCHANGED <<fileNotices, directoryNotice, directoryWatched>>
    BY <1>5 DEF AddWatch, ReloadInv
  <2>2. Cardinality(todo') = Cardinality(todo) - 1
    BY <1>0, <2>1, FS_RemoveElement
  <2> QED
    BY <1>0, <2>1, <2>2 DEF ReloadInv
<1>6. CASE EndRegenerate \/ RememberInode \/ ReopenDatabase \/ CreateCdbBackend
  BY <1>6 DEF EndRegenerate, RememberInode, ReopenDatabase, CreateCdbBackend, watchVars, ReloadInv
<1>7. CASE WatchDatabase \/ OnDatabaseDirectoryChanged
  BY <1>7 DEF WatchDatabase, OnDatabaseDirectoryChanged, ReloadInv
<1>8. CASE \/ \E i \in Infos : \/ CreateInfo(i) \/ ReadDeclared(i)
                               \/ ReadProviders(i) \/ OnKeyChanged(i)
           \/ OpenRegistryInfo
  BY <1>8 DEF CreateInfo, ReadDeclared, ReadProviders, OnKeyChanged, OpenRegistryInfo,
     InfoUnchanged, watchVars, ReloadInv
<1> QED
  BY <1>1, <1>2, <1>3, <1>4, <1>5, <1>6, <1>7, <1>8 DEF RegistryNext

LEMMA ClientTypesNext == ASSUME DiskTypes, ClientTypes, RegistryNext PROVE ClientTypes'
<1> USE DEF DiskTypes, cdbVars, xmlVars, clientVars, infoVars, ClientTypes
<1>0. ListKeys \subseteq Keys
  BY DEF ListKeys
<1>1. CASE \/ \E f \in Files : ChangeFile(f) \/ ToolReadsFile(f)
           \/ ToolStarts \/ ToolMakesFile \/ ToolWrites \/ ToolRenames
  <2>1. litter' = litter
    BY <1>1 DEF ChangeFile, ToolReadsFile, ToolStarts, ToolMakesFile, ToolWrites, ToolRenames
  <2> QED
    BY <1>1, <2>1, ClientNext
<1>2. CASE ToolFails
  <2>1. litter' \subseteq Inodes
    BY <1>2 DEF ToolFails, ToolRecord
  <2> QED
    BY <1>2, <2>1, ClientNext
<1> USE DEF ClientUnchanged, registryVars
<1>3. ASSUME NEW answers, NEW old, Emit(answers, old) PROVE posted' \subseteq Infos \ MainInfos
  BY <1>3 DEF Emit, ConnectedInfos
<1>4. ASSUME \/ \E f \in Files : OnFileChanged(f)
             \/ CreateXmlBackend \/ OnDirectoryChanged
      PROVE  ClientTypes'
  BY <1>0, <1>4 DEF OnFileChanged, CreateXmlBackend, OnDirectoryChanged, Regenerate
<1>5. CASE AddWatch \/ \E f \in Files : ReadDeclarations(f)
  BY <1>5 DEF AddWatch, ReadDeclarations
<1>6. CASE CreateCdbBackend \/ WatchDatabase \/ RememberInode \/ OnDatabaseDirectoryChanged
  BY <1>0, <1>6 DEF CreateCdbBackend, WatchDatabase, RememberInode, OnDatabaseDirectoryChanged
<1>7. CASE EndRegenerate \/ ReopenDatabase
  <2>1. posted' \subseteq Infos \ MainInfos
    BY <1>3, <1>7 DEF EndRegenerate, ReopenDatabase, NoEmission
  <2> QED
    BY <1>7, <2>1 DEF EndRegenerate, ReopenDatabase
<1>8. CASE \/ \E i \in Infos : \/ CreateInfo(i) \/ ReadDeclared(i)
                               \/ ReadProviders(i) \/ OnKeyChanged(i)
           \/ OpenRegistryInfo
  BY <1>8 DEF CreateInfo, ReadDeclared, ReadProviders, OnKeyChanged, OpenRegistryInfo,
     InfoUnchanged, ConnectNotify, ConnectNotifyIsCalled
<1> QED
  BY <1>1, <1>2, <1>4, <1>5, <1>6, <1>7, <1>8 DEF RegistryNext

\* The registry's variables keep their types whatever changes while it is read: no file
\* is noticed that is not watched, no listing counts more files than there are, and no
\* call is posted to an object of the main thread (infoxmlbackend.cpp, regenerateKeyDataList;
\* infobackend.cpp; contextpropertyinfo.cpp).
THEOREM RegistryTypes == RegistrySpec => []RegistryTypeOK
<1>1. RegistryInit => InfoInv /\ ReloadInv /\ ClientTypes
  <2> SUFFICES ASSUME RegistryInit PROVE InfoInv /\ ReloadInv /\ ClientTypes
    OBVIOUS
  <2>1. InfoInv
    BY DEF RegistryInit, InfoInv, InfoRecord, NoInfo, AgreesWith
  <2>2. ReloadInv
    BY RegistryAssumption, FS_EmptySet, FS_CardinalityType DEF RegistryInit, ReloadInv
  <2> QED
    BY <2>1, <2>2 DEF RegistryInit, ClientTypes
<1>2. ReadInv /\ InfoInv /\ ReloadInv /\ ClientTypes /\ [RegistryNext]_vars
        => (InfoInv /\ ReloadInv /\ ClientTypes)'
  <2> SUFFICES ASSUME ReadInv, InfoInv, ReloadInv, ClientTypes, [RegistryNext]_vars
               PROVE (InfoInv /\ ReloadInv /\ ClientTypes)'
    OBVIOUS
  <2>1. CASE UNCHANGED vars
    BY <2>1 DEF vars, registryVars, xmlVars, cdbVars, watchVars, clientVars, infoVars, InfoInv,
       ReloadInv, ClientTypes
  <2> QED
    BY <2>1, InfoInvNext, ReloadNext, ClientTypesNext DEF ReadInv
<1>3. ReadInv /\ InfoInv /\ ReloadInv /\ ClientTypes => RegistryTypeOK
  <2> SUFFICES ASSUME ReadInv, InfoInv, ReloadInv, ClientTypes PROVE RegistryTypeOK
    OBVIOUS
  <2>1. \A i \in Inodes : disk[i].data \in Data
    BY DEF ReadInv, DiskTypes, Database
  <2>2. tool.at \in {"off", "reading", "writing", "renaming"}
        /\ tool.todo \subseteq Files /\ tool.inode \in Inodes \cup {Unopened}
    BY DEF ReadInv, DiskTypes, ToolRecord
  <2>3. countOfFiles \in 0..Cardinality(Files)
    BY RegistryAssumption, FS_Subset, FS_CardinalityType DEF ReloadInv, ReadInv, DiskTypes
  <2>4. \A i \in Infos : /\ info[i].at \in {"none", "declared", "providers", "idle"}
                         /\ info[i].declared \in BOOLEAN /\ info[i].providers \subseteq Files
    BY DEF InfoInv, InfoRecord
  <2>5. connectCount \in 0..Cardinality(Infos) + 1
    BY RegistryAssumption, FS_CardinalityType DEF ClientTypes
  <2> QED
    BY <2>1, <2>2, <2>3, <2>4, <2>5 DEF ReadInv, DiskTypes, ReloadInv, ClientTypes, RegistryTypeOK
<1> QED
  BY <1>1, <1>2, <1>3, ReadInvariant, PTL DEF RegistrySpec
=============================================================================
