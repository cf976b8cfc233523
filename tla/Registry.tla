------------------------------ MODULE Registry ------------------------------
(***************************************************************************)
(* The registry of properties: declaration files that packages install and *)
(* remove, update-contextkit-providers, which compiles them into           *)
(* cache.cdb, and one client process with its InfoBackend                  *)
(* (infoxmlbackend.cpp or infocdbbackend.cpp, cdbreader.cpp), its          *)
(* ContextPropertyInfo objects and a ContextRegistryInfo.                  *)
(*                                                                         *)
(* A declaration file is the set of keys it declares; the provider it      *)
(* names is the file itself.  Types and documentation of a key travel with *)
(* its providers and are left out.  Files are replaced one at a time, in   *)
(* place or by a rename; an unreadable file, or one of another version,    *)
(* declares nothing.  A database is an inode, so that a replaced one stays *)
(* readable for who has it open, and a freed one may be used again.        *)
(***************************************************************************)
EXTENDS Naturals, FiniteSets

CONSTANTS
  Keys,
  CoreKeys,           \* declared by the core declarations, without a provider
  Files,              \* names of *.context files in the registry directory
  Inodes,
  Infos,              \* ContextPropertyInfo objects
  MainInfos,          \* those that live in the main thread
  infoKey,            \* the key of all of them
  Absent, Undeclared, Unopened, Torn, Cache, \* no file; no key; no inode; see the mapping
  ChangesDuringReads, \* may a file change while the client reads the registry?
  FileBound, RunBound \* bounds: changes of files, runs of the update tool

\* Of a declaration file, of a whole registry, of an inode.
Contents == {Absent} \cup SUBSET Keys
Data     == [Keys -> {Undeclared} \cup SUBSET Files]
Database == [whole : BOOLEAN, ours : BOOLEAN, data : Data]

ASSUME RegistryAssumption ==
  /\ IsFiniteSet(Files) /\ IsFiniteSet(Infos)
  /\ CoreKeys \subseteq Keys /\ infoKey \in Keys
  /\ MainInfos \subseteq Infos
  /\ ChangesDuringReads \in BOOLEAN
  /\ FileBound \in Nat /\ RunBound \in Nat
  /\ Unopened \notin Inodes /\ Cache \notin Files /\ (\A S \in SUBSET Files : S # Undeclared)
  /\ \A c \in Contents \cup Database : c # Torn

VARIABLES
  files,       \* [Files -> keys declared, or Absent]
  cache,       \* the inode of cache.cdb, Unopened if there is none
  disk,        \* [Inodes -> database]
  litter,      \* inodes of temporary files left behind
  changes, runs, \* counters for the bounds
  tool,        \* update-contextkit-providers: [at, todo, parsed, inode, ours]
  dirty,       \* has a file changed since the last run of the tool that succeeded began?
  backend,     \* of the client: "none", "cdb" or "xml"
  at,          \* where the client's main thread is
  reader, lastInode, databaseCompatible, connectCount, \* InfoCdbBackend
  parsed, todo, current, watched, countOfFiles,        \* InfoXmlBackend
  directoryWatched, directoryNotice, fileNotices,      \* QFileSystemWatcher
  constructed, \* has InfoBackend::instance returned?
  oldKeys,     \* local variable of the slots
  info,        \* [Infos -> [at, declared, providers]], the caches
  posted,      \* infos of other threads with a posted onKeyChanged
  tracked      \* keys a client knows from ContextRegistryInfo, or Unopened

registryVars == <<files, cache, disk, litter>>
boundVars    == <<changes, runs>>
toolVars     == <<tool, dirty>>
cdbVars      == <<reader, lastInode, databaseCompatible>>
xmlVars      == <<parsed, todo, current, countOfFiles>>
watchVars    == <<directoryWatched, directoryNotice, fileNotices, watched>>
clientVars   == <<backend, at, constructed, oldKeys>>
infoVars     == <<info, posted, tracked, connectCount>>
vars == <<registryVars, boundVars, toolVars, cdbVars, xmlVars, watchVars, clientVars, infoVars>>

-----------------------------------------------------------------------------
(* What a set of files says                                                *)

Present(fs) == {f \in Files : fs[f] # Absent}
Declares(fs, k) == {f \in Present(fs) : k \in fs[f]}

\* parseKey over all files: the providers of each key that is declared.
DataOf(fs) ==
  [k \in Keys |-> IF k \in CoreKeys \/ Declares(fs, k) # {} THEN Declares(fs, k)
                  ELSE Undeclared]

NoFiles == [f \in Files |-> Absent]
NoData  == [k \in Keys |-> Undeclared]

\* A database: has its index been written, is the version ours, its records.
NewDatabase   == [whole |-> FALSE, ours |-> TRUE, data |-> NoData]
EmptyDatabase == [whole |-> TRUE, ours |-> TRUE, data |-> DataOf(NoFiles)]

ToolOff == [at |-> "off", todo |-> {}, parsed |-> NoFiles, inode |-> Unopened, ours |-> TRUE]
NoInfo  == [at |-> "none", declared |-> FALSE, providers |-> {}]

RegistryInit ==
  /\ files = NoFiles
  /\ cache \in {Unopened} \cup Inodes
  /\ disk = [i \in Inodes |-> IF i = cache THEN EmptyDatabase ELSE NewDatabase]
  /\ litter = {} /\ changes = 0 /\ runs = 0
  /\ tool = ToolOff /\ dirty = FALSE
  /\ backend = "none" /\ at = "idle" /\ constructed = FALSE /\ oldKeys = {}
  /\ reader = Unopened /\ lastInode = Unopened /\ databaseCompatible = FALSE
  /\ parsed = NoFiles /\ todo = {} /\ current = Unopened /\ countOfFiles = 0
  /\ directoryWatched = FALSE /\ directoryNotice = FALSE /\ fileNotices = {} /\ watched = {}
  /\ info = [i \in Infos |-> NoInfo] /\ posted = {} /\ tracked = Unopened /\ connectCount = 0

-----------------------------------------------------------------------------
(* Notices of the file system                                              *)

NoticeDirectory == directoryNotice' = directoryWatched

ClientReads == at # "idle"
MayChange == ChangesDuringReads \/ ~ClientReads

\* A package installs, replaces or removes a declaration file.  A replacement
\* in place is not noticed in the directory (by a rename, it is, to no effect).
ChangeFile(f) ==
  /\ changes < FileBound /\ MayChange
  /\ \E c \in {Absent} \cup SUBSET Keys :
       /\ c # files[f]
       /\ files' = [files EXCEPT ![f] = c]
       /\ IF (c = Absent) # (files[f] = Absent) /\ directoryWatched
          THEN directoryNotice' = TRUE ELSE UNCHANGED directoryNotice
  /\ fileNotices' = fileNotices \cup ({f} \cap watched)
  /\ changes' = changes + 1
  /\ dirty' = TRUE
  /\ UNCHANGED <<cache, disk, litter, runs, tool, cdbVars, xmlVars, directoryWatched, watched,
                 clientVars, infoVars>>

-----------------------------------------------------------------------------
(* update-contextkit-providers, one run at a time                          *)

ToolUnchanged == UNCHANGED <<files, changes, cdbVars, xmlVars, directoryWatched, fileNotices,
                             watched, clientVars, infoVars>>

\* ContextRegistryInfo::instance("xml"): list the directory; then read each file.
ToolStarts ==
  /\ tool.at = "off" /\ runs < RunBound
  /\ \E ours \in BOOLEAN :   \* a tool of this version of the library, or of another
       tool' = [ToolOff EXCEPT !.at = "reading", !.todo = Present(files), !.ours = ours]
  /\ runs' = runs + 1 /\ dirty' = FALSE
  /\ ToolUnchanged /\ UNCHANGED <<cache, disk, litter, directoryNotice>>

ToolReadsFile(f) ==
  /\ tool.at = "reading" /\ f \in tool.todo
  /\ tool' = [tool EXCEPT !.todo = @ \ {f}, !.parsed[f] = files[f]]
  /\ ToolUnchanged /\ UNCHANGED <<cache, disk, litter, dirty, runs, directoryNotice>>

\* Inodes in use: linked, or open in some process.
InUse == litter \cup {cache, reader, tool.inode}

\* Mutant: the database is written in place.
InodeInPlace(i) == IF cache = Unopened THEN i \notin InUse ELSE i = cache
InodeOfTemporary(i) == i \notin InUse

\* mkstemp; the constructor of CDBWriter leaves room for the index.
ToolMakesFile ==
  /\ tool.at = "reading" /\ tool.todo = {}
  /\ \E i \in Inodes :
       /\ InodeOfTemporary(i)
       /\ tool' = [tool EXCEPT !.at = "writing", !.inode = i]
       /\ disk' = [disk EXCEPT ![i] = NewDatabase]
  /\ NoticeDirectory
  /\ ToolUnchanged /\ UNCHANGED <<cache, litter, dirty, runs>>

\* The records; fsync; and close, which appends the index.
ToolWrites ==
  /\ tool.at = "writing"
  /\ tool' = [tool EXCEPT !.at = "renaming"]
  /\ disk' = [disk EXCEPT ![tool.inode] =
                [whole |-> TRUE, ours |-> tool.ours, data |-> DataOf(tool.parsed)]]
  /\ ToolUnchanged /\ UNCHANGED <<cache, litter, dirty, runs, directoryNotice>>

ToolRenames ==
  /\ tool.at = "renaming" /\ MayChange
  /\ cache' = tool.inode
  /\ tool' = ToolOff
  /\ NoticeDirectory
  /\ ToolUnchanged /\ UNCHANGED <<disk, litter, dirty, runs>>

\* mkstemp, fsync or rename fails, or the tool is killed.
ToolFails ==
  /\ tool.at # "off"
  /\ tool' = ToolOff
  /\ litter' = litter \cup ({tool.inode} \ {Unopened, cache})
  /\ dirty' = TRUE
  /\ ToolUnchanged /\ UNCHANGED <<cache, disk, runs, directoryNotice>>

-----------------------------------------------------------------------------
(* What the client's backend answers                                       *)

\* CDBReader::valuesForKey, through the checks of InfoCdbBackend.
CdbAnswers ==
  IF databaseCompatible /\ reader # Unopened /\ disk[reader].whole THEN disk[reader].data ELSE NoData

Answers ==
  CASE backend = "cdb" -> CdbAnswers
    [] backend = "xml" -> DataOf(parsed)
    [] OTHER -> NoData

ListKeys == {k \in Keys : Answers[k] # Undeclared}

\* What another thread reads meanwhile: the hash or the reader is being changed,
\* without a lock, while the main thread is at work.
Readable(k) == IF at = "idle" THEN {Answers[k]} ELSE {Answers[k], Undeclared}

ProvidersIn(answer) == IF answer = Undeclared THEN {} ELSE answer

-----------------------------------------------------------------------------
(* Signals of InfoBackend, all of them emitted by the main thread          *)

\* Mutant: keysRemoved is never emitted.
AppliedAdded(t, now, old) == IF t = Unopened THEN t ELSE t \cup (now \ old)

\* checkAndEmitKeysAdded and checkAndEmitKeysRemoved, as a client applies them.
Applied(t, now, old) == IF t = Unopened THEN t ELSE (t \cup (now \ old)) \ (old \ now)

\* Mutant: an info object is connected when its constructor has read everything.
ConnectedWhenRead == {i \in Infos : info[i].at = "idle"}
ConnectedInfos == {i \in Infos : info[i].at # "none"}

Shown(answer) == [at |-> "idle", declared |-> answer # Undeclared, providers |-> ProvidersIn(answer)]

\* keysAdded, keysRemoved, keysChanged, listChanged, then keyChanged for each key:
\* direct calls in the main thread, posted to the others.
Emit(answers, old) ==
  LET now     == {k \in Keys : answers[k] # Undeclared}
      reached == IF infoKey \in now \cup old THEN ConnectedInfos ELSE {}
  IN  /\ tracked' = Applied(tracked, now, old)
      /\ info' = [i \in Infos |-> IF i \in reached \cap MainInfos THEN Shown(answers[infoKey])
                                  ELSE info[i]]
      /\ posted' = posted \cup (reached \ MainInfos)

NoEmission == UNCHANGED <<tracked, info, posted>>

-----------------------------------------------------------------------------
(* InfoCdbBackend                                                          *)

ClientUnchanged == UNCHANGED <<registryVars, boundVars, toolVars>>

\* Mutant: the version is not looked at.
AnyVersion(i) == i # Unopened

\* checkCompatibility, for a database that is being read.
Compatible(i) == i # Unopened /\ (disk[i].whole => disk[i].ours)

\* InfoBackend::instance with cache.cdb there: open it, ...
CreateCdbBackend ==
  /\ backend = "none" /\ cache # Unopened
  /\ backend' = "cdb" /\ at' = "watching"
  /\ reader' = cache
  /\ ClientUnchanged
  /\ UNCHANGED <<lastInode, databaseCompatible, xmlVars, watchVars, constructed, oldKeys, infoVars>>

\* ... watch the directory and check the version, ...
WatchDatabase ==
  /\ backend = "cdb" /\ at = "watching"
  /\ directoryWatched' = TRUE
  /\ databaseCompatible' = Compatible(reader)
  /\ at' = "remembering"
  /\ ClientUnchanged
  /\ UNCHANGED <<reader, lastInode, xmlVars, directoryNotice, fileNotices, watched, backend,
                 constructed, oldKeys, infoVars>>

\* ... and remember the inode.
RememberInode ==
  /\ at = "remembering"
  /\ lastInode' = cache
  /\ at' = "idle" /\ constructed' = TRUE
  /\ ClientUnchanged
  /\ UNCHANGED <<reader, databaseCompatible, xmlVars, watchVars, backend, oldKeys, infoVars>>

\* onDatabaseDirectoryChanged: another inode, so close the reader, ...
OnDatabaseDirectoryChanged ==
  /\ backend = "cdb" /\ at = "idle" /\ constructed /\ directoryNotice
  /\ directoryNotice' = FALSE
  /\ IF lastInode # cache
     THEN /\ lastInode' = cache /\ oldKeys' = ListKeys
          /\ reader' = Unopened /\ at' = "reopening"
     ELSE UNCHANGED <<lastInode, oldKeys, reader, at>>
  /\ ClientUnchanged
  /\ UNCHANGED <<databaseCompatible, xmlVars, directoryWatched, fileNotices, watched, backend,
                 constructed, infoVars>>

\* ... open it again, and signal if anybody is connected.
ReopenDatabase ==
  /\ at = "reopening"
  /\ reader' = cache
  /\ databaseCompatible' = IF cache # Unopened THEN Compatible(cache) ELSE databaseCompatible
  /\ at' = "idle"
  /\ IF connectCount = 0 THEN NoEmission
     ELSE Emit(IF databaseCompatible' /\ disk[cache].whole THEN disk[cache].data ELSE NoData, oldKeys)
  /\ ClientUnchanged
  /\ UNCHANGED <<lastInode, xmlVars, watchVars, backend, constructed, oldKeys, connectCount>>

-----------------------------------------------------------------------------
(* InfoXmlBackend                                                          *)

\* Mutant: the number of files is not reset.
CountKept == countOfFiles
CountAtStart == 0

\* regenerateKeyDataList begins: clear, stop watching the files (which also drops
\* what has been noticed of them), list the directory.
Regenerate ==
  /\ parsed' = NoFiles /\ countOfFiles' = CountAtStart /\ current' = Unopened
  /\ watched' = {} /\ fileNotices' = {}
  /\ todo' = Present(files)
  /\ oldKeys' = ListKeys
  /\ at' = "reading"

CreateXmlBackend ==
  /\ backend = "none" /\ cache = Unopened
  /\ backend' = "xml"
  /\ directoryWatched' = TRUE
  /\ Regenerate
  /\ ClientUnchanged /\ UNCHANGED <<cdbVars, directoryNotice, constructed, infoVars>>

OnFileChanged(f) ==
  /\ backend = "xml" /\ at = "idle" /\ f \in fileNotices
  /\ Regenerate
  /\ ClientUnchanged
  /\ UNCHANGED <<cdbVars, directoryWatched, directoryNotice, backend, constructed, infoVars>>

OnDirectoryChanged ==
  /\ backend = "xml" /\ at = "idle" /\ directoryNotice
  /\ directoryNotice' = FALSE
  /\ IF Cardinality(Present(files)) = countOfFiles
     THEN UNCHANGED <<xmlVars, fileNotices, watched, oldKeys, at>>
     ELSE Regenerate
  /\ ClientUnchanged
  /\ UNCHANGED <<cdbVars, directoryWatched, backend, constructed, infoVars>>

\* readKeyDataFromXml, then watch the file if it is there.
ReadDeclarations(f) ==
  /\ at = "reading" /\ f \in todo
  /\ parsed' = [parsed EXCEPT ![f] = files[f]]
  /\ current' = f /\ at' = "adding"
  /\ ClientUnchanged
  /\ UNCHANGED <<cdbVars, todo, countOfFiles, watchVars, backend, constructed, oldKeys, infoVars>>

\* Mutant: files that have been read before are not watched again.
WatchOnce(f) == IF constructed THEN {} ELSE {f}
WatchAgain(f) == {f}

AddWatch ==
  /\ at = "adding"
  /\ watched' = watched \cup (WatchAgain(current) \cap Present(files))
  /\ countOfFiles' = countOfFiles + 1
  /\ todo' = todo \ {current}
  /\ current' = Unopened /\ at' = "reading"
  /\ ClientUnchanged
  /\ UNCHANGED <<cdbVars, parsed, directoryWatched, directoryNotice, fileNotices, backend,
                 constructed, oldKeys, infoVars>>

\* All files are read; the constructor signals nothing.
EndRegenerate ==
  /\ at = "reading" /\ todo = {}
  /\ at' = "idle" /\ constructed' = TRUE
  /\ IF constructed THEN Emit(DataOf(parsed), oldKeys) ELSE NoEmission
  /\ ClientUnchanged
  /\ UNCHANGED <<cdbVars, xmlVars, watchVars, backend, oldKeys, connectCount>>

-----------------------------------------------------------------------------
(* ContextPropertyInfo and ContextRegistryInfo                             *)

\* Qt 5 calls connectNotify(const QMetaMethod &).  The function of InfoBackend takes
\* a pointer, which makes it another function that nothing calls.
ConnectNotifyIsCalled == FALSE
ConnectNotify == connectCount' = IF ConnectNotifyIsCalled THEN connectCount + 1 ELSE connectCount

InfoUnchanged == ClientUnchanged /\ UNCHANGED <<cdbVars, xmlVars, watchVars, clientVars>>

\* The constructor connects, then reads; in the main thread nothing comes between.
CreateInfo(i) ==
  /\ constructed /\ info[i].at = "none"
  /\ i \in MainInfos => at = "idle"
  /\ ConnectNotify
  /\ info' = [info EXCEPT ![i] = IF i \in MainInfos THEN Shown(Answers[infoKey])
                                 ELSE [@ EXCEPT !.at = "declared"]]
  /\ UNCHANGED <<posted, tracked>> /\ InfoUnchanged

ReadDeclared(i) ==
  /\ info[i].at = "declared"
  /\ \E a \in Readable(infoKey) :
       info' = [info EXCEPT ![i].declared = (a # Undeclared), ![i].at = "providers"]
  /\ UNCHANGED <<posted, tracked, connectCount>> /\ InfoUnchanged

ReadProviders(i) ==
  /\ info[i].at = "providers"
  /\ \E a \in Readable(infoKey) :
       info' = [info EXCEPT ![i].providers = ProvidersIn(a), ![i].at = "idle"]
  /\ UNCHANGED <<posted, tracked, connectCount>> /\ InfoUnchanged

\* A posted onKeyChanged: read everything again.
OnKeyChanged(i) ==
  /\ i \in posted /\ info[i].at = "idle"
  /\ posted' = posted \ {i}
  /\ info' = [info EXCEPT ![i].at = "declared"]
  /\ UNCHANGED <<tracked, connectCount>> /\ InfoUnchanged

\* A client in the main thread lists the keys and follows keysAdded and keysRemoved.
OpenRegistryInfo ==
  /\ constructed /\ at = "idle" /\ tracked = Unopened
  /\ tracked' = ListKeys
  /\ ConnectNotify
  /\ UNCHANGED <<info, posted>> /\ InfoUnchanged

-----------------------------------------------------------------------------
RegistryNext ==
  \/ \E f \in Files :
       \/ ChangeFile(f) \/ ToolReadsFile(f)
       \/ OnFileChanged(f) \/ ReadDeclarations(f)
  \/ ToolStarts \/ ToolMakesFile \/ ToolWrites \/ ToolRenames \/ ToolFails
  \/ CreateCdbBackend \/ WatchDatabase \/ RememberInode
  \/ OnDatabaseDirectoryChanged \/ ReopenDatabase
  \/ CreateXmlBackend \/ OnDirectoryChanged \/ AddWatch \/ EndRegenerate
  \/ \E i \in Infos : CreateInfo(i) \/ ReadDeclared(i) \/ ReadProviders(i) \/ OnKeyChanged(i)
  \/ OpenRegistryInfo

RegistrySpec == RegistryInit /\ [][RegistryNext]_vars

-----------------------------------------------------------------------------
(* Properties                                                              *)

Answer(i) == [declared |-> info[i].declared, providers |-> info[i].providers]

\* The values of the variables.
RegistryTypeOK ==
  /\ files \in [Files -> Contents] /\ parsed \in [Files -> Contents]
  /\ cache \in Inodes \cup {Unopened} /\ litter \subseteq Inodes
  /\ \A i \in Inodes : disk[i].data \in Data
  /\ tool.at \in {"off", "reading", "writing", "renaming"}
  /\ tool.todo \subseteq Files /\ tool.inode \in Inodes \cup {Unopened}
  /\ backend \in {"none", "cdb", "xml"}
  /\ at \in {"idle", "watching", "remembering", "reopening", "reading", "adding"}
  /\ reader \in Inodes \cup {Unopened} /\ lastInode \in Inodes \cup {Unopened}
  /\ todo \subseteq Files /\ watched \subseteq Files /\ fileNotices \subseteq watched
  /\ countOfFiles \in 0..Cardinality(Files)
  /\ directoryNotice => directoryWatched
  /\ \A i \in Infos : /\ info[i].at \in {"none", "declared", "providers", "idle"}
                       /\ info[i].declared \in BOOLEAN /\ info[i].providers \subseteq Files
  /\ posted \subseteq Infos \ MainInfos
  /\ oldKeys \subseteq Keys
  /\ connectCount \in 0..Cardinality(Infos) + 1

\* The client's main thread is in its event loop and has handled all notices.
Settled == constructed /\ at = "idle" /\ ~directoryNotice /\ fileNotices = {}

\* No change of the registry is missed: "the watcher notifications are delivered
\* synced, so asuming the changes in the dir are atomic this is all we need"
\* (infoxmlbackend.cpp:51), with watches that a parse takes down and puts up again,
\* directories compared by their number of files and databases by their inodes.
AnswersAreCurrent ==
  Settled => /\ backend = "cdb" => reader = cache
             /\ backend = "xml" => parsed = files

\* From end to end: once the tool has run after the last change, a client of the
\* database answers what the declaration files say, through failed runs of the tool,
\* tools of another version and clients that start in between (onDatabaseDirectoryChanged).
CompiledIsSeen ==
  Settled /\ backend = "cdb" /\ ~dirty /\ tool.at = "off"
    => Answers = IF disk[cache].ours THEN DataOf(files) ELSE NoData

\* An info object, of any thread, agrees with the backend once nothing is posted to it,
\* even if it was constructed while the main thread was reading the registry
\* (ContextPropertyInfo::ContextPropertyInfo, onKeyChanged).
InfosFollow ==
  \A i \in Infos :
    info[i].at = "idle" /\ i \notin posted
      => info[i] = Shown(Answers[infoKey])

XmlInfosFollow == Settled /\ backend = "xml" => InfosFollow

\* "existing ContextProperty instances [are] updated" when the cache is recompiled
\* (doc/context-arch.txt:128-129): the infos of a client of the database.
CdbInfosFollow == Settled /\ backend = "cdb" => InfosFollow

\* A client that applies keysAdded and keysRemoved knows what listKeys() returns,
\* over any number of reloads (checkAndEmitKeysAdded, checkAndEmitKeysRemoved).
XmlTrackedFollow == Settled /\ backend = "xml" /\ tracked # Unopened => tracked = ListKeys

\* The promise to a reader: the parts it knows are whole, and were current when read
\* (readKeyDataFromXml, CDBReader::reopen, rename in update-contextkit-providers.cpp).
SeenDatabase(i) == IF i = Unopened THEN Absent ELSE IF disk[i].whole THEN disk[i] ELSE Torn
Reader == INSTANCE RegistryReader WITH
  Parts  <- Files \cup {Cache}, Nothing <- Absent,
  stored <- [p \in Files \cup {Cache} |-> IF p = Cache THEN SeenDatabase(cache) ELSE files[p]],
  view   <- [p \in Files \cup {Cache} |-> IF p = Cache THEN SeenDatabase(reader) ELSE parsed[p]]
ImplementsReader == Reader!Spec
=============================================================================
