----------------------------- MODULE Namespace -----------------------------
(***************************************************************************)
(* Folders composed with the storage server that holds the files.  CREATE  *)
(* and DELETE use the root of its directory only; READ, WRITE, MOVE and    *)
(* CHECKPOINT look for a file in the root and then in every directory of   *)
(* the root, "checkpoints" among them, in the order of readdir.  A file is *)
(* a name here; its text is the subject of WriteSession.                   *)
(***************************************************************************)
EXTENDS Folders

CONSTANTS
    Root,           \* the directory of the storage server
    Checkpoints,    \* the directory "checkpoints" in it
    MaxCalls,       \* bound on the calls of the clients
    MaxRestarts     \* bound on the restarts of the servers

ASSUME NamespaceAssumption ==
    Root # Checkpoints /\ {Root, Checkpoints} \cap Folders = {}

VARIABLES
    entry,      \* per file and directory: "none", "file" or "dir"
    dirs,       \* the folders that are directories of the root
    session,    \* the WRITE session: its file, its path, does it append
    mishaps,    \* history: the kinds of mishap there have been
    calls, restarts

storageVars == <<entry, dirs, session>>
vars == <<foldersVars, storageVars, mishaps, calls, restarts>>

Places == Folders \cup {Root, Checkpoints}
NoSession == [file |-> "none"]
Kinds == {"full", "overlap", "race", "garbled", "crash", "stray", "misled"}

Init ==
    /\ \E made \in SUBSET Folders, known \in SUBSET Files :
         /\ FoldersInit(made, known) /\ dirs = made
         /\ entry = [f \in Files |-> [p \in Places |->
                       IF p = Root /\ f \in known THEN "file" ELSE "none"]]
    /\ session = NoSession /\ mishaps = {} /\ calls = 0 /\ restarts = 0

Note(kind, happened) == mishaps' = IF happened THEN mishaps \cup {kind} ELSE mishaps
Call == calls < MaxCalls /\ calls' = calls + 1 /\ UNCHANGED restarts
Restart == restarts < MaxRestarts /\ restarts' = restarts + 1 /\ UNCHANGED calls
Bounds == UNCHANGED <<calls, restarts>>

\* Mutant of Found: only the root is looked at.
FoundInRoot(f) == IF entry[f][Root] # "none" THEN {Root} ELSE {}
\* Where resolve_existing_file_path may find f, and the path used then.
Found(f) == IF entry[f][Root] # "none" THEN {Root}
            ELSE {p \in Places : entry[f][p] # "none"}
PathsOf(f) == IF Found(f) = {} THEN {Root} ELSE Found(f)

\* rename: a file replaces a file; nothing else that is there is replaced.
Renamed(f, p, d) ==
    LET blocked == entry[f][d] # "none" /\ {entry[f][p], entry[f][d]} # {"file"}
    IN  IF p = d \/ blocked THEN entry
        ELSE [entry EXCEPT ![f][p] = "none", ![f][d] = entry[f][p]]

-----------------------------------------------------------------------------
\* The steps of the naming server.
Moving(f) == {h \in Handlers : Busy(handler[h]) /\ handler[h].todo.file = f}
Saving == {h \in Handlers : handler[h].step \in {"opened", "copied"}}

CallCreateFolder(h, d) ==
    CreateFolder(h, d) /\ Call /\ UNCHANGED <<storageVars, mishaps>>
CallMove(h, f, d) ==
    StartMove(h, f, d) /\ Call /\ UNCHANGED <<storageVars, mishaps>>

DoMoveInTable(h) ==
    LET f == handler[h].todo.file
        others == {o \in Moving(f) \ {h} : handler[o].step # "found"}
    IN  /\ MoveInTable(h) /\ Bounds /\ UNCHANGED storageVars
        /\ mishaps' = mishaps
             \cup (IF others # {} THEN {"overlap"} ELSE {})
             \cup (IF handler'[h] = Idle /\ table' # table THEN {"full"} ELSE {})

DoOpenSave(h) ==
    /\ OpenSave(h) /\ Note("race", Saving # {})
    /\ Bounds /\ UNCHANGED storageVars

DoSave(h) ==
    (CopyTable(h) \/ CloseSave(h)) /\ Bounds /\ UNCHANGED <<storageVars, mishaps>>
DoSend(h) ==
    Send(h) /\ Bounds /\ UNCHANGED <<storageVars, mishaps>>
DoEndWait(h) ==
    EndWait(h) /\ Bounds /\ UNCHANGED <<storageVars, mishaps>>

DoRestartNaming ==
    /\ RestartNaming /\ Restart /\ UNCHANGED storageVars
    /\ mishaps' = mishaps
         \cup (IF disk = Garbled THEN {"garbled"} ELSE {})
         \cup (IF \/ disk # table \/ commands # <<>>
                  \/ \E h \in Handlers : Busy(handler[h])
               THEN {"crash"} ELSE {})

-----------------------------------------------------------------------------
\* CREATE and DELETE wait for the answer of the storage server, which has done
\* by then what it was told before.
Create(f) ==
    /\ f \notin names /\ commands = <<>> /\ entry[f][Root] = "none" /\ Call
    /\ names' = names \cup {f} /\ entry' = [entry EXCEPT ![f][Root] = "file"]
    /\ UNCHANGED <<tableVars, commands, dirs, session, mishaps>>

\* Mutant of Delete: the answer of the storage server is not looked at.
DeleteAnyway(f) ==
    /\ f \in names /\ commands = <<>> /\ Call
    /\ names' = names \ {f} /\ entry' = [entry EXCEPT ![f][Root] = "none"]
    /\ Note("overlap", Moving(f) # {})
    /\ UNCHANGED <<tableVars, commands, dirs, session>>
Delete(f) ==
    /\ f \in names /\ commands = <<>> /\ entry[f][Root] = "file" /\ Call
    /\ names' = names \ {f} /\ entry' = [entry EXCEPT ![f][Root] = "none"]
    /\ Note("overlap", Moving(f) # {})
    /\ UNCHANGED <<tableVars, commands, dirs, session>>

\* The thread of the storage server does the next command.
ApplyMkdir ==
    /\ commands # <<>> /\ Head(commands).kind = "mkdir" /\ Bounds
    /\ commands' = Tail(commands) /\ dirs' = dirs \cup {Head(commands).folder}
    /\ UNCHANGED <<tableVars, names, entry, session, mishaps>>

\* A file that is not found is not moved and no directory is made; DELETE waits
\* behind the command, so that does not happen.
ApplyMove ==
    LET f == Head(commands).file
        d == Head(commands).folder
    IN  /\ commands # <<>> /\ Head(commands).kind = "move" /\ Bounds
        /\ commands' = Tail(commands)
        /\ \E p \in PathsOf(f) :
             /\ dirs' = IF Found(f) = {} THEN dirs ELSE dirs \cup {d}
             /\ entry' = Renamed(f, p, d)
             /\ Note("misled", entry[f][p] = "dir" \/ entry[f][d] = "dir")
        /\ UNCHANGED <<tableVars, names, session>>

\* CHECKPOINT makes the snapshot beside the file it found.
Checkpoint(f) ==
    /\ f \in names /\ entry[f][Root] = "file" /\ Call
    /\ entry' = [entry EXCEPT ![f][Checkpoints] = "dir"]
    /\ UNCHANGED <<foldersVars, dirs, session, mishaps>>

\* WRITE resolves the path once; the commit writes there.  A file that is not
\* there any more has no sentence, so that only an append commits.
StartWrite(f, append) ==
    /\ session = NoSession /\ f \in names /\ Call
    /\ \E p \in PathsOf(f) :
         /\ entry[f][p] # "file" => append
         /\ session' = [file |-> f, at |-> p, append |-> append]
    /\ UNCHANGED <<foldersVars, entry, dirs, mishaps>>

EndWrite ==
    LET f == session.file
        creates == entry[f][session.at] = "none" /\ session.append
    IN  /\ session # NoSession /\ session' = NoSession /\ Bounds
        /\ \/ UNCHANGED <<entry, mishaps>>
           \/ /\ creates /\ entry' = [entry EXCEPT ![f][session.at] = "file"]
              /\ Note("stray", TRUE)
        /\ UNCHANGED <<foldersVars, dirs>>

\* The storage server starts again and registers the files of its root.
RestartStorage ==
    /\ Restart /\ session' = NoSession /\ commands' = <<>>
    /\ names' = names \cup {f \in Files : entry[f][Root] = "file"}
    /\ Note("crash", commands # <<>>)
    /\ UNCHANGED <<tableVars, entry, dirs>>

-----------------------------------------------------------------------------
HandlerStep(h) ==
    \/ DoMoveInTable(h) \/ DoOpenSave(h) \/ DoSave(h) \/ DoSend(h) \/ DoEndWait(h)
StorageStep == ApplyMkdir \/ ApplyMove
Next ==
    \/ \E h \in Handlers :
         \/ HandlerStep(h)
         \/ \E d \in Folders :
              CallCreateFolder(h, d) \/ \E f \in Files : CallMove(h, f, d)
    \/ StorageStep \/ EndWrite \/ DoRestartNaming \/ RestartStorage
    \/ \E f \in Files :
         \/ Create(f) \/ Delete(f) \/ Checkpoint(f)
         \/ \E append \in BOOLEAN : StartWrite(f, append)

Spec == Init /\ [][Next]_vars
\* A handler goes on by itself, but not past trie_mutex, a send that finds the socket
\* full, or an answer that it awaits without a time-out.
WaitsForOthers(h) == handler[h].step \in {"saved", "untimed"}
FairSpec ==
    Spec /\ \A h \in Handlers : WF_vars(~WaitsForOthers(h) /\ HandlerStep(h))

-----------------------------------------------------------------------------
Only(kinds) == mishaps \subseteq kinds
Quiet == mutex = NoOne /\ commands = <<>> /\ \A h \in Handlers : ~Busy(handler[h])
Holding(f) == {p \in Places : entry[f][p] = "file"}

TypeOK ==
    /\ table \in Tables /\ (disk = Garbled \/ disk \in Tables)
    /\ mutex \in Handlers \cup {NoOne} /\ overlaid \subseteq Handlers
    /\ \A h \in Handlers : handler[h].step \in
         {"idle", "found", "save", "opened", "copied", "saved", "hung",
          "timed", "untimed"}
    /\ names \subseteq Files /\ dirs \subseteq Folders
    /\ \A i \in 1..Len(commands) : commands[i].folder \in Folders
    /\ entry \in [Files -> [Places -> {"none", "file", "dir"}]]
    /\ (session = NoSession \/ session.file \in Files)
    /\ mishaps \subseteq Kinds /\ calls \in 0..MaxCalls /\ restarts \in 0..MaxRestarts

\* A file is in one folder at most, unless a garbled folders.dat was loaded.
InOneFolder ==
    Only(Kinds \ {"garbled"}) => \A f \in Files : Cardinality(In(f, table)) <= 1

\* A name that the naming server knows has its file on the storage server, in
\* one place; a second place needs a WRITE that held a path MOVE or DELETE emptied.
StoredOnce ==
    \A f \in names : /\ Holding(f) # {}
                     /\ Only(Kinds \ {"stray"}) => Cardinality(Holding(f)) = 1

\* With nothing under way the folder table and the directories agree, unless a
\* MOVE failed at a full folder, two calls for one file overlapped, a server
\* restarted in the middle, a save garbled the table, a WRITE left a stray copy
\* or a checkpoint directory was taken for the file.
FiledWhereStored ==
    Quiet /\ Only({"race"}) =>
      /\ \A f \in names : In(f, table) = Holding(f) \ {Root}
      /\ \A d \in Folders : table[d] # NoFolder => d \in dirs

\* With nothing under way folders.dat is the folder table, unless a MOVE failed at
\* a full folder or two calls saved at once.
FoldersSaved ==
    Quiet /\ Only(Kinds \ {"full", "race"}) => disk = table

\* CREATEFOLDER, and MOVE once it has looked its name up, come to an end, unless a MOVE
\* into a folder that does not exist waits for the mutex that it holds, or the call
\* never gets to send (trie_mutex, NM 777; a full socket), or it awaits the answer
\* without a time-out (NM 37).
FolderCallsEnd ==
    \A h \in Handlers : <>[](handler[h] # Idle) =>
      \/ <>[](\E o \in Handlers : handler[o].step = "hung")
      \/ <>[](handler[h].step = "saved")
      \/ <>[](handler[h].step = "untimed")

\* Checked to be violated: storage_server.c:185 says that the search skips "known
\* meta folders", so what it finds for a file that is known is the file.
FileFound == \A f \in names : \A p \in Found(f) : entry[f][p] = "file"
=============================================================================
