------------------------------ MODULE Folders ------------------------------
(***************************************************************************)
(* The folder table of the naming server: CREATEFOLDER and MOVE change it  *)
(* under folders_mutex, which is not recursive, then write folders.dat,    *)
(* then tell the storage servers.  Opening folders.dat truncates it, before *)
(* the mutex is taken to copy the table; the copy reaches the disk when the *)
(* file is closed, after the mutex is released.                            *)
(***************************************************************************)
EXTENDS Naturals, Sequences, FiniteSets

CONSTANTS
    Files, Folders,
    Handlers,   \* threads that serve CREATEFOLDER and MOVE
    Room,       \* files that a folder can hold
    NoFolder,   \* there is no folder of that name
    NoOne,      \* nobody holds folders_mutex
    Garbled     \* folders.dat holds no table that was written

ASSUME FoldersAssumption ==
    /\ IsFiniteSet(Files) /\ Room \in Nat
    /\ NoOne \notin Handlers /\ (\A fs \in SUBSET Files : fs # NoFolder)
    /\ Garbled \notin [Folders -> (SUBSET Files) \cup {NoFolder}]

VARIABLES
    table,      \* per name, the files of the folder, or NoFolder
    mutex,      \* who holds folders_mutex between two steps
    disk,       \* folders.dat: a table, or Garbled
    overlaid,   \* open handles behind whose back folders.dat got a content
    handler,    \* per thread, what it does
    names,      \* the files that the naming server knows
    commands    \* what it has sent to the storage server

tableVars == <<table, mutex, disk, overlaid, handler>>
foldersVars == <<tableVars, names, commands>>

Tables == [Folders -> (SUBSET Files) \cup {NoFolder}]
NoFolders == [d \in Folders |-> NoFolder]
EmptyFolders(made) == [d \in Folders |-> IF d \in made THEN {} ELSE NoFolder]
Idle == [step |-> "idle"]
Waiting == {[step |-> "timed"], [step |-> "untimed"]}
In(f, t) == {d \in Folders : t[d] # NoFolder /\ f \in t[d]}

\* A start with the folders and the files made before, the files in no folder.
FoldersInit(made, known) ==
    /\ table = EmptyFolders(made) /\ disk = table /\ names = known
    /\ mutex = NoOne /\ overlaid = {} /\ commands = <<>>
    /\ handler = [h \in Handlers |-> Idle]

\* A call that has something left to change or to send.
Busy(state) == state.step \notin {"idle", "timed", "untimed"}
Goes(h, to) == handler' = [handler EXCEPT ![h] = to]
Command(kind, f, d) == [kind |-> kind, file |-> f, folder |-> d]

-----------------------------------------------------------------------------
\* CREATEFOLDER d.  One that exists is written and sent all the same.
CreateFolder(h, d) ==
    /\ handler[h] = Idle /\ mutex = NoOne
    /\ table' = IF table[d] = NoFolder THEN [table EXCEPT ![d] = {}] ELSE table
    /\ Goes(h, [step |-> "save", todo |-> Command("mkdir", "none", d)])
    /\ UNCHANGED <<mutex, disk, overlaid, names, commands>>

\* MOVE f d looks the name up, lets go of trie_mutex and then uses the folders.
StartMove(h, f, d) ==
    /\ handler[h] = Idle /\ f \in names
    /\ Goes(h, [step |-> "found", todo |-> Command("move", f, d)])
    /\ UNCHANGED <<table, mutex, disk, overlaid, names, commands>>

\* Mutant of TakenOut: only the target folder is looked through.
TakenOutOf(f, d) == [table EXCEPT ![d] = IF @ = NoFolder THEN @ ELSE @ \ {f}]
TakenOut(f, d) ==
    [e \in Folders |-> IF table[e] = NoFolder THEN NoFolder ELSE table[e] \ {f}]

\* A full folder: the file stays out of the folder it was in.
\* Mutant of GivesUp: folders_mutex is not let go.
GivesUpLocked(h) ==
    /\ table' = TakenOut(handler[h].todo.file, handler[h].todo.folder)
    /\ Goes(h, Idle) /\ mutex' = h
GivesUp(h) ==
    /\ table' = TakenOut(handler[h].todo.file, handler[h].todo.folder)
    /\ Goes(h, Idle) /\ UNCHANGED mutex

\* The file leaves its folder first.  If the target does not exist create_folder
\* locks the mutex once more, for ever; if it is full MOVE gives up.
MoveInTable(h) ==
    LET f == handler[h].todo.file
        d == handler[h].todo.folder
        taken == TakenOut(f, d)
    IN  /\ handler[h].step = "found" /\ mutex = NoOne
        /\ \/ /\ table[d] = NoFolder
              /\ table' = taken /\ mutex' = h
              /\ Goes(h, [handler[h] EXCEPT !.step = "hung"])
           \/ /\ table[d] # NoFolder /\ Cardinality(taken[d]) >= Room
              /\ GivesUp(h)
           \/ /\ table[d] # NoFolder /\ Cardinality(taken[d]) < Room
              /\ table' = [taken EXCEPT ![d] = @ \cup {f}]
              /\ Goes(h, [handler[h] EXCEPT !.step = "save"]) /\ UNCHANGED mutex
        /\ UNCHANGED <<disk, overlaid, names, commands>>

\* folders_save_to_disk.
OpenSave(h) ==
    /\ handler[h].step = "save" /\ disk' = NoFolders /\ overlaid' = {}
    /\ Goes(h, [handler[h] EXCEPT !.step = "opened"])
    /\ UNCHANGED <<table, mutex, names, commands>>

CopyTable(h) ==
    /\ handler[h].step = "opened" /\ mutex = NoOne
    /\ Goes(h, [step |-> "copied", todo |-> handler[h].todo, copy |-> table])
    /\ UNCHANGED <<table, mutex, disk, overlaid, names, commands>>

\* Mutant of CloseSave: the file is not closed, so nothing reaches the disk.
LeaveOpen(h) ==
    /\ handler[h].step = "copied"
    /\ Goes(h, [step |-> "saved", todo |-> handler[h].todo])
    /\ UNCHANGED <<table, mutex, disk, overlaid, names, commands>>

\* Written over what another one wrote meanwhile, the end of that may stay.
CloseSave(h) ==
    LET open == {o \in Handlers : handler[o].step \in {"opened", "copied"}}
    IN  /\ handler[h].step = "copied"
        /\ \/ disk' = handler[h].copy
           \/ h \in overlaid /\ disk # handler[h].copy /\ disk' = Garbled
        /\ overlaid' = (overlaid \cup open) \ {h}
        /\ Goes(h, [step |-> "saved", todo |-> handler[h].todo])
        /\ UNCHANGED <<table, mutex, names, commands>>

\* MOVE looks the name up again, under trie_mutex.  Then the handler sends, sets the
\* time-out of the socket to a second and waits for an answer; it waits without one if
\* the heartbeat or another broadcast has restored the time-out in between.
Sends(todo) == todo.kind = "mkdir" \/ todo.file \in names
Send(h) ==
    /\ handler[h].step = "saved"
    /\ \/ /\ Sends(handler[h].todo) /\ commands' = Append(commands, handler[h].todo)
          /\ \E wait \in Waiting : Goes(h, wait)
       \/ ~Sends(handler[h].todo) /\ Goes(h, Idle) /\ UNCHANGED commands
    /\ UNCHANGED <<table, mutex, disk, overlaid, names>>

\* An answer, a lost connection or the time-out; the handler does not look which.
EndWait(h) ==
    /\ handler[h] \in Waiting /\ Goes(h, Idle)
    /\ UNCHANGED <<table, mutex, disk, overlaid, names, commands>>

\* The naming server starts again with what folders.dat says.  Lines are written
\* whole and read up to 4095 characters; a folder with Room files fits in one here.
RestartNaming ==
    /\ table' \in IF disk = Garbled THEN Tables ELSE {disk}
    /\ mutex' = NoOne /\ handler' = [h \in Handlers |-> Idle] /\ overlaid' = {}
    /\ commands' = <<>> /\ UNCHANGED <<disk, names>>

GoesOn(h) ==
    \/ MoveInTable(h) \/ OpenSave(h) \/ CopyTable(h) \/ CloseSave(h)
    \/ Send(h) \/ EndWait(h)
=============================================================================
