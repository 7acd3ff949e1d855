-------------------------- MODULE NamespaceProofs --------------------------
(***************************************************************************)
(* What holds of folders and files for any number of them, of handlers and *)
(* of restarts: a file is in one folder, folders.dat follows the table and *)
(* a file is stored once, each unless the mishap it names has happened.    *)
(***************************************************************************)
EXTENDS Namespace, FiniteSetTheorems, SequenceTheorems, TLAPS

MoveTodos == [kind : {"move"}, file : Files, folder : Folders]
Todos == [kind : {"mkdir"}, file : {"none"}, folder : Folders] \cup MoveTodos
States == {Idle} \cup Waiting \cup [step : {"found", "hung"}, todo : MoveTodos]
            \cup [step : {"save", "opened", "saved"}, todo : Todos]
            \cup [step : {"copied"}, todo : Todos, copy : Tables]
Sessions == [file : Files, at : Places, append : BOOLEAN]

FolderTypes ==
    /\ table \in Tables /\ disk \in Tables \cup {Garbled}
    /\ handler \in [Handlers -> States] /\ overlaid \subseteq Handlers
    /\ commands \in Seq(Todos) /\ names \subseteq Files
StorageTypes ==
    /\ entry \in [Files -> [Places -> {"none", "file", "dir"}]]
    /\ session \in {NoSession} \cup Sessions /\ mishaps \subseteq Kinds
Types == FolderTypes /\ StorageTypes

\* No two folders of t share a file.
Apart(t) ==
    \A d, e \in Folders :
      d # e /\ t[d] # NoFolder /\ t[e] # NoFolder => t[d] \cap t[e] = {}

\* A table, what was saved of it and what is being saved keep files apart.
KeptApart ==
    "garbled" \notin mishaps =>
      /\ Apart(table) /\ (disk # Garbled => Apart(disk))
      /\ \A h \in Handlers : handler[h].step = "copied" => Apart(handler[h].copy)

\* Saves follow each other; whoever has changed the table and not yet copied it
\* is still to save it.
Settled == \A h \in Handlers : handler[h].step \notin {"save", "opened", "hung"}
Copied(h) == handler[h].step = "copied"
SavesFollow ==
    "full" \notin mishaps /\ "race" \notin mishaps =>
      /\ overlaid = {} /\ disk \in Tables
      /\ \A g, h \in Saving : g = h
      /\ Settled => /\ \A h \in Handlers : Copied(h) => handler[h].copy = table
                    /\ (\A h \in Handlers : ~Copied(h)) => disk = table

\* A known file is somewhere; without a stray copy nothing is in two places, and
\* of an unknown file nothing is left.
Kept ==
    /\ \A f \in names : \E p \in Places : entry[f][p] = "file"
    /\ "stray" \notin mishaps =>
         \A f \in Files, p \in Places : entry[f][p] = "file" =>
           /\ f \in names
           /\ \A q \in Places : entry[f][q] = "file" => p = q

\* Who has changed the table for a MOVE of f and not yet told the storage server;
\* where in what it was told f is moved.
Hung == \E h \in Handlers : handler[h].step = "hung"
Untold == {"save", "opened", "copied", "saved"}
Unsent(h, f) ==
    handler[h].step \in Untold /\ handler[h].todo.kind = "move" /\ handler[h].todo.file = f
Orders == 1..Len(commands)
Sent(i, f) == commands[i].kind = "move" /\ commands[i].file = f

\* Only known files are moved or in a folder.
MovesKnown ==
    /\ \A h \in Handlers :
         Busy(handler[h]) /\ handler[h].todo.kind = "move" => handler[h].todo.file \in names
    /\ \A i \in Orders : commands[i].kind = "move" => commands[i].file \in names
    /\ \A f \in Files \ names : In(f, table) = {}

OneMover ==
    \A f \in Files, g, h \in Handlers : Unsent(g, f) /\ Unsent(h, f) => g = h

\* The folder of a file is the target of the MOVE that is still to be sent, or else
\* of the last one that is still to be applied, or else where the file is stored.
FiledWhereTold ==
    \A f \in names :
      /\ \A h \in Handlers : Unsent(h, f) => In(f, table) = {handler[h].todo.folder}
      /\ (\A h \in Handlers : ~Unsent(h, f)) =>
           /\ \A i \in Orders :
                Sent(i, f) /\ (\A j \in Orders : Sent(j, f) => j <= i)
                  => In(f, table) = {commands[i].folder}
           /\ (\A i \in Orders : ~Sent(i, f)) => In(f, table) = Holding(f) \ {Root}

\* A folder is a directory, or the command to make it is under way.
Making(h, d) ==
    handler[h].step \in Untold /\ handler[h].todo.kind = "mkdir" /\ handler[h].todo.folder = d
FoldersMade ==
    \A d \in Folders : table[d] # NoFolder =>
      \/ d \in dirs \/ \E h \in Handlers : Making(h, d)
      \/ \E i \in Orders : commands[i].kind = "mkdir" /\ commands[i].folder = d

Filing == MovesKnown /\ OneMover /\ FiledWhereTold /\ FoldersMade
Filed == Only({"race"}) /\ ~Hung => Filing

IInv == Types /\ KeptApart /\ SavesFollow /\ Kept /\ Filed

-----------------------------------------------------------------------------
\* Taking a file out of all folders, and putting it in one, keeps them apart.
LEMMA TakingOut ==
    ASSUME table \in Tables, Apart(table), NEW f, NEW d \in Folders
    PROVE  /\ TakenOut(f, d) \in Tables /\ Apart(TakenOut(f, d))
           /\ (f \in Files /\ table[d] # NoFolder)
                => LET t == [TakenOut(f, d) EXCEPT ![d] = @ \cup {f}]
                   IN  t \in Tables /\ Apart(t)
  BY DEF TakenOut, Tables, Apart

\* The states a handler goes through.
LEMMA StatesOf ==
    ASSUME Types, NEW h \in Handlers
    PROVE  /\ handler[h] \in States
           /\ handler[h].step \in {"found", "hung", "save", "opened", "copied", "saved"}
                => handler[h].todo \in Todos
           /\ handler[h].step = "copied" => handler[h].copy \in Tables
           /\ handler[h].todo \in Todos /\ handler[h].todo.kind = "move"
                => handler[h].todo.file \in Files
  BY DEF Types, FolderTypes, States, Idle, Waiting, Todos, MoveTodos

\* What rename does to the place of every file.
Blocked(f, p, d) == entry[f][d] # "none" /\ {entry[f][p], entry[f][d]} # {"file"}
LEMMA RenamedIs ==
    ASSUME Types, NEW f \in Files, NEW p \in Places, NEW d \in Places
    PROVE  /\ Renamed(f, p, d) \in [Files -> [Places -> {"none", "file", "dir"}]]
           /\ p = d \/ Blocked(f, p, d) => Renamed(f, p, d) = entry
           /\ \A g \in Files \ {f} : Renamed(f, p, d)[g] = entry[g]
           /\ p # d /\ ~Blocked(f, p, d) =>
                /\ Renamed(f, p, d)[f][d] = entry[f][p]
                /\ Renamed(f, p, d)[f][p] = "none"
                /\ \A q \in Places \ {p, d} : Renamed(f, p, d)[f][q] = entry[f][q]
<1> DEFINE row == [entry[f] EXCEPT ![p] = "none", ![d] = entry[f][p]]
           moved == [entry EXCEPT ![f][p] = "none", ![f][d] = entry[f][p]]
<1>1. entry[f] \in [Places -> {"none", "file", "dir"}]
  BY DEF Types, StorageTypes
<1>2. row \in [Places -> {"none", "file", "dir"}]
  BY <1>1
<1>3. moved = [entry EXCEPT ![f] = row]
  BY DEF Types, StorageTypes
<1>4. /\ moved \in [Files -> [Places -> {"none", "file", "dir"}]] /\ moved[f] = row
      /\ \A g \in Files \ {f} : moved[g] = entry[g]
  <2> HIDE DEF row, moved
  <2> QED BY <1>2, <1>3 DEF Types, StorageTypes
<1>5. p # d => /\ row[d] = entry[f][p] /\ row[p] = "none"
               /\ \A q \in Places \ {p, d} : row[q] = entry[f][q]
  BY <1>1
<1>6. Renamed(f, p, d) = IF p = d \/ Blocked(f, p, d) THEN entry ELSE moved
  BY DEF Renamed, Blocked
<1>7. entry \in [Files -> [Places -> {"none", "file", "dir"}]]
  BY DEF Types, StorageTypes
<1> HIDE DEF row, moved
<1> QED BY <1>4, <1>5, <1>6, <1>7

-----------------------------------------------------------------------------
(* Types.                                                                   *)

LEMMA InitTypes == Init => Types
<1> SUFFICES ASSUME Init PROVE Types
  OBVIOUS
<1>1. PICK made \in SUBSET Folders, known \in SUBSET Files :
        /\ FoldersInit(made, known) /\ dirs = made
        /\ entry = [f \in Files |-> [p \in Places |->
                      IF p = Root /\ f \in known THEN "file" ELSE "none"]]
  BY DEF Init
<1>2. EmptyFolders(made) \in Tables
  BY DEF EmptyFolders, Tables
<1>3. FolderTypes
  BY <1>1, <1>2 DEF FolderTypes, FoldersInit, States
<1>4. StorageTypes
  BY <1>1 DEF StorageTypes, Init
<1> QED BY <1>3, <1>4 DEF Types

LEMMA GoesTypes ==
    ASSUME Types, NEW h \in Handlers, NEW to \in States, Goes(h, to)
    PROVE  handler' \in [Handlers -> States]
  BY DEF Goes, Types, FolderTypes

LEMMA NextTypes == Types /\ [Next]_vars => Types'
<1> SUFFICES ASSUME Types, [Next]_vars PROVE Types'
  OBVIOUS
<1> USE DEF Types
<1>1. ASSUME NEW h \in Handlers, NEW d \in Folders, CallCreateFolder(h, d)
      PROVE  Types'
  <2>1. CreateFolder(h, d)
    BY <1>1 DEF CallCreateFolder
  <2>2. Command("mkdir", "none", d) \in Todos
    BY DEF Command, Todos
  <2>3. [step |-> "save", todo |-> Command("mkdir", "none", d)] \in States
    BY <2>2 DEF States
  <2>4. handler' \in [Handlers -> States]
    BY <2>1, <2>3, GoesTypes DEF CreateFolder
  <2>5. table' \in Tables
    BY <2>1 DEF CreateFolder, FolderTypes, Tables
  <2> QED BY <1>1, <2>1, <2>4, <2>5
          DEF CallCreateFolder, CreateFolder, FolderTypes, StorageTypes, storageVars
<1>2. ASSUME NEW h \in Handlers, NEW d \in Folders, NEW f \in Files, CallMove(h, f, d)
      PROVE  Types'
  <2>1. StartMove(h, f, d)
    BY <1>2 DEF CallMove
  <2>2. Command("move", f, d) \in MoveTodos
    BY DEF Command, MoveTodos
  <2>3. [step |-> "found", todo |-> Command("move", f, d)] \in States
    BY <2>2 DEF States
  <2>4. handler' \in [Handlers -> States]
    BY <2>1, <2>3, GoesTypes DEF StartMove
  <2> QED BY <1>2, <2>1, <2>4
          DEF CallMove, StartMove, FolderTypes, StorageTypes, storageVars
<1>3. ASSUME NEW h \in Handlers, DoMoveInTable(h)
      PROVE  Types'
  <2> DEFINE f == handler[h].todo.file
             d == handler[h].todo.folder
  <2>1. MoveInTable(h) /\ UNCHANGED storageVars
    BY <1>3 DEF DoMoveInTable
  <2>2. /\ handler[h].step = "found"
        /\ handler[h] \in [step : {"found", "hung"}, todo : MoveTodos]
    BY <2>1 DEF MoveInTable, FolderTypes, States, Idle, Waiting
  <2>3. d \in Folders /\ [handler[h] EXCEPT !.step = "hung"] \in States
        /\ [handler[h] EXCEPT !.step = "save"] \in States
    BY <2>2 DEF States, Todos, MoveTodos
  <2>4. Idle \in States
    BY DEF States
  <2>5. handler' \in [Handlers -> States]
    BY <2>1, <2>3, <2>4, GoesTypes DEF MoveInTable, GivesUp
  <2>6. table' \in Tables
    <3>1. f \in Files
      BY <2>2 DEF MoveTodos
    <3>2. TakenOut(f, d) \in Tables
      BY DEF TakenOut, FolderTypes, Tables
    <3>3. table[d] # NoFolder => [TakenOut(f, d) EXCEPT ![d] = @ \cup {f}] \in Tables
      BY <2>3, <3>1 DEF TakenOut, FolderTypes, Tables
    <3> QED BY <2>1, <3>2, <3>3 DEF MoveInTable, GivesUp
  <2>7. mishaps' \subseteq Kinds
    BY <1>3 DEF DoMoveInTable, StorageTypes, Kinds
  <2> QED BY <2>1, <2>5, <2>6, <2>7
          DEF MoveInTable, GivesUp, FolderTypes, StorageTypes, storageVars
<1>4. ASSUME NEW h \in Handlers, DoOpenSave(h)
      PROVE  Types'
  <2>1. OpenSave(h) /\ UNCHANGED storageVars
    BY <1>4 DEF DoOpenSave
  <2>2. [handler[h] EXCEPT !.step = "opened"] \in States
    BY <2>1 DEF OpenSave, FolderTypes, States, Idle, Waiting
  <2>3. handler' \in [Handlers -> States]
    BY <2>1, <2>2, GoesTypes DEF OpenSave
  <2>4. disk' \in Tables
    BY <2>1 DEF OpenSave, NoFolders, Tables
  <2>5. mishaps' \subseteq Kinds
    BY <1>4 DEF DoOpenSave, Note, StorageTypes, Kinds
  <2> QED BY <2>1, <2>3, <2>4, <2>5 DEF OpenSave, FolderTypes, StorageTypes, storageVars
<1>5. ASSUME NEW h \in Handlers, DoSave(h)
      PROVE  Types'
  <2>1. CASE CopyTable(h)
    <3>1. [step |-> "copied", todo |-> handler[h].todo, copy |-> table] \in States
      BY <2>1, StatesOf DEF CopyTable, FolderTypes, States
    <3>2. handler' \in [Handlers -> States]
      BY <2>1, <3>1, GoesTypes DEF CopyTable
    <3> QED BY <1>5, <2>1, <3>2
            DEF DoSave, CopyTable, FolderTypes, StorageTypes, storageVars
  <2>2. CASE CloseSave(h)
    <3>1. [step |-> "saved", todo |-> handler[h].todo] \in States
          /\ handler[h].copy \in Tables
      BY <2>2, StatesOf DEF CloseSave, States
    <3>2. handler' \in [Handlers -> States]
      BY <2>2, <3>1, GoesTypes DEF CloseSave
    <3> QED BY <1>5, <2>2, <3>1, <3>2
            DEF DoSave, CloseSave, FolderTypes, StorageTypes, storageVars
  <2> QED BY <1>5, <2>1, <2>2 DEF DoSave
<1>6. ASSUME NEW h \in Handlers, DoSend(h)
      PROVE  Types'
  <2>1. Idle \in States /\ Waiting \subseteq States
    BY DEF States
  <2>2. handler' \in [Handlers -> States]
    BY <1>6, <2>1, GoesTypes DEF DoSend, Send
  <2>3. handler[h].todo \in Todos
    BY <1>6, StatesOf DEF DoSend, Send
  <2>4. commands' \in Seq(Todos)
    BY <1>6, <2>3 DEF DoSend, Send, FolderTypes
  <2> QED BY <1>6, <2>2, <2>4 DEF DoSend, Send, FolderTypes, StorageTypes, storageVars
<1>7. CASE ApplyMkdir
  <2>1. Tail(commands) \in Seq(Todos)
    BY <1>7 DEF ApplyMkdir, FolderTypes
  <2> QED BY <1>7, <2>1 DEF ApplyMkdir, FolderTypes, StorageTypes, tableVars
<1>8. CASE ApplyMove
  <2> DEFINE f == Head(commands).file
             d == Head(commands).folder
  <2>1. Tail(commands) \in Seq(Todos) /\ Head(commands) \in Todos
    BY <1>8 DEF ApplyMove, FolderTypes
  <2>2. f \in Files /\ d \in Places
    BY <1>8, <2>1 DEF ApplyMove, Todos, MoveTodos, Places
  <2>3. PICK p \in PathsOf(f) : /\ entry' = Renamed(f, p, d)
                                /\ Note("misled", entry[f][p] = "dir" \/ entry[f][d] = "dir")
    BY <1>8 DEF ApplyMove
  <2>4. p \in Places
    BY DEF PathsOf, Found, Places
  <2>5. entry' \in [Files -> [Places -> {"none", "file", "dir"}]]
    <3> HIDE DEF f, d
    <3>1. Renamed(f, p, d) \in [Files -> [Places -> {"none", "file", "dir"}]]
      BY <2>2, <2>4, RenamedIs
    <3> QED BY <2>3, <3>1
  <2>6. mishaps' \subseteq Kinds
    BY <2>3 DEF Note, StorageTypes, Kinds
  <2> QED BY <1>8, <2>1, <2>5, <2>6 DEF ApplyMove, FolderTypes, StorageTypes, tableVars
<1>9. CASE EndWrite
  <2>1. session \in Sessions
    BY <1>9 DEF EndWrite, StorageTypes
  <2>2. entry' \in [Files -> [Places -> {"none", "file", "dir"}]]
    <3>1. session.file \in Files /\ session.at \in Places
      BY <2>1 DEF Sessions
    <3>2. entry' = entry \/ entry' = [entry EXCEPT ![session.file][session.at] = "file"]
      BY <1>9 DEF EndWrite
    <3> QED BY <3>1, <3>2 DEF StorageTypes
  <2>3. mishaps' \subseteq Kinds
    BY <1>9 DEF EndWrite, Note, StorageTypes, Kinds
  <2> QED BY <1>9, <2>2, <2>3 DEF EndWrite, FolderTypes, StorageTypes, foldersVars, tableVars
<1>10. CASE DoRestartNaming
  <2>1. table' \in Tables
    BY <1>10 DEF DoRestartNaming, RestartNaming, FolderTypes
  <2>2. handler' \in [Handlers -> States]
    BY <1>10 DEF DoRestartNaming, RestartNaming, States
  <2>3. mishaps' \subseteq Kinds
    BY <1>10 DEF DoRestartNaming, StorageTypes, Kinds
  <2>4. commands' \in Seq(Todos)
    BY <1>10 DEF DoRestartNaming, RestartNaming
  <2> QED BY <1>10, <2>1, <2>2, <2>3, <2>4
          DEF DoRestartNaming, RestartNaming, FolderTypes, StorageTypes, storageVars
<1>11. CASE RestartStorage
  <2>1. commands' \in Seq(Todos) /\ mishaps' \subseteq Kinds
    BY <1>11 DEF RestartStorage, Note, StorageTypes, Kinds
  <2> QED BY <1>11, <2>1 DEF RestartStorage, FolderTypes, StorageTypes, tableVars
<1>12. ASSUME NEW f \in Files, Create(f) \/ Delete(f) \/ Checkpoint(f)
       PROVE  Types'
  <2>1. mishaps' \subseteq Kinds
    BY <1>12 DEF Create, Delete, Checkpoint, Note, StorageTypes, Kinds
  <2>2. entry' \in [Files -> [Places -> {"none", "file", "dir"}]]
    BY <1>12 DEF Create, Delete, Checkpoint, StorageTypes, Places
  <2> QED BY <1>12, <2>1, <2>2
          DEF Create, Delete, Checkpoint, FolderTypes, StorageTypes, foldersVars, tableVars
<1>13. ASSUME NEW f \in Files, NEW append \in BOOLEAN, StartWrite(f, append)
       PROVE  Types'
  <2>1. PathsOf(f) \subseteq Places
    BY DEF PathsOf, Found, Places
  <2>2. session' \in Sessions
    BY <1>13, <2>1 DEF StartWrite, Sessions
  <2> QED BY <1>13, <2>2 DEF StartWrite, FolderTypes, StorageTypes, foldersVars, tableVars
<1>14. CASE UNCHANGED vars
  BY <1>14 DEF vars, foldersVars, tableVars, storageVars, FolderTypes, StorageTypes
<1>15. ASSUME NEW h \in Handlers, DoEndWait(h)
       PROVE  Types'
  <2>1. Idle \in States
    BY DEF States
  <2>2. handler' \in [Handlers -> States]
    BY <1>15, <2>1, GoesTypes DEF DoEndWait, EndWait
  <2> QED BY <1>15, <2>2 DEF DoEndWait, EndWait, FolderTypes, StorageTypes, storageVars
<1> QED BY <1>1, <1>2, <1>3, <1>4, <1>5, <1>6, <1>7, <1>8, <1>9, <1>10, <1>11, <1>12,
           <1>13, <1>14, <1>15 DEF Next, HandlerStep, StorageStep

-----------------------------------------------------------------------------
(* A file is in one folder.                                                 *)

LEMMA NextApart == Types /\ KeptApart /\ [Next]_vars => KeptApart'
<1> SUFFICES ASSUME Types, KeptApart, [Next]_vars, "garbled" \notin mishaps'
             PROVE  /\ Apart(table') /\ (disk' # Garbled => Apart(disk'))
                    /\ \A h \in Handlers :
                         handler'[h].step = "copied" => Apart(handler'[h].copy)
  BY DEF KeptApart, Apart
<1> DEFINE Goal == /\ Apart(table') /\ (disk' # Garbled => Apart(disk'))
                   /\ \A h \in Handlers :
                        handler'[h].step = "copied" => Apart(handler'[h].copy)
<1>0. mishaps \subseteq mishaps'
  BY DEF Next, HandlerStep, StorageStep, CallCreateFolder, CallMove, DoMoveInTable,
         DoOpenSave, DoSave, DoSend, DoEndWait, ApplyMkdir, ApplyMove, EndWrite, DoRestartNaming,
         RestartStorage, Create, Delete, Checkpoint, StartWrite, Note, vars
<1>a. KeptApart!2
  BY <1>0 DEF KeptApart
<1>b. handler \in [Handlers -> States] /\ table \in Tables
  BY DEF Types, FolderTypes
<1>1. ASSUME NEW h \in Handlers, NEW d \in Folders, CallCreateFolder(h, d)
      PROVE  Goal
  <2>1. Apart(table')
    BY <1>1, <1>a, <1>b DEF CallCreateFolder, CreateFolder, Apart, Tables
  <2> QED BY <1>1, <2>1, <1>a, <1>b DEF CallCreateFolder, CreateFolder, Goes
<1>2. ASSUME NEW h \in Handlers, NEW d \in Folders, NEW f \in Files, CallMove(h, f, d)
      PROVE  Goal
  BY <1>2, <1>a, <1>b DEF CallMove, StartMove, Goes
<1>3. ASSUME NEW h \in Handlers, DoMoveInTable(h)
      PROVE  Goal
  <2> DEFINE f == handler[h].todo.file
             d == handler[h].todo.folder
  <2>1. MoveInTable(h)
    BY <1>3 DEF DoMoveInTable
  <2>2. f \in Files /\ d \in Folders
    BY <2>1, <1>b DEF MoveInTable, States, Idle, Waiting, MoveTodos
  <2> DEFINE filled == [TakenOut(f, d) EXCEPT ![d] = @ \cup {f}]
  <2>3. table' = TakenOut(f, d) \/ (table[d] # NoFolder /\ table' = filled)
    BY <2>1 DEF MoveInTable, GivesUp
  <2>4. Apart(TakenOut(f, d)) /\ (table[d] # NoFolder => Apart(filled))
    <3> HIDE DEF f, d
    <3> QED BY <2>2, <1>a, <1>b, TakingOut
  <2>5. PICK to \in States : Goes(h, to) /\ to.step \in {"idle", "hung", "save"}
    <3>1. handler[h] \in [step : {"found", "hung"}, todo : MoveTodos]
      BY <2>1, <1>b DEF MoveInTable, States, Idle, Waiting
    <3>2. /\ [handler[h] EXCEPT !.step = "hung"] \in States
          /\ [handler[h] EXCEPT !.step = "save"] \in States /\ Idle \in States
          /\ [handler[h] EXCEPT !.step = "hung"].step = "hung"
          /\ [handler[h] EXCEPT !.step = "save"].step = "save" /\ Idle.step = "idle"
      BY <3>1 DEF States, Todos, Idle
    <3> QED BY <2>1, <3>2 DEF MoveInTable, GivesUp
  <2>6. Apart(table') /\ disk' = disk
    BY <2>1, <2>3, <2>4 DEF MoveInTable, Apart
  <2>7. \A o \in Handlers : handler'[o].step = "copied" => handler'[o] = handler[o]
    BY <2>5, <1>b DEF Goes
  <2> QED BY <2>6, <2>7, <1>a
<1>4. ASSUME NEW h \in Handlers, DoOpenSave(h)
      PROVE  Goal
  <2>1. Apart(disk')
    BY <1>4 DEF DoOpenSave, OpenSave, NoFolders, Apart
  <2> QED BY <1>4, <2>1, <1>a, <1>b DEF DoOpenSave, OpenSave, Goes
<1>5. ASSUME NEW h \in Handlers, DoSave(h)
      PROVE  Goal
  <2>1. CASE CopyTable(h)
    BY <2>1, <1>a, <1>b DEF CopyTable, Goes
  <2>2. CASE CloseSave(h)
    BY <2>2, <1>a, <1>b DEF CloseSave, Goes
  <2> QED BY <1>5, <2>1, <2>2 DEF DoSave
<1>6. ASSUME NEW h \in Handlers, DoSend(h)
      PROVE  Goal
  BY <1>6, <1>a, <1>b DEF DoSend, Send, Goes, Idle, Waiting
<1>e. ASSUME NEW h \in Handlers, DoEndWait(h)
      PROVE  Goal
  BY <1>e, <1>a, <1>b DEF DoEndWait, EndWait, Goes, Idle
<1>7. CASE DoRestartNaming
  BY <1>7, <1>a DEF DoRestartNaming, RestartNaming, Idle
<1>8. CASE UNCHANGED tableVars
  BY <1>8, <1>a DEF tableVars
<1>9. ApplyMkdir \/ ApplyMove \/ EndWrite \/ RestartStorage \/ UNCHANGED vars
        => UNCHANGED tableVars
  BY DEF ApplyMkdir, ApplyMove, EndWrite, RestartStorage, vars, foldersVars
<1>10. ASSUME NEW f \in Files
       PROVE  /\ Create(f) \/ Delete(f) \/ Checkpoint(f) => UNCHANGED tableVars
              /\ \A append \in BOOLEAN : StartWrite(f, append) => UNCHANGED tableVars
  BY DEF Create, Delete, Checkpoint, StartWrite, foldersVars
<1> QED BY <1>e, <1>1, <1>2, <1>3, <1>4, <1>5, <1>6, <1>7, <1>8, <1>9, <1>10
        DEF Next, HandlerStep, StorageStep

-----------------------------------------------------------------------------
(* folders.dat follows the table.                                           *)

LEMMA NextSaves == Types /\ SavesFollow /\ [Next]_vars => SavesFollow'
<1> SUFFICES ASSUME Types, SavesFollow, [Next]_vars,
                    "full" \notin mishaps', "race" \notin mishaps'
             PROVE  SavesFollow'
  BY DEF SavesFollow
<1> DEFINE One == overlaid = {} /\ disk \in Tables /\ \A g, h \in Saving : g = h
           Same == Settled => /\ \A h \in Handlers : Copied(h) => handler[h].copy = table
                              /\ (\A h \in Handlers : ~Copied(h)) => disk = table
<1> SUFFICES One' /\ Same'
  BY DEF SavesFollow
<1>0. mishaps \subseteq mishaps'
  BY DEF Next, HandlerStep, StorageStep, CallCreateFolder, CallMove, DoMoveInTable,
         DoOpenSave, DoSave, DoSend, DoEndWait, ApplyMkdir, ApplyMove, EndWrite, DoRestartNaming,
         RestartStorage, Create, Delete, Checkpoint, StartWrite, Note, vars
<1>a. One /\ Same
  BY <1>0 DEF SavesFollow
<1>b. handler \in [Handlers -> States] /\ table \in Tables
  BY DEF Types, FolderTypes
<1>1. ASSUME NEW h \in Handlers, NEW d \in Folders, CallCreateFolder(h, d)
      PROVE  One' /\ Same'
  <2>1. handler'[h].step = "save" /\ \A o \in Handlers \ {h} : handler'[o] = handler[o]
    BY <1>1, <1>b DEF CallCreateFolder, CreateFolder, Goes
  <2>2. ~Settled'
    BY <2>1 DEF Settled
  <2>3. overlaid' = overlaid /\ disk' = disk
    BY <1>1 DEF CallCreateFolder, CreateFolder
  <2> QED BY <2>1, <2>2, <2>3, <1>a DEF Saving
<1>2. ASSUME NEW h \in Handlers, NEW d \in Folders, NEW f \in Files, CallMove(h, f, d)
      PROVE  One' /\ Same'
  <2>1. /\ handler[h].step = "idle" /\ handler'[h].step = "found"
        /\ \A o \in Handlers \ {h} : handler'[o] = handler[o]
    BY <1>2, <1>b DEF CallMove, StartMove, Goes, Idle
  <2>2. UNCHANGED <<overlaid, disk, table>>
    BY <1>2 DEF CallMove, StartMove
  <2> QED BY <2>1, <2>2, <1>a DEF Saving, Settled, Copied
<1>3. ASSUME NEW h \in Handlers, DoMoveInTable(h)
      PROVE  One' /\ Same'
  <2>1. MoveInTable(h) /\ UNCHANGED <<overlaid, disk>>
    BY <1>3 DEF DoMoveInTable, MoveInTable
  <2>2. /\ handler[h].step = "found"
        /\ \A o \in Handlers \ {h} : handler'[o] = handler[o]
    BY <2>1, <1>b DEF MoveInTable, GivesUp, Goes
  <2>3. CASE handler'[h].step \in {"hung", "save"}
    <3>1. ~Settled'
      BY <2>3 DEF Settled
    <3> QED BY <2>1, <2>2, <2>3, <3>1, <1>a DEF Saving
  <2>4. CASE handler'[h] = Idle
    <3>1. table' = table
      BY <1>3, <2>4 DEF DoMoveInTable
    <3> QED BY <2>1, <2>2, <2>4, <3>1, <1>a DEF Saving, Settled, Copied, Idle
  <2>5. handler'[h] = Idle \/ handler'[h].step \in {"hung", "save"}
    <3>1. handler[h] \in [step : {"found", "hung"}, todo : MoveTodos]
      BY <2>2, <1>b DEF States, Idle, Waiting
    <3>2. /\ [handler[h] EXCEPT !.step = "hung"].step = "hung"
          /\ [handler[h] EXCEPT !.step = "save"].step = "save"
      BY <3>1
    <3> QED BY <2>1, <3>2, <1>b DEF MoveInTable, GivesUp, Goes
  <2> QED BY <2>3, <2>4, <2>5
<1>4. ASSUME NEW h \in Handlers, DoOpenSave(h)
      PROVE  One' /\ Same'
  <2>1. Saving = {}
    BY <1>4 DEF DoOpenSave, Note
  <2>2. OpenSave(h)
    BY <1>4 DEF DoOpenSave
  <2>3. /\ handler'[h].step = "opened"
        /\ \A o \in Handlers \ {h} : handler'[o] = handler[o]
    <3>1. handler[h] \in [step : {"save", "opened", "saved"}, todo : Todos]
      BY <2>2, <1>b DEF OpenSave, States, Idle, Waiting
    <3>2. [handler[h] EXCEPT !.step = "opened"].step = "opened"
      BY <3>1
    <3> QED BY <2>2, <3>2, <1>b DEF OpenSave, Goes
  <2>4. ~Settled'
    BY <2>3 DEF Settled
  <2>5. overlaid' = {} /\ disk' \in Tables
    BY <2>2 DEF OpenSave, NoFolders, Tables
  <2> QED BY <2>1, <2>3, <2>4, <2>5 DEF Saving
<1>5. ASSUME NEW h \in Handlers, DoSave(h)
      PROVE  One' /\ Same'
  <2>1. CASE CopyTable(h)
    <3>1. /\ handler[h].step = "opened" /\ handler'[h].step = "copied"
          /\ handler'[h].copy = table
          /\ \A o \in Handlers \ {h} : handler'[o] = handler[o]
      BY <2>1, <1>b DEF CopyTable, Goes
    <3>2. UNCHANGED <<overlaid, disk, table>>
      BY <2>1 DEF CopyTable
    <3>3. One'
      BY <3>1, <3>2, <1>a DEF Saving
    <3>4. \A o \in Handlers : handler'[o].step = "copied" => o = h
      BY <3>1, <1>a DEF Saving
    <3> QED BY <3>1, <3>2, <3>3, <3>4 DEF Copied
  <2>2. CASE CloseSave(h)
    <3>1. /\ handler[h].step = "copied" /\ handler'[h].step = "saved"
          /\ \A o \in Handlers \ {h} : handler'[o] = handler[o]
      BY <2>2, <1>b DEF CloseSave, Goes
    <3>2. Saving = {h}
      BY <3>1, <1>a DEF Saving
    <3>3. overlaid' = {} /\ disk' = handler[h].copy /\ table' = table
      <4>1. overlaid' = (overlaid \cup Saving) \ {h}
        BY <2>2 DEF CloseSave, Saving
      <4> QED BY <2>2, <3>2, <4>1, <1>a DEF CloseSave
    <3>4. disk' \in Tables
      BY <3>1, <3>3, StatesOf
    <3>5. Saving' = {}
      BY <3>1, <3>2 DEF Saving
    <3>6. Settled' => Settled
      BY <3>1 DEF Settled
    <3>7. Same'
      BY <3>1, <3>3, <3>5, <3>6, <1>a DEF Copied, Saving
    <3> QED BY <3>3, <3>4, <3>5, <3>7
  <2> QED BY <1>5, <2>1, <2>2 DEF DoSave
<1>6. ASSUME NEW h \in Handlers, DoSend(h)
      PROVE  One' /\ Same'
  <2>1. /\ handler[h].step = "saved" /\ ~Busy(handler'[h])
        /\ \A o \in Handlers \ {h} : handler'[o] = handler[o]
    BY <1>6, <1>b DEF DoSend, Send, Goes, Idle, Waiting, Busy
  <2>2. UNCHANGED <<overlaid, disk, table>>
    BY <1>6 DEF DoSend, Send
  <2> QED BY <2>1, <2>2, <1>a DEF Saving, Settled, Copied, Busy
<1>e. ASSUME NEW h \in Handlers, DoEndWait(h)
      PROVE  One' /\ Same'
  <2>1. /\ handler[h] \in Waiting /\ handler'[h] = Idle
        /\ \A o \in Handlers \ {h} : handler'[o] = handler[o]
    BY <1>e, <1>b DEF DoEndWait, EndWait, Goes
  <2>2. UNCHANGED <<overlaid, disk, table>>
    BY <1>e DEF DoEndWait, EndWait
  <2> QED BY <2>1, <2>2, <1>a DEF Saving, Settled, Copied, Waiting, Idle
<1>7. CASE DoRestartNaming
  <2>1. \A h \in Handlers : handler'[h].step = "idle"
    BY <1>7 DEF DoRestartNaming, RestartNaming, Idle
  <2>2. overlaid' = {} /\ disk' = disk /\ (disk # Garbled => table' = disk)
    BY <1>7 DEF DoRestartNaming, RestartNaming
  <2>3. Garbled \notin Tables
    BY FoldersAssumption DEF Tables
  <2> QED BY <2>1, <2>2, <2>3, <1>a DEF Saving, Copied
<1>8. CASE UNCHANGED tableVars
  BY <1>8, <1>a DEF tableVars, Saving, Settled, Copied
<1>9. ApplyMkdir \/ ApplyMove \/ EndWrite \/ RestartStorage \/ UNCHANGED vars
        => UNCHANGED tableVars
  BY DEF ApplyMkdir, ApplyMove, EndWrite, RestartStorage, vars, foldersVars
<1>10. ASSUME NEW f \in Files
       PROVE  /\ Create(f) \/ Delete(f) \/ Checkpoint(f) => UNCHANGED tableVars
              /\ \A append \in BOOLEAN : StartWrite(f, append) => UNCHANGED tableVars
  BY DEF Create, Delete, Checkpoint, StartWrite, foldersVars
<1> HIDE DEF One, Same
<1> QED BY <1>e, <1>1, <1>2, <1>3, <1>4, <1>5, <1>6, <1>7, <1>8, <1>9, <1>10
        DEF Next, HandlerStep, StorageStep

-----------------------------------------------------------------------------
(* A known file is stored, and stored once.                                 *)

LEMMA NextKept == Types /\ Kept /\ [Next]_vars => Kept'
<1> SUFFICES ASSUME Types, Kept, [Next]_vars PROVE Kept'
  OBVIOUS
<1>a. /\ entry \in [Files -> [Places -> {"none", "file", "dir"}]]
      /\ names \subseteq Files /\ Root \in Places /\ Checkpoints \in Places
  BY DEF Types, FolderTypes, StorageTypes, Places
<1>1. CASE UNCHANGED <<names, entry, mishaps>>
  BY <1>1 DEF Kept
<1>2. CASE UNCHANGED <<names, entry>> /\ mishaps \subseteq mishaps'
  BY <1>2 DEF Kept
<1>3. ASSUME NEW h \in Handlers
      PROVE  /\ HandlerStep(h) => UNCHANGED <<names, entry>> /\ mishaps \subseteq mishaps'
             /\ \A d \in Folders :
                  CallCreateFolder(h, d) => UNCHANGED <<names, entry, mishaps>>
             /\ \A d \in Folders, f \in Files :
                  CallMove(h, f, d) => UNCHANGED <<names, entry, mishaps>>
  BY DEF HandlerStep, DoMoveInTable, MoveInTable, DoOpenSave, OpenSave, DoSave, CopyTable,
         CloseSave, DoSend, Send, DoEndWait, EndWait, Note, CallCreateFolder, CreateFolder, CallMove, StartMove,
         storageVars
<1>4. CASE ApplyMove
  <2> DEFINE f == Head(commands).file
             d == Head(commands).folder
  <2>1. f \in Files /\ d \in Places
    <3>1. Head(commands) \in Todos /\ Head(commands).kind = "move"
      BY <1>4 DEF ApplyMove, Types, FolderTypes
    <3> QED BY <3>1 DEF Todos, MoveTodos, Places
  <2>2. PICK p \in PathsOf(f) : entry' = Renamed(f, p, d)
    BY <1>4 DEF ApplyMove
  <2>3. p \in Places
    BY DEF PathsOf, Found, Places
  <2>4. names' = names /\ mishaps \subseteq mishaps'
    BY <1>4 DEF ApplyMove, Note
  <2> HIDE DEF f, d
  <2>5. CASE p = d \/ Blocked(f, p, d)
    <3>1. entry' = entry
      BY <2>1, <2>2, <2>3, <2>5, RenamedIs
    <3> QED BY <2>4, <3>1 DEF Kept
  <2>6. CASE p # d /\ ~Blocked(f, p, d)
    <3>1. /\ \A g \in Files \ {f} : entry'[g] = entry[g]
          /\ entry'[f][d] = entry[f][p] /\ entry'[f][p] = "none"
          /\ \A q \in Places \ {p, d} : entry'[f][q] = entry[f][q]
      BY <2>1, <2>2, <2>3, <2>6, RenamedIs
    <3>2. entry[f][d] = "file" => entry[f][p] = "file"
      BY <2>6 DEF Blocked
    <3>3. ASSUME NEW g \in names
          PROVE  \E q \in Places : entry'[g][q] = "file"
      <4>1. CASE g # f
        BY <1>a, <3>1, <4>1 DEF Kept
      <4>2. CASE g = f
        <5>1. PICK q \in Places : entry[f][q] = "file"
          BY <4>2 DEF Kept
        <5>2. CASE q \in {p, d}
          BY <2>1, <3>1, <3>2, <4>2, <5>1, <5>2
        <5>3. CASE q \notin {p, d}
          BY <3>1, <4>2, <5>1, <5>3
        <5> QED BY <5>2, <5>3
      <4> QED BY <4>1, <4>2
    <3>4. ASSUME "stray" \notin mishaps', NEW g \in Files, NEW q \in Places,
                 entry'[g][q] = "file"
          PROVE  g \in names /\ \A r \in Places : entry'[g][r] = "file" => q = r
      <4>1. CASE g # f
        BY <2>4, <3>1, <3>4, <4>1 DEF Kept
      <4>2. CASE g = f
        <5>1. \A r, t \in Places : entry[f][r] = "file" /\ entry[f][t] = "file" => r = t
          BY <2>1, <2>4, <3>4 DEF Kept
        <5>2. \A r \in Places : entry'[f][r] = "file" =>
                \/ r = d /\ entry[f][p] = "file"
                \/ r \notin {p, d} /\ entry[f][r] = "file"
          BY <3>1
        <5>3. f \in names
          BY <2>1, <2>3, <2>4, <3>4, <4>2, <5>2 DEF Kept
        <5> QED BY <2>1, <2>3, <3>4, <4>2, <5>1, <5>2, <5>3
      <4> QED BY <4>1, <4>2
    <3> QED BY <2>4, <3>3, <3>4 DEF Kept
  <2> QED BY <2>5, <2>6
<1>5. CASE EndWrite
  <2>1. session \in Sessions /\ names' = names
    BY <1>5 DEF EndWrite, Types, StorageTypes, foldersVars
  <2>2. session.file \in Files /\ session.at \in Places
    BY <2>1 DEF Sessions
  <2>3. CASE UNCHANGED <<entry, mishaps>>
    BY <1>1, <2>1, <2>3
  <2>4. CASE /\ entry' = [entry EXCEPT ![session.file][session.at] = "file"]
             /\ mishaps' = mishaps \cup {"stray"}
    <3>1. \A f \in Files, p \in Places : entry[f][p] = "file" => entry'[f][p] = "file"
      BY <1>a, <2>2, <2>4
    <3> QED BY <1>a, <2>1, <2>4, <3>1 DEF Kept
  <2> QED BY <1>5, <2>3, <2>4 DEF EndWrite, Note
<1>6. CASE RestartStorage
  <2>1. /\ names \subseteq names' /\ entry' = entry /\ mishaps \subseteq mishaps'
        /\ \A f \in names' : f \in names \/ entry[f][Root] = "file"
    BY <1>6 DEF RestartStorage, Note
  <2> QED BY <1>a, <2>1 DEF Kept
<1>7. ASSUME NEW f \in Files, Create(f)
      PROVE  Kept'
  <2>1. /\ f \notin names /\ names' = names \cup {f} /\ mishaps' = mishaps
        /\ entry' = [entry EXCEPT ![f][Root] = "file"]
    BY <1>7 DEF Create
  <2>2. /\ \A g \in Files \ {f} : entry'[g] = entry[g]
        /\ entry'[f][Root] = "file"
        /\ \A p \in Places \ {Root} : entry'[f][p] = entry[f][p]
    BY <1>a, <2>1
  <2>3. \A g \in names' : \E p \in Places : entry'[g][p] = "file"
    BY <1>a, <2>1, <2>2 DEF Kept
  <2>4. ASSUME "stray" \notin mishaps', NEW g \in Files, NEW p \in Places,
               entry'[g][p] = "file"
        PROVE  g \in names' /\ \A q \in Places : entry'[g][q] = "file" => p = q
    <3>1. CASE g = f
      <4>1. \A q \in Places : entry[f][q] # "file"
        BY <2>1, <2>4 DEF Kept
      <4> QED BY <2>1, <2>2, <2>4, <3>1, <4>1
    <3>2. CASE g # f
      BY <2>1, <2>2, <2>4, <3>2 DEF Kept
    <3> QED BY <3>1, <3>2
  <2> QED BY <2>3, <2>4 DEF Kept
<1>8. ASSUME NEW f \in Files, Delete(f)
      PROVE  Kept'
  <2>1. /\ names' = names \ {f} /\ mishaps \subseteq mishaps' /\ entry[f][Root] = "file"
        /\ entry' = [entry EXCEPT ![f][Root] = "none"]
    BY <1>8 DEF Delete, Note
  <2>2. /\ \A g \in Files \ {f} : entry'[g] = entry[g]
        /\ entry'[f][Root] = "none"
        /\ \A p \in Places \ {Root} : entry'[f][p] = entry[f][p]
    BY <1>a, <2>1
  <2>3. ASSUME NEW g \in names' PROVE \E p \in Places : entry'[g][p] = "file"
    BY <1>a, <2>1, <2>2, <2>3 DEF Kept
  <2>4. ASSUME "stray" \notin mishaps', NEW g \in Files, NEW p \in Places,
               entry'[g][p] = "file"
        PROVE  g \in names' /\ \A q \in Places : entry'[g][q] = "file" => p = q
    <3>1. g # f
      <4>1. \A q \in Places : entry[f][q] = "file" => q = Root
        BY <1>a, <2>1, <2>4 DEF Kept
      <4> QED BY <2>2, <2>4, <4>1
    <3> QED BY <2>1, <2>2, <2>4, <3>1 DEF Kept
  <2> QED BY <2>3, <2>4 DEF Kept
<1>9. ASSUME NEW f \in Files, Checkpoint(f)
      PROVE  Kept'
  <2>1. /\ names' = names /\ mishaps' = mishaps /\ entry[f][Root] = "file"
        /\ entry' = [entry EXCEPT ![f][Checkpoints] = "dir"]
    BY <1>9 DEF Checkpoint, foldersVars
  <2>2. /\ \A g \in Files \ {f} : entry'[g] = entry[g]
        /\ entry'[f][Checkpoints] = "dir"
        /\ \A p \in Places \ {Checkpoints} : entry'[f][p] = entry[f][p]
    BY <1>a, <2>1
  <2> QED BY <1>a, <2>1, <2>2, NamespaceAssumption DEF Kept
<1>10. ApplyMkdir => UNCHANGED <<names, entry, mishaps>>
  BY DEF ApplyMkdir
<1>11. DoRestartNaming => UNCHANGED <<names, entry>> /\ mishaps \subseteq mishaps'
  BY DEF DoRestartNaming, RestartNaming, storageVars
<1>12. \A f \in Files, append \in BOOLEAN :
         StartWrite(f, append) => UNCHANGED <<names, entry, mishaps>>
  BY DEF StartWrite, foldersVars
<1>13. UNCHANGED vars => UNCHANGED <<names, entry, mishaps>>
  BY DEF vars, foldersVars, storageVars
<1> QED BY <1>1, <1>2, <1>3, <1>4, <1>5, <1>6, <1>7, <1>8, <1>9, <1>10, <1>11, <1>12,
           <1>13 DEF Next, StorageStep

-----------------------------------------------------------------------------
(* Files are stored where the table lists them.                             *)

\* A table and a namespace that stay, under handlers that only go on.
GoOn(g, h) ==
    \/ h = g
    \/ g.step \in Untold /\ h.step \in Untold /\ h.todo = g.todo
    \/ /\ g.step \notin Untold /\ h.step \notin Untold
       /\ Busy(h) /\ h.todo.kind = "move" => h.todo.file \in names
LEMMA FilingFrame ==
    ASSUME Filing, UNCHANGED <<table, names, commands, entry, dirs>>,
           \A h \in Handlers : GoOn(handler[h], handler'[h])
    PROVE  Filing'
<1>1. \A h \in Handlers : \A f : Unsent(h, f)' <=> Unsent(h, f)
  BY DEF GoOn, Unsent
<1>2. \A h \in Handlers : \A d : Making(h, d)' <=> Making(h, d)
  BY DEF GoOn, Making
<1>3. \A h \in Handlers : \A f : Unsent(h, f) => handler'[h].todo = handler[h].todo
  BY DEF GoOn, Unsent
<1>4. Orders' = Orders /\ \A i, f : Sent(i, f)' <=> Sent(i, f)
  BY DEF Orders, Sent
<1>5. \A f : In(f, table)' = In(f, table) /\ Holding(f)' = Holding(f)
  BY DEF In, Holding
<1>6. MovesKnown'
  <2>1. ASSUME NEW h \in Handlers, Busy(handler'[h]), handler'[h].todo.kind = "move"
        PROVE  handler'[h].todo.file \in names
    <3>1. CASE handler'[h] = handler[h]
      BY <2>1, <3>1 DEF Filing, MovesKnown
    <3>2. CASE handler[h].step \in Untold /\ handler'[h].todo = handler[h].todo
      <4>1. Busy(handler[h])
        BY <3>2 DEF Untold, Busy
      <4> QED BY <2>1, <3>2, <4>1 DEF Filing, MovesKnown
    <3> QED BY <2>1, <3>1, <3>2 DEF GoOn
  <2> QED BY <2>1, <1>4, <1>5 DEF Filing, MovesKnown
<1>7. OneMover'
  BY <1>1 DEF Filing, OneMover
<1>8. FiledWhereTold'
  BY <1>1, <1>3, <1>4, <1>5 DEF Filing, FiledWhereTold
<1>9. FoldersMade'
  BY <1>2, <1>4 DEF Filing, FoldersMade
<1> QED BY <1>6, <1>7, <1>8, <1>9 DEF Filing

\* The first command leaves, the others move up.
LEMMA FirstDone ==
    ASSUME Types, commands # <<>>, commands' = Tail(commands)
    PROVE  /\ 1 \in Orders /\ Head(commands) = commands[1]
           /\ Orders' = {i \in Nat : i + 1 \in Orders /\ i # 0}
           /\ \A i \in Orders' : commands'[i] = commands[i + 1] /\ i + 1 \in Orders
           /\ \A i \in Orders : i = 1 \/ (i - 1 \in Orders' /\ (i - 1) + 1 = i)
           /\ \A i \in Orders' : i \in Nat
  BY DEF Types, FolderTypes, Orders

LEMMA LastTold ==
    ASSUME Types, NEW todo \in Todos, commands' = Append(commands, todo)
    PROVE  /\ Orders' = Orders \cup {Len(commands) + 1}
           /\ \A i \in Orders : commands'[i] = commands[i] /\ i < Len(commands) + 1
           /\ Len(commands) + 1 \notin Orders /\ commands'[Len(commands) + 1] = todo
           /\ \A i \in Orders' : i \in Nat
  BY DEF Types, FolderTypes, Orders

LEMMA MishapsStay == [Next]_vars => mishaps \subseteq mishaps'
  BY DEF Next, HandlerStep, StorageStep, CallCreateFolder, CallMove, DoMoveInTable,
         DoOpenSave, DoSave, DoSend, DoEndWait, ApplyMkdir, ApplyMove, EndWrite, DoRestartNaming,
         RestartStorage, Create, Delete, Checkpoint, StartWrite, Note, vars

\* A file that is moved is in the target folder only.
LEMMA PutIn ==
    ASSUME table \in Tables, NEW f \in Files, NEW d \in Folders, table[d] # NoFolder,
           table' = [TakenOut(f, d) EXCEPT ![d] = @ \cup {f}]
    PROVE  /\ In(f, table') = {d}
           /\ \A g \in Files \ {f} : In(g, table') = In(g, table)
           /\ \A e \in Folders : table'[e] # NoFolder => table[e] # NoFolder
<1>1. \A e \in Folders : table[e] # NoFolder => table[e] \in SUBSET Files
  BY DEF Tables
<1>2. ASSUME NEW e \in Folders
      PROVE  /\ table[e] = NoFolder => table'[e] = NoFolder
             /\ table[e] # NoFolder /\ e = d => table'[e] = (table[e] \ {f}) \cup {f}
             /\ table[e] # NoFolder /\ e # d => table'[e] = table[e] \ {f}
  <2>1. /\ TakenOut(f, d) = [x \in Folders |-> TakenOut(f, d)[x]]
        /\ TakenOut(f, d)[e] = IF table[e] = NoFolder THEN NoFolder ELSE table[e] \ {f}
    BY DEF TakenOut
  <2>2. table'[e] = IF e = d THEN TakenOut(f, d)[e] \cup {f} ELSE TakenOut(f, d)[e]
    BY <2>1
  <2> QED BY <2>1, <2>2
<1>3. \A fs \in SUBSET Files : fs # NoFolder
  BY FoldersAssumption
<1>4. \A e \in Folders : table[e] # NoFolder => table'[e] # NoFolder
  BY <1>1, <1>2, <1>3
<1>5. ASSUME NEW e \in Folders
      PROVE  (table'[e] # NoFolder /\ f \in table'[e]) <=> e = d
  <2>1. CASE e = d
    <3>1. f \in table'[e]
      BY <1>2, <2>1
    <3> QED BY <1>4, <2>1, <3>1
  <2>2. CASE e # d
    <3>1. table[e] # NoFolder => f \notin table'[e]
      BY <1>2, <2>2
    <3>2. table'[e] # NoFolder => table[e] # NoFolder
      BY <1>2
    <3> QED BY <2>2, <3>1, <3>2
  <2> QED BY <2>1, <2>2
<1>6. ASSUME NEW g \in Files \ {f}, NEW e \in Folders
      PROVE  (table'[e] # NoFolder /\ g \in table'[e])
               <=> (table[e] # NoFolder /\ g \in table[e])
  <2>1. table'[e] # NoFolder <=> table[e] # NoFolder
    BY <1>2, <1>4
  <2>2. table[e] # NoFolder => (g \in table'[e] <=> g \in table[e])
    BY <1>2
  <2> QED BY <2>1, <2>2
<1>7. In(f, table') = {d}
  BY <1>5 DEF In
<1>8. \A g \in Files \ {f} : In(g, table') = In(g, table)
  BY <1>6 DEF In
<1>9. \A e \in Folders : table'[e] # NoFolder => table[e] # NoFolder
  BY <1>2
<1> QED BY <1>7, <1>8, <1>9

\* A handler that hangs does so until the naming server starts again.
LEMMA HungStays ==
    ASSUME Types, [Next]_vars, "crash" \notin mishaps', Hung
    PROVE  Hung'
<1>a. PICK o \in Handlers : handler[o].step = "hung"
  BY DEF Hung
<1>b. handler \in [Handlers -> States]
  BY DEF Types, FolderTypes
<1>1. ASSUME NEW h \in Handlers, NEW to, Goes(h, to), handler[h].step # "hung"
      PROVE  Hung'
  BY <1>a, <1>b, <1>1 DEF Hung, Goes
<1>2. CASE handler' = handler
  BY <1>2 DEF Hung
<1>3. ASSUME NEW h \in Handlers, HandlerStep(h)
      PROVE  \E to : Goes(h, to) /\ handler[h].step # "hung"
  <2>1. CASE MoveInTable(h)
    <3>1. (\E to : Goes(h, to)) /\ handler[h].step = "found"
      BY <2>1 DEF MoveInTable, GivesUp
    <3> QED BY <3>1
  <2>2. CASE OpenSave(h)
    BY <2>2 DEF OpenSave
  <2>3. CASE CopyTable(h) \/ CloseSave(h)
    BY <2>3 DEF CopyTable, CloseSave
  <2>4. CASE Send(h)
    <3>1. (\E to : Goes(h, to)) /\ handler[h].step = "saved"
      BY <2>4 DEF Send
    <3> QED BY <3>1
  <2>5. CASE EndWait(h)
    BY <2>5 DEF EndWait, Waiting
  <2> QED BY <1>3, <2>1, <2>2, <2>3, <2>4, <2>5
          DEF HandlerStep, DoMoveInTable, DoOpenSave, DoSave, DoSend, DoEndWait
<1>4. ASSUME NEW h \in Handlers, NEW d \in Folders,
             CallCreateFolder(h, d) \/ \E f \in Files : CallMove(h, f, d)
      PROVE  \E to : Goes(h, to) /\ handler[h].step # "hung"
  <2>1. handler[h].step = "idle"
    <3>1. handler[h] = Idle
      BY <1>4 DEF CallCreateFolder, CreateFolder, CallMove, StartMove
    <3> QED BY <3>1 DEF Idle
  <2>2. CASE CallCreateFolder(h, d)
    <3>1. \E to : Goes(h, to)
      BY <2>2 DEF CallCreateFolder, CreateFolder
    <3> QED BY <2>1, <3>1
  <2>3. ASSUME NEW f \in Files, CallMove(h, f, d)
        PROVE  \E to : Goes(h, to)
    BY <2>3 DEF CallMove, StartMove
  <2> QED BY <1>4, <2>1, <2>2, <2>3
<1>5. ~DoRestartNaming
  BY <1>a DEF DoRestartNaming, Busy
<1>6. ApplyMkdir \/ ApplyMove \/ EndWrite \/ RestartStorage \/ UNCHANGED vars
        => handler' = handler
  BY DEF ApplyMkdir, ApplyMove, EndWrite, RestartStorage, vars, foldersVars, tableVars
<1>7. ASSUME NEW f \in Files
      PROVE  /\ Create(f) \/ Delete(f) \/ Checkpoint(f) => handler' = handler
             /\ \A append \in BOOLEAN : StartWrite(f, append) => handler' = handler
  BY DEF Create, Delete, Checkpoint, StartWrite, foldersVars, tableVars
<1> QED BY <1>1, <1>2, <1>3, <1>4, <1>5, <1>6, <1>7 DEF Next, StorageStep

\* What the steps below start from.
Calm == Types /\ Kept /\ Filing /\ mishaps \subseteq {"race"} /\ mishaps' \subseteq {"race"}

LEMMA CalmKept ==
    ASSUME Calm
    PROVE  /\ \A f \in names : \E p \in Places : entry[f][p] = "file"
           /\ \A f \in Files, p \in Places : entry[f][p] = "file" =>
                f \in names /\ \A q \in Places : entry[f][q] = "file" => p = q
           /\ entry \in [Files -> [Places -> {"none", "file", "dir"}]]
           /\ names \subseteq Files /\ Root \in Places /\ Checkpoints \in Places
           /\ handler \in [Handlers -> States] /\ table \in Tables /\ commands \in Seq(Todos)
  BY DEF Calm, Kept, Types, FolderTypes, StorageTypes, Places

LEMMA CreateFolderFiled ==
    ASSUME Calm, NEW h \in Handlers, NEW d \in Folders, CallCreateFolder(h, d)
    PROVE  Filing'
<1> DEFINE to == [step |-> "save", todo |-> Command("mkdir", "none", d)]
<1>1. /\ handler[h] = Idle /\ handler[h].step = "idle"
      /\ table' = IF table[d] = NoFolder THEN [table EXCEPT ![d] = {}] ELSE table
      /\ Goes(h, to) /\ UNCHANGED <<names, commands, entry, dirs>>
  BY DEF CallCreateFolder, CreateFolder, storageVars, Idle
<1>2. /\ handler'[h] = to /\ to.step = "save" /\ to.todo.kind = "mkdir" /\ to.todo.folder = d
      /\ \A o \in Handlers \ {h} : handler'[o] = handler[o]
  BY <1>1, CalmKept DEF Goes, Command
<1> HIDE DEF to
<1>3. \A o \in Handlers : \A f :
        /\ Unsent(o, f)' <=> Unsent(o, f)
        /\ Unsent(o, f) => handler'[o] = handler[o]
  BY <1>1, <1>2 DEF Unsent, Untold
<1>4. \A f : In(f, table') = In(f, table)
  <2>1. table \in Tables
    BY CalmKept
  <2> QED BY <1>1, <2>1 DEF In, Tables
<1>5. Orders' = Orders /\ \A i, f : Sent(i, f)' <=> Sent(i, f)
  BY <1>1 DEF Orders, Sent
<1>6. \A f : Holding(f)' = Holding(f)
  BY <1>1 DEF Holding
<1>7. MovesKnown'
  BY <1>1, <1>2, <1>4, <1>5 DEF Calm, Filing, MovesKnown
<1>8. OneMover'
  BY <1>3 DEF Calm, Filing, OneMover
<1>9. FiledWhereTold'
  <2>1. names' = names /\ commands' = commands
    BY <1>1
  <2>2. \A f : In(f, table)' = In(f, table)
    BY <1>4
  <2> QED BY <1>3, <1>5, <1>6, <2>1, <2>2 DEF Calm, Filing, FiledWhereTold
<1>10. FoldersMade'
  <2>1. Making(h, d)'
    BY <1>2 DEF Making, Untold
  <2>2. \A o \in Handlers : \A e : Making(o, e) => Making(o, e)'
    BY <1>1, <1>2 DEF Making, Untold
  <2>3. \A e \in Folders \ {d} : table'[e] = table[e]
    BY <1>1, CalmKept DEF Tables
  <2> QED BY <1>1, <1>5, <2>1, <2>2, <2>3 DEF Calm, Filing, FoldersMade
<1> QED BY <1>7, <1>8, <1>9, <1>10 DEF Filing

LEMMA MoveFiled ==
    ASSUME Calm, NEW h \in Handlers, DoMoveInTable(h), ~Hung'
    PROVE  Filing'
<1>0. PICK f, d, to : /\ f = handler[h].todo.file /\ d = handler[h].todo.folder
                      /\ to = [handler[h] EXCEPT !.step = "save"]
  OBVIOUS
<1>1. /\ handler[h].step = "found" /\ f \in Files /\ d \in Folders
      /\ handler[h].todo \in MoveTodos /\ Busy(handler[h]) /\ to \in States
      /\ to.step = "save" /\ to.todo = handler[h].todo /\ handler[h].todo.kind = "move"
      /\ [handler[h] EXCEPT !.step = "hung"].step = "hung"
  <2>1. handler[h].step = "found" /\ handler[h] \in States
    BY CalmKept DEF DoMoveInTable, MoveInTable
  <2>2. handler[h] \in [step : {"found", "hung"}, todo : MoveTodos]
    BY <2>1 DEF States, Idle, Waiting
  <2> QED BY <1>0, <2>1, <2>2 DEF States, Busy, Todos, MoveTodos
<1>2. UNCHANGED <<names, commands, entry, dirs>> /\ MoveInTable(h)
  BY DEF DoMoveInTable, MoveInTable, storageVars
<1>3. ~Goes(h, [handler[h] EXCEPT !.step = "hung"])
  <2>1. Goes(h, [handler[h] EXCEPT !.step = "hung"])
          => handler'[h] = [handler[h] EXCEPT !.step = "hung"]
    BY CalmKept DEF Goes
  <2> QED BY <1>1, <2>1 DEF Hung
<1>4. CASE Goes(h, Idle)
  <2>1. handler'[h] = Idle
    BY <1>4, CalmKept DEF Goes
  <2>2. table' = table
    BY <2>1 DEF DoMoveInTable, Calm
  <2>3. \A o \in Handlers : GoOn(handler[o], handler'[o])
    BY <1>1, <1>4, <2>1, CalmKept DEF GoOn, Goes, Untold, Idle, Busy
  <2> QED BY <1>2, <2>2, <2>3, FilingFrame DEF Calm
<1>5. CASE /\ table[d] # NoFolder /\ Goes(h, to)
           /\ table' = [TakenOut(f, d) EXCEPT ![d] = @ \cup {f}]
  <2>1. /\ handler'[h] = to
        /\ \A o \in Handlers \ {h} : handler'[o] = handler[o]
    BY <1>5, CalmKept DEF Goes
  <2>2. /\ In(f, table') = {d}
        /\ \A g \in Files \ {f} : In(g, table') = In(g, table)
        /\ \A e \in Folders : table'[e] # NoFolder => table[e] # NoFolder
    BY <1>1, <1>5, CalmKept, PutIn
  <2>3. \A o \in Handlers \ {h} : ~Unsent(o, f)
    <3>1. ASSUME NEW o \in Handlers \ {h}, Unsent(o, f)
          PROVE  FALSE
      <4>1. o \in Moving(f) \ {h} /\ handler[o].step # "found"
        BY <3>1 DEF Unsent, Moving, Untold, Busy
      <4>2. "overlap" \in mishaps'
        BY <1>0, <4>1 DEF DoMoveInTable
      <4> QED BY <4>2 DEF Calm
    <3> QED BY <3>1
  <2>4. /\ Unsent(h, f)' /\ handler'[h].todo.folder = d
        /\ \A g : Unsent(h, g)' => g = f
        /\ \A g : ~Unsent(h, g)
    BY <1>0, <1>1, <2>1 DEF Unsent, Untold
  <2>5. \A o \in Handlers \ {h} : \A g : Unsent(o, g)' <=> Unsent(o, g)
    BY <2>1 DEF Unsent
  <2>6. Orders' = Orders /\ \A i, g : Sent(i, g)' <=> Sent(i, g)
    BY <1>2 DEF Orders, Sent
  <2>7. \A g : Holding(g)' = Holding(g)
    BY <1>2 DEF Holding
  <2>8. f \in names
    BY <1>0, <1>1 DEF Calm, Filing, MovesKnown
  <2>9. MovesKnown'
    <3>1. \A o \in Handlers : Busy(handler'[o]) /\ handler'[o].todo.kind = "move"
            => handler'[o].todo.file \in names
      BY <1>0, <1>1, <2>1, <2>8 DEF Calm, Filing, MovesKnown
    <3> QED BY <1>2, <2>2, <2>6, <2>8, <3>1 DEF Calm, Filing, MovesKnown
  <2>10. OneMover'
    BY <2>3, <2>4, <2>5 DEF Calm, Filing, OneMover
  <2>11. FiledWhereTold'
    <3>1. ASSUME NEW g \in names, g # f
          PROVE  FiledWhereTold!(g)'
      <4>1. \A o \in Handlers : /\ Unsent(o, g)' <=> Unsent(o, g)
                                /\ Unsent(o, g) => handler'[o] = handler[o]
        BY <2>1, <2>4, <2>5, <3>1
      <4>2. In(g, table') = In(g, table)
        BY <2>2, <3>1, CalmKept
      <4> QED BY <1>2, <2>6, <2>7, <4>1, <4>2 DEF Calm, Filing, FiledWhereTold
    <3>2. FiledWhereTold!(f)'
      BY <2>2, <2>3, <2>4, <2>5
    <3>3. names' = names
      BY <1>2
    <3>4. \A g \in names' : FiledWhereTold!(g)'
      BY <3>1, <3>2, <3>3
    <3> QED BY <3>4 DEF FiledWhereTold
  <2>12. FoldersMade'
    <3>1. \A o \in Handlers : \A e : Making(o, e) => Making(o, e)'
      BY <1>1, <2>1 DEF Making, Untold
    <3> QED BY <1>2, <2>2, <2>6, <3>1 DEF Calm, Filing, FoldersMade
  <2> QED BY <2>9, <2>10, <2>11, <2>12 DEF Filing
<1> QED BY <1>0, <1>2, <1>3, <1>4, <1>5 DEF MoveInTable, GivesUp

LEMMA SendFiled ==
    ASSUME Calm, NEW h \in Handlers, DoSend(h)
    PROVE  Filing'
<1>0. PICK todo, last : todo = handler[h].todo /\ last = Len(commands) + 1
  OBVIOUS
<1>1. /\ handler[h].step = "saved" /\ todo \in Todos /\ Busy(handler[h])
      /\ UNCHANGED <<table, names, entry, dirs>> /\ Send(h)
  BY <1>0, StatesOf DEF DoSend, Send, storageVars, Busy, Calm
<1>2. todo.kind = "move" => todo.file \in names
  BY <1>0, <1>1 DEF Calm, Filing, MovesKnown
<1>3. commands' = Append(commands, todo)
  BY <1>0, <1>1, <1>2 DEF Send, Sends, Todos, MoveTodos
<1>4. /\ ~Busy(handler'[h]) /\ handler'[h].step \notin Untold
      /\ \A o \in Handlers \ {h} : handler'[o] = handler[o]
  BY <1>1, CalmKept DEF Send, Goes, Idle, Waiting, Busy, Untold
<1>5. /\ Orders' = Orders \cup {last}
      /\ \A i \in Orders : commands'[i] = commands[i] /\ i < last
      /\ last \notin Orders /\ commands'[last] = todo
      /\ \A i \in Orders' : i \in Nat
  BY <1>0, <1>1, <1>3, LastTold DEF Calm
<1>6. \A f : In(f, table') = In(f, table) /\ Holding(f)' = Holding(f)
  BY <1>1 DEF In, Holding
<1>7. /\ \A f : ~Unsent(h, f)' /\ (Unsent(h, f) <=> todo.kind = "move" /\ todo.file = f)
      /\ \A o \in Handlers \ {h} : \A f : Unsent(o, f)' <=> Unsent(o, f)
  BY <1>0, <1>1, <1>4 DEF Unsent, Untold
<1>8. /\ \A i \in Orders : \A f : Sent(i, f)' <=> Sent(i, f)
      /\ \A f : Sent(last, f)' <=> Unsent(h, f)
  BY <1>5, <1>7 DEF Sent
<1>9. MovesKnown'
  <2>1. \A i \in Orders' : commands'[i].kind = "move" => commands'[i].file \in names
    BY <1>2, <1>5 DEF Calm, Filing, MovesKnown
  <2>2. \A o \in Handlers : Busy(handler'[o]) /\ handler'[o].todo.kind = "move"
          => handler'[o].todo.file \in names
    BY <1>4 DEF Calm, Filing, MovesKnown
  <2> QED BY <1>1, <1>6, <2>1, <2>2 DEF Calm, Filing, MovesKnown
<1>10. OneMover'
  BY <1>7 DEF Calm, Filing, OneMover
<1>11. FiledWhereTold'
  <2> SUFFICES ASSUME NEW f \in names PROVE FiledWhereTold!(f)'
    BY <1>1 DEF FiledWhereTold
  <2>a. FiledWhereTold!(f)
    BY DEF Calm, Filing, FiledWhereTold
  <2>1. CASE Unsent(h, f)
    <3>1. In(f, table) = {todo.folder}
      BY <1>0, <2>a, <2>1
    <3>2. \A o \in Handlers : ~Unsent(o, f)'
      BY <1>7, <2>1, CalmKept DEF Calm, Filing, OneMover
    <3>3. \A i \in Orders' :
            Sent(i, f)' /\ (\A j \in Orders' : Sent(j, f)' => j <= i) => i = last
      BY <1>5, <1>8, <2>1
    <3>4. last \in Orders' /\ Sent(last, f)'
      BY <1>5, <1>8, <2>1
    <3> QED BY <1>5, <1>6, <3>1, <3>2, <3>3, <3>4
  <2>2. CASE ~Unsent(h, f)
    <3>1. \A o \in Handlers : Unsent(o, f)' <=> Unsent(o, f)
      BY <1>7, <2>2
    <3>2. \A o \in Handlers : Unsent(o, f) => handler'[o] = handler[o]
      BY <1>4, <2>2
    <3>3. \A i \in Orders' : Sent(i, f)' => i \in Orders
      BY <1>5, <1>8, <2>2
    <3>4. \A i \in Orders : commands'[i] = commands[i] /\ (Sent(i, f)' <=> Sent(i, f))
      BY <1>5, <1>8
    <3>5. Orders \subseteq Orders'
      BY <1>5
    <3>6. \A o \in Handlers : Unsent(o, f)' => In(f, table)' = {handler[o]'.todo.folder}
      BY <1>6, <2>a, <3>1, <3>2
    <3>7. ASSUME \A o \in Handlers : ~Unsent(o, f)'
          PROVE  /\ \A i \in Orders' :
                      Sent(i, f)' /\ (\A j \in Orders' : Sent(j, f)' => j <= i)
                        => In(f, table)' = {commands'[i].folder}
                 /\ (\A i \in Orders' : ~Sent(i, f)') => In(f, table)' = Holding(f)' \ {Root}
      BY <1>6, <2>a, <3>1, <3>3, <3>4, <3>5, <3>7
    <3> QED BY <3>6, <3>7
  <2> QED BY <2>1, <2>2
<1>12. FoldersMade'
  <2>1. \A o \in Handlers : \A e :
          Making(o, e) => \/ o = h /\ todo.kind = "mkdir" /\ todo.folder = e
                          \/ Making(o, e)'
    BY <1>0, <1>4 DEF Making
  <2> QED BY <1>1, <1>5, <2>1 DEF Calm, Filing, FoldersMade
<1> QED BY <1>9, <1>10, <1>11, <1>12 DEF Filing

\* What the storage server is still to do, after it has done the first command.
LEMMA AppliedOrders ==
    ASSUME Calm, commands # <<>>, commands' = Tail(commands), handler' = handler,
           UNCHANGED <<table, names>>
    PROVE  /\ MovesKnown' /\ OneMover'
           /\ \A g \in names :
                \/ /\ \A q \in Places : entry'[g][q] = "file" <=> entry[g][q] = "file"
                   /\ ~(Head(commands).kind = "move" /\ Head(commands).file = g)
                \/ /\ Head(commands).kind = "move" /\ Head(commands).file = g
                   /\ Holding(g)' = {Head(commands).folder} /\ Root \notin Folders
                => FiledWhereTold!(g)'
<1>1. /\ 1 \in Orders /\ Head(commands) = commands[1]
      /\ \A i \in Orders' : commands'[i] = commands[i + 1] /\ i + 1 \in Orders
      /\ \A i \in Orders : i = 1 \/ (i - 1 \in Orders' /\ (i - 1) + 1 = i)
      /\ \A i \in Orders' : i \in Nat /\ i # 0
      /\ \A i \in Orders : i \in Nat /\ i # 0
  BY FirstDone DEF Calm, Orders
<1>2. \A o \in Handlers : \A f : Unsent(o, f)' <=> Unsent(o, f)
  BY DEF Unsent
<1>3. \A f : In(f, table') = In(f, table)
  BY DEF In
<1>4. \A i \in Orders' : \A f : Sent(i, f)' <=> Sent(i + 1, f)
  BY <1>1 DEF Sent
<1>5. MovesKnown'
  <2>1. \A i \in Orders' : commands'[i].kind = "move" => commands'[i].file \in names
    BY <1>1 DEF Calm, Filing, MovesKnown
  <2>2. handler' = handler /\ names' = names
    OBVIOUS
  <2> QED BY <1>3, <2>1, <2>2 DEF Calm, Filing, MovesKnown
<1>6. OneMover'
  BY <1>2 DEF Calm, Filing, OneMover
<1>7. ASSUME NEW g \in names
      PROVE  /\ FiledWhereTold!(g)
             /\ \A o \in Handlers : Unsent(o, g)' => In(g, table)' = {handler[o]'.todo.folder}
  BY <1>2, <1>3 DEF Calm, Filing, FiledWhereTold
<1>8. ASSUME NEW g \in names, \A o \in Handlers : ~Unsent(o, g), NEW i \in Orders', Sent(i, g)',
             \A j \in Orders' : Sent(j, g)' => j <= i
      PROVE  In(g, table)' = {commands'[i].folder}
  <2>1. i + 1 \in Orders /\ Sent(i + 1, g) /\ commands'[i] = commands[i + 1]
    BY <1>1, <1>4, <1>8
  <2>2. ASSUME NEW j \in Orders, Sent(j, g) PROVE j <= i + 1
    <3>1. CASE j = 1
      BY <1>1, <3>1
    <3>2. CASE j # 1
      <4>1. j - 1 \in Orders' /\ (j - 1) + 1 = j
        BY <1>1, <3>2
      <4>2. Sent(j - 1, g)'
        BY <1>4, <2>2, <4>1
      <4>3. j - 1 <= i
        BY <1>8, <4>1, <4>2
      <4> QED BY <1>1, <4>3
    <3> QED BY <3>1, <3>2
  <2>3. In(g, table) = {commands[i + 1].folder}
    BY <1>7, <1>8, <2>1, <2>2
  <2> QED BY <1>3, <2>1, <2>3
<1>9. ASSUME NEW g \in names, \A o \in Handlers : ~Unsent(o, g),
             \A i \in Orders' : ~Sent(i, g)'
      PROVE  \A j \in Orders : Sent(j, g) => j = 1
  BY <1>1, <1>4, <1>9
<1>10. ASSUME NEW g \in names,
              \A q \in Places : entry'[g][q] = "file" <=> entry[g][q] = "file",
              ~(Head(commands).kind = "move" /\ Head(commands).file = g)
       PROVE  FiledWhereTold!(g)'
  <2>1. Holding(g)' = Holding(g)
    BY <1>10 DEF Holding
  <2>2. ~Sent(1, g)
    BY <1>1, <1>10 DEF Sent
  <2>3. ASSUME \A o \in Handlers : ~Unsent(o, g), \A i \in Orders' : ~Sent(i, g)'
        PROVE  In(g, table)' = Holding(g)' \ {Root}
    <3>1. \A j \in Orders : ~Sent(j, g)
      BY <1>9, <2>2, <2>3
    <3> QED BY <1>3, <1>7, <2>1, <2>3, <3>1
  <2> QED BY <1>2, <1>7, <1>8, <2>3
<1>11. ASSUME NEW g \in names, Head(commands).kind = "move", Head(commands).file = g,
              Holding(g)' = {Head(commands).folder}, Root \notin Folders
       PROVE  FiledWhereTold!(g)'
  <2>1. Sent(1, g) /\ Head(commands).folder # Root
    <3>1. Head(commands) \in Todos
      BY CalmKept
    <3> QED BY <1>1, <1>11, <3>1 DEF Sent, Todos, MoveTodos
  <2>2. ASSUME \A o \in Handlers : ~Unsent(o, g), \A i \in Orders' : ~Sent(i, g)'
        PROVE  In(g, table)' = Holding(g)' \ {Root}
    <3>1. \A j \in Orders : Sent(j, g) => j <= 1
      BY <1>9, <2>2
    <3>2. In(g, table) = {commands[1].folder}
      BY <1>1, <1>7, <2>1, <2>2, <3>1
    <3> QED BY <1>1, <1>3, <1>11, <2>1, <3>2
  <2> QED BY <1>2, <1>7, <1>8, <2>2
<1> QED BY <1>5, <1>6, <1>10, <1>11

LEMMA MkdirFiled ==
    ASSUME Calm, ApplyMkdir
    PROVE  Filing'
<1>1. /\ commands # <<>> /\ commands' = Tail(commands) /\ Head(commands).kind = "mkdir"
      /\ dirs' = dirs \cup {Head(commands).folder}
      /\ UNCHANGED <<table, handler, names, entry>>
  BY DEF ApplyMkdir, tableVars
<1>2. MovesKnown' /\ OneMover' /\ \A g \in names : FiledWhereTold!(g)'
  BY <1>1, AppliedOrders
<1>3. FiledWhereTold'
  BY <1>1, <1>2 DEF FiledWhereTold
<1>4. FoldersMade'
  <2>1. /\ Head(commands) = commands[1]
        /\ \A i \in Orders' : commands'[i] = commands[i + 1]
        /\ \A i \in Orders : i = 1 \/ (i - 1 \in Orders' /\ (i - 1) + 1 = i)
    BY <1>1, FirstDone DEF Calm
  <2>2. ASSUME NEW i \in Orders, commands[i].kind = "mkdir"
        PROVE  \/ commands[i].folder \in dirs'
               \/ \E j \in Orders' : commands'[j] = commands[i]
    <3>1. i = 1 => commands[i].folder \in dirs'
      BY <1>1, <2>1
    <3>2. i # 1 => i - 1 \in Orders' /\ commands'[i - 1] = commands[i]
      BY <2>1
    <3> QED BY <3>1, <3>2
  <2>3. \A o \in Handlers : \A e : Making(o, e)' <=> Making(o, e)
    BY <1>1 DEF Making
  <2>4. ASSUME NEW e \in Folders, table'[e] # NoFolder
        PROVE  \/ e \in dirs' \/ \E o \in Handlers : Making(o, e)'
               \/ \E i \in Orders' : commands'[i].kind = "mkdir" /\ commands'[i].folder = e
    <3>1. table[e] # NoFolder /\ dirs \subseteq dirs'
      BY <1>1, <2>4
    <3>2. CASE e \in dirs \/ \E o \in Handlers : Making(o, e)
      BY <2>3, <3>1, <3>2
    <3>3. CASE \E i \in Orders : commands[i].kind = "mkdir" /\ commands[i].folder = e
      BY <2>2, <3>3
    <3> QED BY <3>1, <3>2, <3>3 DEF Calm, Filing, FoldersMade
  <2> QED BY <2>4 DEF FoldersMade
<1> QED BY <1>2, <1>3, <1>4 DEF Filing

LEMMA ApplyMoveFiled ==
    ASSUME Calm, ApplyMove
    PROVE  Filing'
<1>0. PICK f, d : f = Head(commands).file /\ d = Head(commands).folder
  OBVIOUS
<1>1. /\ commands # <<>> /\ commands' = Tail(commands) /\ Head(commands).kind = "move"
      /\ UNCHANGED <<table, handler, names>> /\ dirs \subseteq dirs'
      /\ Head(commands) \in Todos
  BY CalmKept DEF ApplyMove, tableVars
<1>2. f \in Files /\ d \in Folders /\ d \in Places
  BY <1>0, <1>1 DEF Todos, MoveTodos, Places
<1>3. PICK p \in PathsOf(f) : /\ entry' = Renamed(f, p, d)
                              /\ Note("misled", entry[f][p] = "dir" \/ entry[f][d] = "dir")
  BY <1>0 DEF ApplyMove
<1>4. p \in Places /\ entry[f][p] # "dir" /\ entry[f][d] # "dir"
  BY <1>3 DEF PathsOf, Found, Places, Note, Calm
<1>5. /\ Head(commands) = commands[1] /\ 1 \in Orders
      /\ \A i \in Orders' : commands'[i] = commands[i + 1]
      /\ \A i \in Orders : i = 1 \/ (i - 1 \in Orders' /\ (i - 1) + 1 = i)
  BY <1>1, FirstDone DEF Calm
<1>6. f \in names
  BY <1>0, <1>1, <1>5 DEF Calm, Filing, MovesKnown
<1>7. PICK r \in Places : entry[f][r] = "file"
  BY <1>6, CalmKept
<1>8. entry[f][p] = "file"
  <2>1. Found(f) # {}
    BY <1>7 DEF Found
  <2>2. entry[f][p] # "none"
    BY <1>3, <2>1 DEF PathsOf, Found
  <2> QED BY <1>2, <1>4, <2>2, CalmKept
<1>9. \A q \in Places : entry[f][q] = "file" <=> q = p
  BY <1>2, <1>4, <1>8, CalmKept
<1>10. /\ \A g \in Files \ {f} : entry'[g] = entry[g]
       /\ \A q \in Places : entry'[f][q] = "file" <=> q = d
  <2>1. CASE p = d
    <3>1. entry' = entry
      BY <1>2, <1>3, <1>4, <2>1, RenamedIs DEF Calm
    <3> QED BY <1>9, <2>1, <3>1
  <2>2. CASE p # d
    <3>1. entry[f][d] = "none"
      BY <1>2, <1>4, <1>9, <2>2, CalmKept
    <3>2. ~Blocked(f, p, d)
      BY <3>1 DEF Blocked
    <3>3. /\ \A g \in Files \ {f} : entry'[g] = entry[g]
          /\ entry'[f][d] = entry[f][p] /\ entry'[f][p] = "none"
          /\ \A q \in Places \ {p, d} : entry'[f][q] = entry[f][q]
      BY <1>2, <1>3, <1>4, <2>2, <3>2, RenamedIs DEF Calm
    <3> QED BY <1>8, <1>9, <3>3
  <2> QED BY <2>1, <2>2
<1>11. Holding(f)' = {d}
  BY <1>2, <1>10 DEF Holding
<1>12. Root \notin Folders
  BY NamespaceAssumption
<1>13. \A g \in names :
         \/ /\ \A q \in Places : entry'[g][q] = "file" <=> entry[g][q] = "file"
            /\ ~(Head(commands).kind = "move" /\ Head(commands).file = g)
         \/ /\ Head(commands).kind = "move" /\ Head(commands).file = g
            /\ Holding(g)' = {Head(commands).folder} /\ Root \notin Folders
  <2> SUFFICES ASSUME NEW g \in names
               PROVE  \/ /\ \A q \in Places : entry'[g][q] = "file" <=> entry[g][q] = "file"
                         /\ g # f
                      \/ g = f /\ Holding(g)' = {d}
    BY <1>0, <1>1, <1>12
  <2> QED BY <1>10, <1>11, CalmKept
<1>14. MovesKnown' /\ OneMover' /\ \A g \in names : FiledWhereTold!(g)'
  BY <1>1, <1>13, AppliedOrders
<1>15. FiledWhereTold'
  BY <1>1, <1>14 DEF FiledWhereTold
<1>16. FoldersMade'
  <2>1. ASSUME NEW i \in Orders, commands[i].kind = "mkdir"
        PROVE  \E j \in Orders' : commands'[j] = commands[i]
    <3>1. i # 1
      BY <1>1, <1>5, <2>1
    <3>2. i - 1 \in Orders' /\ commands'[i - 1] = commands[i]
      BY <1>5, <3>1
    <3> QED BY <3>2
  <2>2. \A o \in Handlers : \A e : Making(o, e)' <=> Making(o, e)
    BY <1>1 DEF Making
  <2>4. ASSUME NEW e \in Folders, table'[e] # NoFolder
        PROVE  \/ e \in dirs' \/ \E o \in Handlers : Making(o, e)'
               \/ \E i \in Orders' : commands'[i].kind = "mkdir" /\ commands'[i].folder = e
    <3>1. table[e] # NoFolder /\ dirs \subseteq dirs'
      BY <1>1, <2>4
    <3>2. CASE e \in dirs \/ \E o \in Handlers : Making(o, e)
      BY <2>2, <3>1, <3>2
    <3>3. CASE \E i \in Orders : commands[i].kind = "mkdir" /\ commands[i].folder = e
      BY <2>1, <3>3
    <3> QED BY <3>1, <3>2, <3>3 DEF Calm, Filing, FoldersMade
  <2> QED BY <2>4 DEF FoldersMade
<1> QED BY <1>14, <1>15, <1>16 DEF Filing

\* CREATE, DELETE and CHECKPOINT.
LEMMA FileFiled ==
    ASSUME Calm, NEW f \in Files, Create(f) \/ Delete(f) \/ Checkpoint(f)
    PROVE  Filing'
<1>a. UNCHANGED <<table, handler, commands, dirs>>
  BY DEF Create, Delete, Checkpoint, foldersVars, tableVars
<1>b. /\ \A o \in Handlers : \A g : Unsent(o, g)' <=> Unsent(o, g)
      /\ \A o \in Handlers : \A d : Making(o, d)' <=> Making(o, d)
      /\ Orders' = Orders /\ \A i, g : Sent(i, g)' <=> Sent(i, g)
      /\ \A g : In(g, table') = In(g, table)
  BY <1>a DEF Unsent, Making, Orders, Sent, In
<1>c. OneMover' /\ FoldersMade'
  BY <1>a, <1>b DEF Calm, Filing, OneMover, FoldersMade
<1>d. ASSUME NEW g \in names, NEW X, Holding(g)' = Holding(g)
      PROVE  FiledWhereTold!(g)'
  BY <1>a, <1>b, <1>d DEF Calm, Filing, FiledWhereTold
<1>1. CASE Create(f)
  <2>1. /\ f \notin names /\ names' = names \cup {f} /\ commands = <<>>
        /\ entry' = [entry EXCEPT ![f][Root] = "file"]
    BY <1>1 DEF Create
  <2>2. /\ \A g \in Files \ {f} : entry'[g] = entry[g]
        /\ entry'[f][Root] = "file"
        /\ \A p \in Places \ {Root} : entry'[f][p] = entry[f][p]
    BY <2>1, CalmKept
  <2>3. \A g \in names : Holding(g)' = Holding(g)
    BY <2>1, <2>2, CalmKept DEF Holding
  <2>4. Holding(f)' = {Root}
    BY <2>1, <2>2, CalmKept DEF Holding
  <2>5. \A o \in Handlers : ~Unsent(o, f)
    <3>1. ASSUME NEW o \in Handlers, Unsent(o, f) PROVE FALSE
      <4>1. Busy(handler[o])
        BY <3>1 DEF Unsent, Untold, Busy
      <4> QED BY <2>1, <3>1, <4>1 DEF Unsent, Calm, Filing, MovesKnown
    <3> QED BY <3>1
  <2>6. Orders = {} /\ In(f, table) = {}
    BY <2>1 DEF Orders, Calm, Filing, MovesKnown
  <2>7. FiledWhereTold!(f)'
    BY <1>b, <2>4, <2>5, <2>6
  <2>8. FiledWhereTold'
    BY <1>d, <2>1, <2>3, <2>7 DEF FiledWhereTold
  <2>9. MovesKnown'
    BY <1>a, <1>b, <2>1 DEF Calm, Filing, MovesKnown
  <2> QED BY <1>c, <2>8, <2>9 DEF Filing
<1>2. CASE Delete(f)
  <2>1. /\ f \in names /\ names' = names \ {f} /\ commands = <<>> /\ entry[f][Root] = "file"
        /\ entry' = [entry EXCEPT ![f][Root] = "none"] /\ Moving(f) = {}
    BY <1>2 DEF Delete, Note, Calm
  <2>2. \A g \in Files \ {f} : entry'[g] = entry[g]
    BY <2>1, CalmKept
  <2>3. \A g \in names' : Holding(g)' = Holding(g)
    BY <2>1, <2>2, CalmKept DEF Holding
  <2>4. Holding(f) = {Root}
    BY <2>1, CalmKept DEF Holding
  <2>5. \A o \in Handlers : ~Unsent(o, f)
    BY <2>1 DEF Unsent, Untold, Busy, Moving
  <2>6. Orders = {}
    BY <2>1 DEF Orders
  <2>7. In(f, table) = {}
    BY <2>1, <2>4, <2>5, <2>6 DEF Calm, Filing, FiledWhereTold
  <2>8. FiledWhereTold'
    BY <1>d, <2>1, <2>3 DEF FiledWhereTold
  <2>9. MovesKnown'
    <3>1. \A o \in Handlers : Busy(handler[o]) => handler[o].todo.file # f
      BY <2>1 DEF Moving
    <3> QED BY <1>a, <1>b, <2>1, <2>6, <2>7, <3>1 DEF Calm, Filing, MovesKnown
  <2> QED BY <1>c, <2>8, <2>9 DEF Filing
<1>3. CASE Checkpoint(f)
  <2>1. /\ names' = names /\ entry[f][Root] = "file"
        /\ entry' = [entry EXCEPT ![f][Checkpoints] = "dir"]
    BY <1>3 DEF Checkpoint, foldersVars
  <2>2. entry[f][Checkpoints] # "file"
    BY <2>1, CalmKept, NamespaceAssumption
  <2>3. /\ \A g \in Files \ {f} : entry'[g] = entry[g]
        /\ entry'[f][Checkpoints] = "dir"
        /\ \A p \in Places \ {Checkpoints} : entry'[f][p] = entry[f][p]
    BY <2>1, CalmKept
  <2>4. \A g \in names : Holding(g)' = Holding(g)
    BY <2>2, <2>3, CalmKept DEF Holding
  <2>5. FiledWhereTold'
    BY <1>d, <2>1, <2>4 DEF FiledWhereTold
  <2>6. MovesKnown'
    BY <1>a, <1>b, <2>1 DEF Calm, Filing, MovesKnown
  <2> QED BY <1>c, <2>5, <2>6 DEF Filing
<1> QED BY <1>1, <1>2, <1>3

LEMMA NextFiled == Types /\ Kept /\ Filed /\ [Next]_vars => Filed'
<1> SUFFICES ASSUME Types, Kept, Filed, [Next]_vars, mishaps' \subseteq {"race"}, ~Hung'
             PROVE  Filing'
  BY DEF Filed, Only
<1>a. Calm
  <2>1. mishaps \subseteq {"race"}
    BY MishapsStay
  <2>2. ~Hung
    BY HungStays
  <2> QED BY <2>1, <2>2 DEF Calm, Filed, Only
<1>b. \A h \in Handlers : handler' = handler => GoOn(handler[h], handler'[h])
  BY DEF GoOn
<1>1. ASSUME NEW h \in Handlers, NEW d \in Folders, CallCreateFolder(h, d)
      PROVE  Filing'
  BY <1>a, <1>1, CreateFolderFiled
<1>2. ASSUME NEW h \in Handlers, NEW d \in Folders, NEW f \in Files, CallMove(h, f, d)
      PROVE  Filing'
  <2> DEFINE to == [step |-> "found", todo |-> Command("move", f, d)]
  <2>1. /\ handler[h] = Idle /\ handler[h].step = "idle" /\ Goes(h, to) /\ f \in names
        /\ UNCHANGED <<table, names, commands, entry, dirs>>
    BY <1>2 DEF CallMove, StartMove, Idle, storageVars
  <2>2. to.step = "found" /\ to.todo.file = f
    BY DEF Command
  <2> HIDE DEF to
  <2>3. \A o \in Handlers : GoOn(handler[o], handler'[o])
    BY <1>a, <2>1, <2>2, CalmKept DEF GoOn, Goes, Untold
  <2> QED BY <1>a, <2>1, <2>3, FilingFrame DEF Calm
<1>3. ASSUME NEW h \in Handlers, DoMoveInTable(h)
      PROVE  Filing'
  BY <1>a, <1>3, MoveFiled
<1>4. ASSUME NEW h \in Handlers, DoOpenSave(h) \/ DoSave(h)
      PROVE  Filing'
  <2>1. UNCHANGED <<table, names, commands, entry, dirs>>
    BY <1>4 DEF DoOpenSave, OpenSave, DoSave, CopyTable, CloseSave, storageVars
  <2>2. PICK to : /\ Goes(h, to) /\ handler[h].step \in Untold /\ to.step \in Untold
                  /\ to.todo = handler[h].todo
    <3>1. CASE OpenSave(h)
      <4>1. handler[h] \in [step : {"save", "opened", "saved"}, todo : Todos]
        BY <1>a, <3>1, CalmKept DEF OpenSave, States, Idle, Waiting
      <4>2. /\ [handler[h] EXCEPT !.step = "opened"].step = "opened"
            /\ [handler[h] EXCEPT !.step = "opened"].todo = handler[h].todo
        BY <4>1
      <4> QED BY <3>1, <4>2 DEF OpenSave, Untold
    <3>2. CASE CopyTable(h) \/ CloseSave(h)
      BY <3>2 DEF CopyTable, CloseSave, Untold
    <3> QED BY <1>4, <3>1, <3>2 DEF DoOpenSave, DoSave
  <2>3. \A o \in Handlers : GoOn(handler[o], handler'[o])
    BY <1>a, <2>2, CalmKept DEF GoOn, Goes
  <2> QED BY <1>a, <2>1, <2>3, FilingFrame DEF Calm
<1>5. ASSUME NEW h \in Handlers, DoSend(h)
      PROVE  Filing'
  BY <1>a, <1>5, SendFiled
<1>e. ASSUME NEW h \in Handlers, DoEndWait(h)
       PROVE  Filing'
  <2>1. /\ handler[h] \in Waiting /\ Goes(h, Idle)
        /\ UNCHANGED <<table, names, commands, entry, dirs>>
    BY <1>e DEF DoEndWait, EndWait, storageVars
  <2>2. \A o \in Handlers : GoOn(handler[o], handler'[o])
    BY <1>a, <2>1, CalmKept DEF GoOn, Goes, Untold, Idle, Waiting, Busy
  <2> QED BY <1>a, <2>1, <2>2, FilingFrame DEF Calm
<1>6. ApplyMkdir \/ ApplyMove => Filing'
  BY <1>a, MkdirFiled, ApplyMoveFiled
<1>7. CASE UNCHANGED <<table, names, commands, entry, dirs, handler>>
  BY <1>a, <1>b, <1>7, FilingFrame DEF Calm
<1>8. CASE EndWrite
  <2>1. UNCHANGED entry
    BY <1>8 DEF EndWrite, Note
  <2> QED BY <1>7, <1>8, <2>1 DEF EndWrite, foldersVars, tableVars
<1>9. CASE DoRestartNaming
  <2>1. /\ disk = table /\ commands = <<>> /\ \A h \in Handlers : ~Busy(handler[h])
        /\ RestartNaming /\ UNCHANGED storageVars
    BY <1>9 DEF DoRestartNaming
  <2>2. table' = table
    BY <1>a, <2>1, CalmKept, FoldersAssumption DEF RestartNaming, Tables
  <2>3. \A h \in Handlers : handler'[h] = Idle
    BY <2>1 DEF RestartNaming
  <2>4. \A h \in Handlers : GoOn(handler[h], handler'[h])
    BY <2>1, <2>3 DEF GoOn, Busy, Untold, Idle
  <2> QED BY <1>a, <2>1, <2>2, <2>4, FilingFrame DEF Calm, RestartNaming, storageVars
<1>10. CASE RestartStorage
  <2>1. commands = <<>> /\ commands' = <<>>
    BY <1>10 DEF RestartStorage, Note
  <2>2. names' = names
    BY <1>a, <1>10, CalmKept DEF RestartStorage
  <2> QED BY <1>7, <1>10, <2>1, <2>2 DEF RestartStorage, tableVars
<1>11. ASSUME NEW f \in Files, Create(f) \/ Delete(f) \/ Checkpoint(f)
       PROVE  Filing'
  BY <1>a, <1>11, FileFiled
<1>12. ASSUME NEW f \in Files, NEW append \in BOOLEAN, StartWrite(f, append)
       PROVE  Filing'
  BY <1>7, <1>12 DEF StartWrite, foldersVars, tableVars
<1>13. CASE UNCHANGED vars
  BY <1>7, <1>13 DEF vars, foldersVars, storageVars, tableVars
<1> QED BY <1>1, <1>2, <1>3, <1>4, <1>5, <1>6, <1>8, <1>9, <1>10, <1>11, <1>12, <1>13, <1>e
        DEF Next, HandlerStep, StorageStep

-----------------------------------------------------------------------------
(* The theorems.                                                            *)

LEMMA InitInvariant == Init => IInv
<1> SUFFICES ASSUME Init PROVE IInv
  OBVIOUS
<1>1. PICK made \in SUBSET Folders, known \in SUBSET Files :
        /\ FoldersInit(made, known) /\ dirs = made
        /\ entry = [f \in Files |-> [p \in Places |->
                      IF p = Root /\ f \in known THEN "file" ELSE "none"]]
  BY DEF Init
<1>2. Types
  BY InitTypes
<1>3. KeptApart
  BY <1>1 DEF KeptApart, FoldersInit, EmptyFolders, Apart, Idle
<1>4. SavesFollow
  <2>1. overlaid = {} /\ disk = table /\ \A h \in Handlers : handler[h].step = "idle"
    BY <1>1 DEF FoldersInit, Idle
  <2> QED BY <1>2, <2>1 DEF SavesFollow, Saving, Settled, Copied, Types, FolderTypes
<1>5. Kept
  <2>1. names = known
    BY <1>1 DEF FoldersInit
  <2> QED BY <1>1, <2>1 DEF Kept, Places
<1>6. Filed
  <2> USE DEF Untold
  <2>1. /\ names = known /\ commands = <<>> /\ dirs = made
        /\ \A h \in Handlers : handler[h] = Idle /\ handler[h].step = "idle"
        /\ \A d \in Folders : table[d] = IF d \in made THEN {} ELSE NoFolder
    BY <1>1 DEF FoldersInit, EmptyFolders, Idle
  <2>2. Orders = {} /\ \A f \in Files : In(f, table) = {}
    BY <2>1 DEF Orders, In
  <2>3. \A f \in known : Holding(f) \ {Root} = {}
    BY <1>1 DEF Holding
  <2>4. FoldersMade
    BY <2>1 DEF FoldersMade
  <2>5. MovesKnown /\ OneMover
    BY <2>1, <2>2 DEF MovesKnown, OneMover, Unsent, Busy
  <2>6. FiledWhereTold
    BY <2>1, <2>2, <2>3 DEF FiledWhereTold, Unsent
  <2> QED BY <2>4, <2>5, <2>6 DEF Filed, Filing
<1> QED BY <1>2, <1>3, <1>4, <1>5, <1>6 DEF IInv

\* The five parts are kept by every step of the naming server, of the storage
\* server and of its clients, and by restarts of both.
THEOREM Invariant == Spec => []IInv
<1>1. IInv /\ [Next]_vars => IInv'
  BY NextTypes, NextApart, NextSaves, NextKept, NextFiled DEF IInv
<1> QED BY InitInvariant, <1>1, PTL DEF Spec

\* A file is in one folder at most, whoever moves it at the same time, unless a
\* garbled folders.dat was loaded.
THEOREM OneFolder == Spec => []InOneFolder
<1>1. IInv => InOneFolder
  <2> SUFFICES ASSUME IInv, "garbled" \notin mishaps, NEW f \in Files
               PROVE  Cardinality(In(f, table)) <= 1
    BY DEF InOneFolder, Only
  <2>1. \A d, e \in In(f, table) : d = e
    BY DEF IInv, KeptApart, Apart, In
  <2>2. In(f, table) = {} \/ \E d \in Folders : In(f, table) = {d}
    BY <2>1 DEF In
  <2> QED BY <2>2, FS_EmptySet, FS_Singleton
<1> QED BY <1>1, Invariant, PTL

\* With nothing under way folders.dat is the folder table, unless a MOVE failed at a
\* full folder or two saves overlapped.
THEOREM SavedFolders == Spec => []FoldersSaved
<1>1. IInv => FoldersSaved
  BY DEF IInv, SavesFollow, FoldersSaved, Quiet, Only, Kinds, Settled, Copied, Busy
<1> QED BY <1>1, Invariant, PTL

\* A known file is stored, and without a stray copy it is stored once.
THEOREM FilesStored == Spec => []StoredOnce
<1>1. IInv => StoredOnce
  <2> SUFFICES ASSUME IInv, NEW f \in names
               PROVE  /\ Holding(f) # {}
                      /\ Only(Kinds \ {"stray"}) => Cardinality(Holding(f)) = 1
    BY DEF StoredOnce
  <2>1. f \in Files
    BY DEF IInv, Types, FolderTypes
  <2>2. PICK p \in Places : entry[f][p] = "file"
    BY DEF IInv, Kept
  <2>3. Only(Kinds \ {"stray"}) => Holding(f) = {p}
    BY <2>1, <2>2 DEF IInv, Kept, Holding, Only
  <2> QED BY <2>2, <2>3, FS_Singleton DEF Holding
<1> QED BY <1>1, Invariant, PTL

\* With nothing under way every known file is stored in the folder that lists it,
\* and every folder is a directory, unless one of the mishaps happened; saves that
\* overlap do no harm to this.
THEOREM FilesWhereListed == Spec => []FiledWhereStored
<1>1. IInv => FiledWhereStored
  <2> SUFFICES ASSUME IInv, Quiet, Only({"race"})
               PROVE  /\ \A f \in names : In(f, table) = Holding(f) \ {Root}
                      /\ \A d \in Folders : table[d] # NoFolder => d \in dirs
    BY DEF FiledWhereStored
  <2>1. /\ \A h \in Handlers : handler[h].step \in {"idle", "timed", "untimed"}
        /\ Orders = {}
    BY DEF Quiet, Busy, Orders
  <2>2. Filing
    BY <2>1 DEF IInv, Filed, Hung
  <2> QED BY <2>1, <2>2 DEF Filing, FiledWhereTold, FoldersMade, Unsent, Making, Untold
<1> QED BY <1>1, Invariant, PTL
=============================================================================
