---------------------------- MODULE WriteSession ----------------------------
(***************************************************************************)
(* The storage server's shared state and every thread that changes it:     *)
(* one thread per client connection running handle_write_file (a session), *)
(* client threads running UNDO and the checkpoint commands (handlers), and *)
(* the thread that obeys the naming server.  A step is the code between    *)
(* two points where another thread can run.                                *)
(*                                                                         *)
(* Files lie in the root of the storage directory; a file is replaced in   *)
(* one step (rename); a naming server that applies UPDATE_METADATA in the  *)
(* order it is sent is represented by the text whose words it last         *)
(* counted.                                                                *)
(***************************************************************************)
EXTENDS Sentences

CONSTANTS Files, Tags,
          Sessions,          \* threads that serve a WRITE
          Handlers,          \* threads that serve UNDO and checkpoints
          NMThread,          \* nm_communication_thread
          Indices,           \* sentence indices clients ask for
          Inserts,           \* words clients send
          InitialTexts,      \* texts of a file at the start, or Absent
          ReplicaTexts,      \* texts the naming server may push
          MaxLocks,          \* size of sentence_locks
          MaxCommitLocks,    \* size of file_commit_locks
          MaxUndo,           \* size of undo_storage
          MaxOpens,          \* bound: WRITE requests in a behaviour
          MaxUpdates,        \* bound: words sent in a behaviour
          MaxOps,            \* bound: requests of the other kinds
          MaxCrashes,        \* bound: restarts of the storage server
          Absent, NoEntry, Free, None

Writers   == Handlers \cup {NMThread}
Sentinels == {Absent, NoEntry, Free, None}

ASSUME ConstantsAssumption ==
  /\ IsFiniteSet(Files)
  /\ Indices \subseteq Nat
  /\ Inserts \subseteq Token
  /\ InitialTexts \subseteq Text \cup {Absent}
  /\ ReplicaTexts \subseteq Text
  /\ {MaxLocks, MaxCommitLocks, MaxUndo, MaxOpens, MaxUpdates, MaxOps, MaxCrashes}
       \subseteq Nat

ASSUME SentinelsAssumption ==
  /\ Sentinels \cap (Text \cup Sessions \cup Files) = {}
  /\ Absent # NoEntry /\ Absent # Free /\ Absent # None
  /\ NoEntry # Free /\ NoEntry # None /\ Free # None
  /\ NMThread \notin Handlers

VARIABLES
  content,       \* the files on disk
  backup,        \* their copies under backup/
  checkpoint,    \* <parent>/checkpoints/<file>/<tag>.chk
  undo,          \* undo_storage: None once taken
  locks,         \* sentence_locks: entries are never removed
  commitLock,    \* file_commit_locks, with the holder of the mutex
  counted,       \* what the last UPDATE_METADATA of the file was computed from
  prior,         \* history: the text the latest commit of the file replaced
  timeout,       \* SO_RCVTIMEO of nm_socket_fd is set
  pc, file, idx, \* per session: where it is, the file, sentence_idx
  snap,          \* current_content, read when the session opened
  words,         \* sentence_words
  latest,        \* latest_content, read again under the commit lock
  wpc, wfile, wdata, wtag,   \* per writer: where it is, the file, text, tag
  opens, updates, ops, crashes   \* requests and restarts so far

disk     == <<content, backup, checkpoint>>
tables   == <<undo, locks, commitLock>>
sessions == <<pc, file, idx, snap, words, latest>>
writers  == <<wpc, wfile, wdata, wtag>>
bounds   == <<opens, updates, ops, crashes>>
vars     == <<disk, tables, counted, prior, timeout, sessions, writers, bounds>>

Entries == Files \X Indices

----------------------------------------------------------------------------
Init ==
  /\ content \in [Files -> InitialTexts]
  /\ backup = content
  /\ checkpoint = [e \in Files \X Tags |-> Absent]
  /\ undo = [f \in Files |-> NoEntry]
  /\ locks = [e \in Entries |-> NoEntry]
  /\ commitLock = [f \in Files |-> NoEntry]
  /\ counted = [f \in Files |-> IF content[f] = Absent THEN <<>> ELSE content[f]]
  /\ prior = [f \in Files |-> None]
  /\ timeout = FALSE
  /\ pc = [s \in Sessions |-> "idle"]
  /\ file = [s \in Sessions |-> None]
  /\ idx = [s \in Sessions |-> 0]
  /\ snap = [s \in Sessions |-> <<>>]
  /\ words = [s \in Sessions |-> <<>>]
  /\ latest = [s \in Sessions |-> <<>>]
  /\ wpc = [w \in Writers |-> "idle"]
  /\ wfile = [w \in Writers |-> None]
  /\ wdata = [w \in Writers |-> <<>>]
  /\ wtag = [w \in Writers |-> None]
  /\ opens = 0 /\ updates = 0 /\ ops = 0 /\ crashes = 0

----------------------------------------------------------------------------
(* Helpers *)

\* read_file_content, with "" for a file that is not there.
Contents(f) == IF content[f] = Absent THEN <<>> ELSE content[f]

\* The naming server sends clients here once a file has been created and its
\* empty backup written; backups are never removed.
Routed(f) == backup[f] # Absent

\* A table entry can be used when it exists or there is room for one.
HasRoom(table, key, size) ==
  \/ table[key] # NoEntry
  \/ Cardinality({k \in DOMAIN table : table[k] # NoEntry}) < size

Held(s)   == <<file[s], idx[s]>>
Target(s) == CommitTarget(snap[s], idx[s], latest[s])
\* Faulty variant: the edit is merged into the text the session opened.
MergedIntoSnapshot(s) == Merge(snap[s], idx[s], words[s], snap[s])
Merged(s) == Merge(snap[s], idx[s], words[s], latest[s])

Goto(s, l) == pc' = [pc EXCEPT ![s] = l]

\* The session's buffers are freed and its thread ends.
EndSession(s) ==
  /\ pc' = [pc EXCEPT ![s] = "idle"]
  /\ file' = [file EXCEPT ![s] = None]
  /\ idx' = [idx EXCEPT ![s] = 0]
  /\ snap' = [snap EXCEPT ![s] = <<>>]
  /\ words' = [words EXCEPT ![s] = <<>>]
  /\ latest' = [latest EXCEPT ![s] = <<>>]

UnlockCommit(s) ==
  commitLock' = IF commitLock[file[s]] = s
                  THEN [commitLock EXCEPT ![file[s]] = Free]
                  ELSE commitLock

----------------------------------------------------------------------------
(* A WRITE session *)

\* Lines 402-445: the file is read and the index checked; a bad index is
\* refused and changes nothing.
Open(s, f, k) ==
  /\ pc[s] = "idle"
  /\ opens < MaxOpens
  /\ Routed(f)
  /\ IndexValid(Contents(f), k)
  /\ Goto(s, "opened")
  /\ file' = [file EXCEPT ![s] = f]
  /\ idx' = [idx EXCEPT ![s] = k]
  /\ snap' = [snap EXCEPT ![s] = Contents(f)]
  /\ opens' = opens + 1
  /\ UNCHANGED <<disk, tables, counted, prior, timeout, words, latest, writers,
                 updates, ops, crashes>>

\* try_acquire_lock: the name of the entry is the index the client sent.
AcquireLock(s) ==
  /\ pc[s] = "opened"
  /\ HasRoom(locks, Held(s), MaxLocks)
  /\ locks[Held(s)] \in {NoEntry, Free}
  /\ locks' = [locks EXCEPT ![Held(s)] = s]
  /\ Goto(s, "locked")
  /\ UNCHANGED <<disk, undo, commitLock, counted, prior, timeout, file, idx, snap,
                 words, latest, writers, bounds>>

LockRefused(s) ==
  /\ pc[s] = "opened"
  /\ \/ ~HasRoom(locks, Held(s), MaxLocks)
     \/ locks[Held(s)] \notin {NoEntry, Free}
  /\ EndSession(s)
  /\ UNCHANGED <<disk, tables, counted, prior, timeout, writers, bounds>>

\* Lines 461-496: the undo copy is the text read before the lock was taken.
SaveUndo(s) ==
  /\ pc[s] = "locked"
  /\ undo' = IF HasRoom(undo, file[s], MaxUndo)
               THEN [undo EXCEPT ![file[s]] = snap[s]]
               ELSE undo
  /\ words' = [words EXCEPT ![s] = TargetWords(snap[s], idx[s])]
  /\ Goto(s, "editing")
  /\ UNCHANGED <<disk, locks, commitLock, counted, prior, timeout, file, idx, snap,
                 latest, writers, bounds>>

\* One accepted update; a refused position only gets an error reply.
ReceiveWord(s, p, t) ==
  /\ pc[s] = "editing"
  /\ updates < MaxUpdates
  /\ PositionValid(words[s], p)
  /\ Representable(words[s], p, t)
  /\ words' = [words EXCEPT ![s] = InsertWord(@, p, t)]
  /\ updates' = updates + 1
  /\ UNCHANGED <<disk, tables, counted, prior, timeout, pc, file, idx, snap, latest,
                 writers, opens, ops, crashes>>

Etirw(s) ==
  /\ pc[s] = "editing"
  /\ Goto(s, "commit")
  /\ UNCHANGED <<disk, tables, counted, prior, timeout, file, idx, snap, words,
                 latest, writers, bounds>>

\* Faulty variant: the thread ends without release_lock.
DisconnectLeaking(s) ==
  /\ pc[s] = "editing"
  /\ EndSession(s)
  /\ UNCHANGED <<disk, tables, counted, prior, timeout, writers, bounds>>

\* recv fails: the session ends without a commit.
Disconnect(s) ==
  /\ pc[s] = "editing"
  /\ Goto(s, "releasing")
  /\ UNCHANGED <<disk, tables, counted, prior, timeout, file, idx, snap, words,
                 latest, writers, bounds>>

\* Faulty variants: the mutex is not waited for; an entry serves only once.
LockCommitUnchecked(s) ==
  /\ pc[s] = "commit"
  /\ commitLock' = [commitLock EXCEPT ![file[s]] = s]
  /\ Goto(s, "merging")
  /\ UNCHANGED <<disk, undo, locks, counted, prior, timeout, file, idx, snap, words,
                 latest, writers, bounds>>

LockCommitOnce(s) ==
  /\ pc[s] = "commit"
  /\ commitLock[file[s]] = NoEntry
  /\ commitLock' = [commitLock EXCEPT ![file[s]] = s]
  /\ Goto(s, "merging")
  /\ UNCHANGED <<disk, undo, locks, counted, prior, timeout, file, idx, snap, words,
                 latest, writers, bounds>>

\* With the table full the commit goes on without a lock.
LockCommit(s) ==
  /\ pc[s] = "commit"
  /\ \/ /\ HasRoom(commitLock, file[s], MaxCommitLocks)
        /\ commitLock[file[s]] \in {NoEntry, Free}
        /\ commitLock' = [commitLock EXCEPT ![file[s]] = s]
     \/ /\ ~HasRoom(commitLock, file[s], MaxCommitLocks)
        /\ UNCHANGED commitLock
  /\ Goto(s, "merging")
  /\ UNCHANGED <<disk, undo, locks, counted, prior, timeout, file, idx, snap, words,
                 latest, writers, bounds>>

\* Faulty variant: the text read at the start is used again.
ReadLatestCached(s) ==
  /\ pc[s] = "merging"
  /\ latest' = [latest EXCEPT ![s] = snap[s]]
  /\ Goto(s, "writing")
  /\ UNCHANGED <<disk, tables, counted, prior, timeout, file, idx, snap, words,
                 writers, bounds>>

\* Lines 662-780: the file is read again and the target found in it.
ReadLatest(s) ==
  /\ pc[s] = "merging"
  /\ CommitTarget(snap[s], idx[s], Contents(file[s])) # -1
  /\ latest' = [latest EXCEPT ![s] = Contents(file[s])]
  /\ Goto(s, "writing")
  /\ UNCHANGED <<disk, tables, counted, prior, timeout, file, idx, snap, words,
                 writers, bounds>>

\* "ERROR: File changed; retry write."
RefuseCommit(s) ==
  /\ pc[s] = "merging"
  /\ CommitTarget(snap[s], idx[s], Contents(file[s])) = -1
  /\ UnlockCommit(s)
  /\ Goto(s, "releasing")
  /\ UNCHANGED <<disk, undo, locks, counted, prior, timeout, file, idx, snap, words,
                 latest, writers, bounds>>

WriteFile(s) ==
  /\ pc[s] = "writing"
  /\ content' = [content EXCEPT ![file[s]] = Merged(s)]
  /\ prior' = [prior EXCEPT ![file[s]] = Contents(file[s])]
  /\ Goto(s, "mirroring")
  /\ UNCHANGED <<backup, checkpoint, tables, counted, timeout, file, idx, snap,
                 words, latest, writers, bounds>>

\* Faulty variant: the text before the merge is mirrored.
MirrorLatest(s) ==
  /\ pc[s] = "mirroring"
  /\ backup' = [backup EXCEPT ![file[s]] = latest[s]]
  /\ UnlockCommit(s)
  /\ Goto(s, "reporting")
  /\ UNCHANGED <<content, checkpoint, undo, locks, counted, prior, timeout, file,
                 idx, snap, words, latest, writers, bounds>>

MirrorFile(s) ==
  /\ pc[s] = "mirroring"
  /\ backup' = [backup EXCEPT ![file[s]] = Merged(s)]
  /\ UnlockCommit(s)
  /\ Goto(s, "reporting")
  /\ UNCHANGED <<content, checkpoint, undo, locks, counted, prior, timeout, file,
                 idx, snap, words, latest, writers, bounds>>

\* After the commit lock is free again: the counts are sent, which may take as
\* long as the buffer is full, and a time-out is set for the acknowledgement.
ReportCounts(s) ==
  /\ pc[s] = "reporting"
  /\ counted' = [counted EXCEPT ![file[s]] = Merged(s)]
  /\ timeout' = TRUE
  /\ Goto(s, "reported")
  /\ UNCHANGED <<disk, tables, prior, file, idx, snap, words, latest, writers,
                 bounds>>

\* recv begins with the time-out that the socket has now: another session may
\* have restored it since.  A session without one is stranded until some message
\* of the naming server comes its way.
AwaitAck(s) ==
  /\ pc[s] = "reported"
  /\ Goto(s, IF timeout THEN "awaiting" ELSE "stranded")
  /\ UNCHANGED <<disk, tables, counted, prior, timeout, file, idx, snap, words,
                 latest, writers, bounds>>

\* A message or the end of the second; the time-out is restored, the client told.
EndReport(s) ==
  /\ pc[s] \in {"awaiting", "stranded"}
  /\ timeout' = FALSE
  /\ Goto(s, "releasing")
  /\ UNCHANGED <<disk, tables, counted, prior, file, idx, snap, words, latest,
                 writers, bounds>>

ReleaseLock(s) ==
  /\ pc[s] = "releasing"
  /\ locks' = [locks EXCEPT ![Held(s)] = Free]
  /\ EndSession(s)
  /\ UNCHANGED <<disk, undo, commitLock, counted, prior, timeout, writers, bounds>>

----------------------------------------------------------------------------
(* Threads that write a file without the commit lock *)

WriterGoto(w, l) == wpc' = [wpc EXCEPT ![w] = l]

StartWriter(w, l, f, t) ==
  /\ wpc[w] = "idle"
  /\ ops < MaxOps
  /\ ops' = ops + 1
  /\ WriterGoto(w, l)
  /\ wfile' = [wfile EXCEPT ![w] = f]
  /\ wdata' = [wdata EXCEPT ![w] = t]

EndWriter(w) ==
  /\ WriterGoto(w, "idle")
  /\ wfile' = [wfile EXCEPT ![w] = None]
  /\ wdata' = [wdata EXCEPT ![w] = <<>>]
  /\ wtag' = [wtag EXCEPT ![w] = None]

\* get_undo takes the copy out of the table; without one only a reply is sent.
TakeUndo(w, f) ==
  /\ w \in Handlers
  /\ undo[f] \notin {NoEntry, None}
  /\ StartWriter(w, "undo write", f, undo[f])
  /\ undo' = [undo EXCEPT ![f] = None]
  /\ UNCHANGED <<disk, locks, commitLock, counted, prior, timeout, sessions, wtag,
                 opens, updates, crashes>>

ReadCheckpoint(w, f, g) ==
  /\ w \in Handlers
  /\ checkpoint[<<f, g>>] # Absent
  /\ StartWriter(w, "revert write", f, checkpoint[<<f, g>>])
  /\ UNCHANGED <<disk, tables, counted, prior, timeout, sessions, wtag, opens,
                 updates, crashes>>

\* CP_CREATE reads the file, then writes the snapshot.
CreateCheckpoint(w, f, g) ==
  /\ w \in Handlers
  /\ Routed(f)
  /\ content[f] # Absent
  /\ StartWriter(w, "checkpoint write", f, content[f])
  /\ wtag' = [wtag EXCEPT ![w] = g]
  /\ UNCHANGED <<disk, tables, counted, prior, timeout, sessions, opens, updates,
                 crashes>>

\* The naming server creates, deletes or pushes (MSG_WRITE_FILE_SS) a file.
CreateFile(f) ==
  /\ content[f] = Absent
  /\ StartWriter(NMThread, "create mirror", f, <<>>)
  /\ content' = [content EXCEPT ![f] = <<>>]
  /\ UNCHANGED <<backup, checkpoint, tables, counted, prior, timeout, sessions,
                 wtag, opens, updates, crashes>>

DeleteFile(f) ==
  /\ wpc[NMThread] = "idle"
  /\ ops < MaxOps
  /\ ops' = ops + 1
  /\ content[f] # Absent
  /\ content' = [content EXCEPT ![f] = Absent]
  /\ UNCHANGED <<backup, checkpoint, tables, counted, prior, timeout, sessions,
                 writers, opens, updates, crashes>>

PushFile(f, t) ==
  /\ StartWriter(NMThread, "push write", f, t)
  /\ UNCHANGED <<disk, tables, counted, prior, timeout, sessions, wtag, opens,
                 updates, crashes>>

AfterWrite(l)  == CASE l = "undo write"   -> "undo mirror"
                    [] l = "revert write" -> "revert mirror"
                    [] l = "push write"   -> "push mirror"

WriterWrite(w) ==
  /\ wpc[w] \in {"undo write", "revert write", "push write"}
  /\ content' = [content EXCEPT ![wfile[w]] = wdata[w]]
  /\ WriterGoto(w, AfterWrite(wpc[w]))
  /\ UNCHANGED <<backup, checkpoint, tables, counted, prior, timeout, sessions,
                 wfile, wdata, wtag, bounds>>

\* UNDO and CREATE end here: UNDO reports no counts.
WriterMirrorAndEnd(w) ==
  /\ wpc[w] \in {"undo mirror", "create mirror"}
  /\ backup' = [backup EXCEPT ![wfile[w]] = wdata[w]]
  /\ counted' = IF wpc[w] = "create mirror"
                  THEN [counted EXCEPT ![wfile[w]] = <<>>] ELSE counted
  /\ EndWriter(w)
  /\ UNCHANGED <<content, checkpoint, tables, prior, timeout, sessions, bounds>>

WriterMirror(w) ==
  /\ wpc[w] \in {"revert mirror", "push mirror"}
  /\ backup' = [backup EXCEPT ![wfile[w]] = wdata[w]]
  /\ WriterGoto(w, "report")
  /\ UNCHANGED <<content, checkpoint, tables, counted, prior, timeout, sessions,
                 wfile, wdata, wtag, bounds>>

WriterReport(w) ==
  /\ wpc[w] = "report"
  /\ counted' = [counted EXCEPT ![wfile[w]] = wdata[w]]
  /\ EndWriter(w)
  /\ UNCHANGED <<disk, tables, prior, timeout, sessions, bounds>>

WriteCheckpoint(w) ==
  /\ wpc[w] = "checkpoint write"
  /\ checkpoint' = [checkpoint EXCEPT ![<<wfile[w], wtag[w]>>] = wdata[w]]
  /\ EndWriter(w)
  /\ UNCHANGED <<content, backup, tables, counted, prior, timeout, sessions,
                 bounds>>

----------------------------------------------------------------------------
\* The process ends and is started again on the same directory: the tables
\* and every thread are gone, the disk stays.
Restart ==
  /\ crashes < MaxCrashes
  /\ crashes' = crashes + 1
  /\ undo' = [f \in Files |-> NoEntry]
  /\ locks' = [e \in Entries |-> NoEntry]
  /\ commitLock' = [f \in Files |-> NoEntry]
  /\ pc' = [s \in Sessions |-> "idle"]
  /\ file' = [s \in Sessions |-> None]
  /\ idx' = [s \in Sessions |-> 0]
  /\ snap' = [s \in Sessions |-> <<>>]
  /\ words' = [s \in Sessions |-> <<>>]
  /\ latest' = [s \in Sessions |-> <<>>]
  /\ wpc' = [w \in Writers |-> "idle"]
  /\ wfile' = [w \in Writers |-> None]
  /\ wdata' = [w \in Writers |-> <<>>]
  /\ wtag' = [w \in Writers |-> None]
  /\ timeout' = FALSE
  /\ UNCHANGED <<disk, counted, prior, opens, updates, ops>>

SessionStep(s) ==
  \/ AcquireLock(s) \/ LockRefused(s) \/ SaveUndo(s)
  \/ LockCommit(s) \/ ReadLatest(s) \/ RefuseCommit(s)
  \/ WriteFile(s) \/ MirrorFile(s) \/ ReportCounts(s) \/ AwaitAck(s) \/ EndReport(s)
  \/ ReleaseLock(s)

ClientStep(s) ==
  \/ \E f \in Files, k \in Indices : Open(s, f, k)
  \/ \E p \in 1..MaxWords, t \in Inserts : ReceiveWord(s, p, t)
  \/ Etirw(s)
  \/ Disconnect(s)

WriterStart ==
  \E f \in Files :
    \/ \E w \in Handlers : TakeUndo(w, f)
    \/ \E w \in Handlers, g \in Tags : ReadCheckpoint(w, f, g) \/ CreateCheckpoint(w, f, g)
    \/ CreateFile(f)
    \/ DeleteFile(f)
    \/ \E t \in ReplicaTexts : PushFile(f, t)

WriterStep(w) ==
  \/ WriterWrite(w) \/ WriterMirrorAndEnd(w) \/ WriterMirror(w)
  \/ WriterReport(w) \/ WriteCheckpoint(w)

Next ==
  \/ \E s \in Sessions : ClientStep(s) \/ SessionStep(s)
  \/ WriterStart
  \/ \E w \in Writers : WriterStep(w)
  \/ Restart

Spec == Init /\ [][Next]_vars

\* The naming server's side of the connection: a send that finds the buffer full,
\* a recv without a time-out.
WaitsForNM(s) == pc[s] \in {"reporting", "stranded"}

\* The threads of sessions keep running, except where the naming server has to
\* do something first.  Clients owe nothing, and no other thread is needed.
Fairness == \A s \in Sessions : WF_vars(~WaitsForNM(s) /\ SessionStep(s))

FairSpec == Spec /\ Fairness

----------------------------------------------------------------------------
(* Properties *)

Holding == {"locked", "editing", "commit", "merging", "writing", "mirroring",
            "reporting", "reported", "awaiting", "stranded", "releasing"}
Critical == {"merging", "writing", "mirroring"}

WriterLabels == {"idle", "undo write", "undo mirror", "revert write", "revert mirror",
                 "push write", "push mirror", "report", "create mirror",
                 "checkpoint write"}

FileText == Text \cup {Absent}

DiskOK ==
  /\ content \in [Files -> FileText]
  /\ backup \in [Files -> FileText]
  /\ checkpoint \in [Files \X Tags -> FileText]

TablesOK ==
  /\ undo \in [Files -> Text \cup {NoEntry, None}]
  /\ locks \in [Entries -> Sessions \cup {NoEntry, Free}]
  /\ commitLock \in [Files -> Sessions \cup {NoEntry, Free}]

SessionsOK ==
  /\ pc \in [Sessions -> {"idle", "opened"} \cup Holding]
  /\ file \in [Sessions -> Files \cup {None}]
  /\ idx \in [Sessions -> Nat]
  /\ snap \in [Sessions -> Text]
  /\ words \in [Sessions -> Text]
  /\ latest \in [Sessions -> Text]
  /\ \A s \in Sessions : Len(words[s]) <= MaxWords

WritersOK ==
  /\ wpc \in [Writers -> WriterLabels]
  /\ wfile \in [Writers -> Files \cup {None}]
  /\ wdata \in [Writers -> Text]
  /\ wtag \in [Writers -> Tags \cup {None}]

RecordsOK ==
  /\ counted \in [Files -> Text]
  /\ prior \in [Files -> Text \cup {None}]
  /\ timeout \in BOOLEAN
  /\ opens \in 0..MaxOpens /\ updates \in 0..MaxUpdates
  /\ ops \in 0..MaxOps /\ crashes \in 0..MaxCrashes

\* The types, and the bound of the array of words: no insertion and no long
\* sentence makes a session write past MAX_WORDS_PER_SENTENCE entries.
TypeOK == DiskOK /\ TablesOK /\ SessionsOK /\ WritersOK /\ RecordsOK

\* A sentence lock is set exactly while the session that set it is between
\* try_acquire_lock and release_lock: no path (abort, refused commit, success,
\* restart) leaks one or frees another session's.
LockTableExact ==
  \A s \in Sessions, e \in Entries :
    locks[e] = s <=> pc[s] \in Holding /\ Held(s) = e

\* With room in file_commit_locks, one session at a time is between the lock
\* and the unlock of a file's commit section.
CommitSerialised ==
  \A s, t \in Sessions :
    /\ s # t
    /\ pc[s] \in Critical
    /\ pc[t] \in Critical
    => file[s] # file[t]

\* As long as UNDO, revert and the naming server stay away from the files, the
\* text a commit merges into is still the text of the file when it writes.
CommitSeesLatest ==
  \A s \in Sessions : pc[s] = "writing" => latest[s] = Contents(file[s])

\* Under the same condition a backup differs from its file only while a
\* session stands between the two writes.
BackupMirrors ==
  \A f \in Files :
    \/ \E s \in Sessions : pc[s] = "mirroring" /\ file[s] = f
    \/ \E w \in Writers :
         /\ wpc[w] \in {"undo mirror", "revert mirror", "push mirror", "create mirror"}
         /\ wfile[w] = f
    \/ content[f] \in {backup[f], Absent}

\* How often fragment a occurs in a text.
Spots(c, a) ==
  UNION {{<<i, j>> : j \in {l \in DOMAIN c[i].atoms : c[i].atoms[l] = a}} : i \in DOMAIN c}
Occurrences(c, a) == Cardinality(Spots(c, a))

CommitStep(s) == pc[s] = "writing" /\ pc'[s] = "mirroring"

NoWordLostBy(s) ==
  \A a \in Atom : Occurrences(content'[file[s]], a) >= Occurrences(Contents(file[s]), a)

\* While its sentence is still in the file, or when it appends, a commit keeps
\* every word of the file, whoever wrote it and wherever the sentence moved.  A
\* sentence longer than the array of words is cut when a session opens it.
CommitKeepsWords ==
  [][\A s \in Sessions :
       /\ CommitStep(s)
       /\ \/ IsAppend(snap[s], idx[s])
          \/ /\ Len(Sentence(snap[s], idx[s])) <= MaxWords
             /\ Matches(latest[s], Sentence(snap[s], idx[s])) # {}
       => NoWordLostBy(s)]_vars

\* The inductive invariant.  A busy thread knows its file, and a session that
\* writes has a target; then the two lock tables, which say who is where.
ThreadsLocated ==
  /\ \A s \in Sessions : pc[s] # "idle" => Held(s) \in Entries
  /\ \A s \in Sessions :
       pc[s] \in {"writing", "mirroring", "reporting"} => Target(s) # -1
  /\ \A w \in Writers : wpc[w] # "idle" => wfile[w] \in Files
  /\ \A w \in Writers : wpc[w] = "checkpoint write" => wtag[w] \in Tags

\* Every file of the directory can have its entry in file_commit_locks.
CommitTableSuffices == MaxCommitLocks >= Cardinality(Files)

CommitTableExact ==
  \A s \in Sessions, f \in Files :
    /\ commitLock[f] = s => pc[s] \in Critical /\ file[s] = f
    /\ CommitTableSuffices /\ pc[s] \in Critical /\ file[s] = f => commitLock[f] = s

IndInv == TypeOK /\ ThreadsLocated /\ LockTableExact /\ CommitTableExact

\* README: the sentence is remapped at commit time "to avoid overwriting a
\* concurrently changed sentence by accident", so no commit loses a word that
\* is in the file when it writes.
NoWordOverwritten ==
  [][\A s \in Sessions : CommitStep(s) => NoWordLostBy(s)]_vars

\* README: undo "restores the last committed content snapshot": when no session
\* is at work, what UNDO would write is the text before the last commit.
UndoRestoresLastCommit ==
  \A f \in Files :
    /\ \A s \in Sessions : file[s] # f
    /\ prior[f] # None
    /\ undo[f] \notin {NoEntry, None}
    => undo[f] = prior[f]

\* README: deleting a file removes the primary file: after that only the naming
\* server brings a file of the name into being.
DeletedStaysDeleted ==
  [][\A f \in Files :
       content[f] = Absent /\ content'[f] # Absent
       => wpc'[NMThread] \in {"create mirror", "push mirror"}]_vars

\* A session whose client said ETIRW is answered and gives its sentence back,
\* unless the naming server keeps it waiting for ever after the commit: its send
\* finds the buffer full for good, or another session that reported at the same
\* time restored the time-out of the shared socket (SS 854) before its recv began
\* (SS 853) and no message reaches it.
EtirwAnswered ==
  \A s \in Sessions :
    <>[](pc[s] \in Holding \ {"locked", "editing"}) =>
      <>[](pc[s] = "reporting") \/ <>[](pc[s] = "stranded")

\* Sessions and commits as the abstract store sees them.
Store == INSTANCE SentenceStore WITH
  text   <- [f \in Files |-> Contents(f)],
  holder <- [e \in Entries |-> IF locks[e] = NoEntry THEN Free ELSE locks[e]]

ImplementsStore == Store!Spec
=============================================================================
