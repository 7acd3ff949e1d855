----------------------------- MODULE NMMetadata -----------------------------
(***************************************************************************)
(* The naming server's metadata: FileMetadata objects on the heap, the     *)
(* trie that names them, the cache that points at them too, the access     *)
(* requests, and the two files they are saved to.  Handlers run in one     *)
(* thread per connection.  What a handler does between locking and         *)
(* unlocking trie_mutex (or access_requests_mutex) is one step; handlers   *)
(* that unlock in the middle take several and keep their place in threads. *)
(***************************************************************************)
EXTENDS Recency, FiniteSets

CONSTANTS Files, Users,
          System,        \* owner of the files a storage server brings along
          Metas,         \* addresses calloc may return for a FileMetadata
          Null,
          MaxUsers,      \* MAX_USERS, the room of an access list
          MaxRequests,   \* the room of access_requests
          Threads        \* bound: handlers in the middle of their work

VARIABLES objs, trie, entries, requests, disk, diskRequests, threads

vars == <<objs, trie, entries, requests, disk, diskRequests, threads>>

NoAccess == 0
Read     == 1
Write    == 2
Access   == {NoAccess, Read, Write}

People == Users \cup {System}

Metadata == [file : Files, owner : People, acl : [People -> Access]]
Request  == [file : Files, requester : Users, want : {Read, Write}, pending : BOOLEAN]
Places   == {"idle", "fetch", "append", "resolve", "grant", "copy", "push"}

Idle == [at |-> "idle", user |-> Null, file |-> Null, who |-> Null,
         want |-> NoAccess, meta |-> Null]

ASSUME MetadataAssumption ==
  /\ IsFiniteSet(Files) /\ IsFiniteSet(Users)
  /\ System \notin Users
  /\ Null \notin Metas \cup Users \cup Files \cup {System}
  /\ Null \notin Metadata
  /\ MaxUsers \in Nat \ {0}
  /\ MaxRequests \in Nat

Init ==
  /\ objs = [p \in Metas |-> Null]
  /\ trie = [f \in Files |-> Null]
  /\ entries = <<>>
  /\ requests = <<>>
  /\ disk = [f \in Files |-> Null]
  /\ diskRequests = <<>>
  /\ threads = [t \in Threads |-> Idle]

----------------------------------------------------------------------------
(* One metadata object *)

NewMetadata(f, u) ==
  [file |-> f, owner |-> u,
   acl |-> [v \in People |-> IF v = u THEN Write ELSE NoAccess]]

Room(m, v) ==
  m.acl[v] # NoAccess \/ Cardinality({w \in People : m.acl[w] # NoAccess}) < MaxUsers

\* add_file_access.  Faulty variant: what was asked replaces what was there.
GrantedDowngrading(m, v, a) ==
  IF ~Room(m, v) THEN m ELSE [m EXCEPT !.acl[v] = IF v = m.owner THEN Write ELSE a]

Granted(m, v, a) ==
  IF m.acl[v] = Write \/ ~Room(m, v) THEN m
  ELSE [m EXCEPT !.acl[v] = IF v = m.owner THEN Write ELSE a]

\* remove_file_access.  Faulty variant: the owner is removed like the others.
RevokedAnyone(m, v) == [m EXCEPT !.acl[v] = NoAccess]

Revoked(m, v) == IF v = m.owner THEN m ELSE [m EXCEPT !.acl[v] = NoAccess]

\* A line of metadata.dat, read back: the owner gets WRITE again.
Loaded(m) ==
  IF Room(m, m.owner) THEN [m EXCEPT !.acl[m.owner] = Write] ELSE m

\* What trie_save_to_disk writes.
Saved(t, o) == [f \in Files |-> IF t[f] = Null THEN Null ELSE o[t[f]]]

\* The search every handler starts with: the cache, then the trie.
Found(f)    == IF Cached(entries, f) THEN entries[Position(entries, f)].data ELSE trie[f]
LookedUp(f) == IF Cached(entries, f) THEN Touch(entries, f)
               ELSE IF trie[f] # Null THEN Store(entries, f, trie[f])
               ELSE entries

OwnedBy(f, u) == Found(f) # Null /\ objs[Found(f)].owner = u

----------------------------------------------------------------------------
(* Handlers that keep the lock to their end *)

\* READ, STREAM, WRITE, UNDO, INFO and checkpoint routing, and every other
\* handler that is refused: only the cache changes.
Lookup(f) ==
  /\ entries' = LookedUp(f)
  /\ UNCHANGED <<objs, trie, requests, disk, diskRequests, threads>>

AddFile(f, u) ==
  \E p \in {q \in Metas : objs[q] = Null} :
    /\ objs' = [objs EXCEPT ![p] = NewMetadata(f, u)]
    /\ trie' = [trie EXCEPT ![f] = p]
    /\ entries' = Store(entries, f, p)
    /\ disk' = Saved(trie', objs')

\* CREATE, when the storage server said yes.
CreateFile(f, u) ==
  /\ trie[f] = Null
  /\ AddFile(f, u)
  /\ UNCHANGED <<requests, diskRequests, threads>>

\* A storage server registers and names a file it already has.
\* Faulty variant: also a file that is known.
SeedOver(f) ==
  /\ AddFile(f, System)
  /\ UNCHANGED <<requests, diskRequests, threads>>

Seed(f) ==
  /\ trie[f] = Null
  /\ AddFile(f, System)
  /\ UNCHANGED <<requests, diskRequests, threads>>

\* DELETE, when the storage server said yes.  Faulty variant: the cache keeps
\* its entry.
DeleteFileOnly(f, u) ==
  /\ OwnedBy(f, u)
  /\ objs' = [objs EXCEPT ![trie[f]] = Null]
  /\ trie' = [trie EXCEPT ![f] = Null]
  /\ entries' = LookedUp(f)
  /\ disk' = Saved(trie', objs')
  /\ UNCHANGED <<requests, diskRequests, threads>>

DeleteFile(f, u) ==
  /\ OwnedBy(f, u)
  /\ objs' = [objs EXCEPT ![trie[f]] = Null]
  /\ trie' = [trie EXCEPT ![f] = Null]
  /\ entries' = Drop(LookedUp(f), f)
  /\ disk' = Saved(trie', objs')
  /\ UNCHANGED <<requests, diskRequests, threads>>

AddAccess(f, u, v, a) ==
  /\ OwnedBy(f, u)
  /\ objs' = [objs EXCEPT ![Found(f)] = Granted(@, v, a)]
  /\ entries' = LookedUp(f)
  /\ disk' = Saved(trie, objs')
  /\ UNCHANGED <<trie, requests, diskRequests, threads>>

RemoveAccess(f, u, v) ==
  /\ OwnedBy(f, u)
  /\ objs' = [objs EXCEPT ![Found(f)] = Revoked(@, v)]
  /\ entries' = LookedUp(f)
  /\ disk' = Saved(trie, objs')
  /\ UNCHANGED <<trie, requests, diskRequests, threads>>

----------------------------------------------------------------------------
(* Handlers that unlock in the middle *)

Becomes(t, job) == threads' = [threads EXCEPT ![t] = job]
Done(t)         == Becomes(t, Idle)

\* EXEC: checked with the lock held, fetched through the pointer without it.
Exec(t, f, u) ==
  /\ threads[t].at = "idle"
  /\ Found(f) # Null
  /\ objs[Found(f)].acl[u] # NoAccess
  /\ entries' = LookedUp(f)
  /\ Becomes(t, [Idle EXCEPT !.at = "fetch", !.file = f, !.meta = Found(f)])
  /\ UNCHANGED <<objs, trie, requests, disk, diskRequests>>

Fetch(t) ==
  /\ threads[t].at = "fetch"
  /\ Done(t)
  /\ UNCHANGED <<objs, trie, entries, requests, disk, diskRequests>>

\* A storage server reports new counts, and a thread copies the file to the
\* replicas; it starts whether or not the file is known.
UpdateMetadata(t, f) ==
  /\ threads[t].at = "idle"
  /\ entries' = IF trie[f] = Null THEN entries ELSE Store(entries, f, trie[f])
  /\ disk' = IF trie[f] = Null THEN disk ELSE Saved(trie, objs)
  /\ Becomes(t, [Idle EXCEPT !.at = "copy", !.file = f])
  /\ UNCHANGED <<objs, trie, requests, diskRequests>>

Copy(t) ==
  /\ threads[t].at = "copy"
  /\ IF trie[threads[t].file] = Null THEN Done(t)
     ELSE Becomes(t, [threads[t] EXCEPT !.at = "push", !.meta = trie[threads[t].file]])
  /\ UNCHANGED <<objs, trie, entries, requests, disk, diskRequests>>

Push(t) ==
  /\ threads[t].at = "push"
  /\ Done(t)
  /\ UNCHANGED <<objs, trie, entries, requests, disk, diskRequests>>

----------------------------------------------------------------------------
(* Access requests *)

SaveRequests == diskRequests' = requests'

\* REQUESTACCESS: the checks, then the queue under its own lock.
AskAccess(t, f, v, a) ==
  /\ threads[t].at = "idle"
  /\ Found(f) # Null
  /\ objs[Found(f)].owner # v
  /\ objs[Found(f)].acl[v] < a
  /\ entries' = LookedUp(f)
  /\ Becomes(t, [Idle EXCEPT !.at = "append", !.file = f, !.who = v, !.want = a])
  /\ UNCHANGED <<objs, trie, requests, disk, diskRequests>>

Pending(f, v) ==
  {i \in DOMAIN requests :
     requests[i].pending /\ requests[i].file = f /\ requests[i].requester = v}

Asked(j) == [file |-> j.file, requester |-> j.who, want |-> j.want, pending |-> TRUE]

\* Faulty variants: without the search for a duplicate, and without the bound.
AppendAgain(t) ==
  LET j == threads[t]
  IN  /\ j.at = "append"
      /\ requests' = IF Len(requests) < MaxRequests
                       THEN Append(requests, Asked(j)) ELSE requests
      /\ SaveRequests /\ Done(t)
      /\ UNCHANGED <<objs, trie, entries, disk>>
AppendBeyond(t) ==
  LET j == threads[t]
  IN  /\ j.at = "append"
      /\ requests' = IF Pending(j.file, j.who) = {} /\ Len(requests) <= MaxRequests
                       THEN Append(requests, Asked(j)) ELSE requests
      /\ SaveRequests /\ Done(t)
      /\ UNCHANGED <<objs, trie, entries, disk>>

AppendRequest(t) ==
  LET j == threads[t]
  IN  /\ j.at = "append"
      /\ requests' = IF Pending(j.file, j.who) = {} /\ Len(requests) < MaxRequests
                       THEN Append(requests, Asked(j)) ELSE requests
      /\ SaveRequests /\ Done(t)
      /\ UNCHANGED <<objs, trie, entries, disk>>

\* APPROVEREQUEST (a \in {Read, Write}) and DENYREQUEST (NoAccess): is the
\* sender the owner?
Decide(t, f, u, v, a) ==
  /\ threads[t].at = "idle"
  /\ OwnedBy(f, u)
  /\ entries' = LookedUp(f)
  /\ Becomes(t, [Idle EXCEPT !.at = "resolve", !.user = u, !.file = f, !.who = v, !.want = a])
  /\ UNCHANGED <<objs, trie, requests, disk, diskRequests>>

\* access_requests_resolve, under access_requests_mutex.  Faulty variant: a
\* request that was resolved before is found again.
ResolveAny(t) ==
  LET j == threads[t]
      hits == {i \in DOMAIN requests :
                 requests[i].file = j.file /\ requests[i].requester = j.who}
      i == CHOOSE i \in hits : \A k \in hits : i <= k
  IN  /\ j.at = "resolve"
      /\ requests' = IF hits = {} THEN requests ELSE [requests EXCEPT ![i].pending = FALSE]
      /\ SaveRequests
      /\ IF hits # {} /\ j.want # NoAccess
           THEN Becomes(t, [j EXCEPT !.at = "grant"]) ELSE Done(t)
      /\ UNCHANGED <<objs, trie, entries, disk>>

Resolve(t) ==
  LET j == threads[t]
      hits == Pending(j.file, j.who)
      i == CHOOSE i \in hits : \A k \in hits : i <= k
  IN  /\ j.at = "resolve"
      /\ requests' = IF hits = {} THEN requests ELSE [requests EXCEPT ![i].pending = FALSE]
      /\ SaveRequests
      /\ IF hits # {} /\ j.want # NoAccess
           THEN Becomes(t, [j EXCEPT !.at = "grant"]) ELSE Done(t)
      /\ UNCHANGED <<objs, trie, entries, disk>>

\* The rest of it, under trie_mutex.  Faulty variant: metadata.dat is not saved.
GrantUnsaved(t) ==
  LET j == threads[t]  p == trie[j.file]
  IN  /\ j.at = "grant"
      /\ objs' = IF p = Null THEN objs ELSE [objs EXCEPT ![p] = Granted(@, j.who, j.want)]
      /\ Done(t)
      /\ UNCHANGED <<trie, entries, requests, disk, diskRequests>>

Grant(t) ==
  LET j == threads[t]  p == trie[j.file]
  IN  /\ j.at = "grant"
      /\ objs' = IF p = Null THEN objs ELSE [objs EXCEPT ![p] = Granted(@, j.who, j.want)]
      /\ disk' = IF p = Null THEN disk ELSE Saved(trie, objs')
      /\ Done(t)
      /\ UNCHANGED <<trie, entries, requests, diskRequests>>

----------------------------------------------------------------------------
\* The server is killed between two steps and started again.
Restart ==
  /\ \E place \in [Files -> Metas \cup {Null}] :
       /\ \A f \in Files : place[f] = Null <=> disk[f] = Null
       /\ \A f, g \in Files : place[f] = place[g] /\ place[f] # Null => f = g
       /\ trie' = place
       /\ objs' = [p \in Metas |->
            IF \E f \in Files : place[f] = p
              THEN Loaded(disk[CHOOSE f \in Files : place[f] = p]) ELSE Null]
  /\ entries' = <<>>
  /\ requests' = diskRequests
  /\ threads' = [t \in Threads |-> Idle]
  /\ UNCHANGED <<disk, diskRequests>>

FileStep ==
  \E f \in Files :
    \/ Lookup(f) \/ Seed(f)
    \/ \E u \in Users :
         \/ CreateFile(f, u) \/ DeleteFile(f, u)
         \/ \E v \in Users : RemoveAccess(f, u, v) \/ \E a \in {Read, Write} : AddAccess(f, u, v, a)

StartStep(t) ==
  \E f \in Files :
    \/ UpdateMetadata(t, f)
    \/ \E u \in Users :
         \/ Exec(t, f, u)
         \/ \E a \in {Read, Write} : AskAccess(t, f, u, a)
         \/ \E v \in Users, a \in Access : Decide(t, f, u, v, a)

ThreadStep(t) ==
  Fetch(t) \/ Copy(t) \/ Push(t) \/ AppendRequest(t) \/ Resolve(t) \/ Grant(t)

Next == FileStep \/ Restart \/ \E t \in Threads : StartStep(t) \/ ThreadStep(t)

Spec == Init /\ [][Next]_vars

----------------------------------------------------------------------------
(* Properties *)

Jobs == [at : Places, user : Users \cup {Null}, file : Files \cup {Null},
         who : Users \cup {Null}, want : Access, meta : Metas \cup {Null}]

DataTypes ==
  /\ objs \in [Metas -> Metadata \cup {Null}]
  /\ trie \in [Files -> Metas \cup {Null}]
  /\ disk \in [Files -> Metadata \cup {Null}]

RequestTypes ==
  /\ requests \in Seq(Request) /\ Len(requests) <= MaxRequests
  /\ diskRequests = requests

CacheEntry == [key : Files, data : Metas]

\* The types, the room of access_requests, and its file, which is rewritten
\* with every change of the array.
TypeOK ==
  /\ DataTypes
  /\ entries \in Seq(CacheEntry)
  /\ RequestTypes
  /\ threads \in [Threads -> Jobs]

\* The trie names live objects, each its own, and no object is lost.
TrieExact ==
  /\ \A f \in Files : trie[f] # Null => objs[trie[f]] # Null /\ objs[trie[f]].file = f
  /\ \A p \in Metas : objs[p] # Null => trie[objs[p].file] = p

\* The second way to an object, the cache, never leads to one that was freed
\* or to another file's: every entry is what the trie has under its name.
CacheCoherent ==
  \A i \in DOMAIN entries : trie[entries[i].key] = entries[i].data

\* "Owner always has RW access": grants, removals, a full list, approvals and
\* a restart leave the owner's entry alone.
OwnerCanWrite ==
  \A p \in Metas : objs[p] # Null => objs[p].acl[objs[p].owner] = Write

\* Whenever no handler holds trie_mutex, metadata.dat says what memory says,
\* so a restart between two requests loses nothing.
DiskMatches == disk = Saved(trie, objs)

\* A user has at most one pending request for a file, though the checks and the
\* append are under different locks.
OnePending ==
  \A f \in Files : \A v \in Users : Cardinality(Pending(f, v)) <= 1

\* Approvals that are under way for a user's request are at most as many as the
\* requests of that user that were resolved: two owners' windows that approve
\* the same request together do not grant it twice, and none grants a request
\* nobody made.
OneGrantPerRequest ==
  \A f \in Files : \A v \in Users :
    Cardinality({t \in Threads : threads[t].at = "grant"
                                 /\ threads[t].file = f /\ threads[t].who = v})
      <= Cardinality({i \in DOMAIN requests : requests[i].file = f
                        /\ requests[i].requester = v /\ ~requests[i].pending})

\* As long as a file exists its owner stays, and a user's access falls only
\* when the owner removes it: not by a lower grant, an approval, a storage
\* server that registers the file again, or a restart.
AccessKept ==
  [][\A f \in Files : trie[f] # Null /\ trie'[f] # Null =>
       LET old == objs[trie[f]]  new == objs'[trie'[f]]
       IN  /\ new.owner = old.owner
           /\ \A v \in People : new.acl[v] < old.acl[v] => RemoveAccess(f, old.owner, v)]_vars

\* The inductive invariant: no name is cached twice, and a handler that has
\* let go of the lock knows the file and the user it works for.
OneEntryPerName == Distinct(entries)

JobsLocated ==
  \A t \in Threads :
    /\ threads[t].at # "idle" => threads[t].file \in Files
    /\ threads[t].at \in {"append", "resolve", "grant"} => threads[t].who \in Users
    /\ threads[t].at = "append" => threads[t].want \in {Read, Write}

IndInv ==
  /\ TypeOK /\ JobsLocated
  /\ TrieExact /\ OwnerCanWrite /\ DiskMatches
  /\ OneEntryPerName /\ CacheCoherent

(* Properties the code's comments and documents claim and the model refutes *)

\* "We need metadata; access under lock": the pointer a thread goes on to use
\* still points to the metadata of its file.
PointersLive ==
  \A t \in Threads : threads[t].at \in {"fetch", "push"} =>
    objs[threads[t].meta] # Null /\ objs[threads[t].meta].file = threads[t].file

\* "Owner-managed access control": whoever approves a request owns the file
\* when the access is granted.
GrantedByOwner ==
  [][\A t \in Threads : Grant(t) /\ trie[threads[t].file] # Null =>
       objs[trie[threads[t].file]].owner = threads[t].user]_vars
=============================================================================
