----------------------------- MODULE RecordStore -----------------------------
(***************************************************************************)
(* The two persistent stores, which share one protocol:                    *)
(*   - the knowledge service (argus/knowledge): a JSON file per category;  *)
(*   - the memory service (argus/memory): one file, records that expire.   *)
(*                                                                         *)
(* A write takes the lock, changes the in-memory index, saves one file     *)
(* whole (a temporary file, then os.replace), frees the lock and announces *)
(* itself.  Saving may fail, and the process may die at any point.         *)
(***************************************************************************)
EXTENDS Naturals, FiniteSets

CONSTANTS
    Threads,      \* host threads that call the service
    Keys,         \* record keys
    Files,        \* the files, numbered from the last name to the first; one for memory
    Operations,   \* the writes the service offers
    Expiries,     \* the values of expires_at that callers use
    Serializable, \* whether the values callers store are JSON-serializable
    SavesMayFail, \* TRUE: the file system may fail
    MaxWrites,    \* bound: writes under way and done
    MaxTime,      \* bound: the last instant of the clock
    None          \* Python's None

ASSUME BoundsAssumption == MaxWrites \in Nat /\ MaxTime \in Nat
ASSUME FilesAssumption == Files \subseteq Nat /\ None \notin Nat
ASSUME CallersAssumption ==
    /\ Operations \subseteq {"put", "update", "delete", "purge"}
    /\ Expiries \subseteq Nat \cup {None}
    /\ Serializable \subseteq BOOLEAN /\ SavesMayFail \in BOOLEAN
    /\ "purge" \in Operations => \A f, g \in Files : f = g

VARIABLES
    clock,    \* the host's clock
    lock,     \* the thread that holds _write_lock, or None
    index,    \* _index: key -> record, None where absent
    disk,     \* file -> its records by key, None where absent
    pc,       \* where each thread is
    request,  \* the write a thread makes
    save,     \* the save in progress: [file, keys], keys being those the write changed
    announce, \* the events a thread has still to publish
    writes,   \* history: the number of writes that changed the index
    acked,    \* history: key -> what the last acknowledged write of it left
    unsure,   \* history: key -> what writes in progress or failed since then left
    removed   \* history: the ids of records deleted or purged from the index

vars == <<clock, lock, index, disk, pc, request, save, announce, writes, acked, unsure, removed>>

-----------------------------------------------------------------------------
(* Data *)

\* id and value are the serial of the write that made the record and its value.
Record == [id : Nat, value : Nat, version : Nat, file : Files, expires : Nat \cup {None},
           serializable : BOOLEAN]
Saves == [file : Files, keys : SUBSET Keys]
ASSUME NoneAssumption == None \notin Record \cup Saves \cup Threads

Requests ==
    [op : {"put"}, key : Keys, file : Files, expires : Expiries, serializable : Serializable]
      \cup [op : {"update"}, key : Keys, serializable : Serializable]
      \cup [op : {"delete"}, key : Keys] \cup [op : {"purge"}]

Points == {"idle", "lock", "body", "saving", "publish"}
Events == [kind : {"created", "updated", "deleted", "purged"}, record : Record]

Expired(r) == r.expires # None /\ r.expires <= clock

\* _live_record, the lookup of update and delete (and of get and exists).
Present(key) == index[key] # None /\ ~ Expired(index[key])

\* _load_all: the files in the order of their names; the last one that has a key wins.
LastOf(files) == CHOOSE f \in files : \A g \in files : f <= g
Holding(key) == {f \in Files : disk[f][key] # None}
Loaded(key) == IF Holding(key) = {} THEN None ELSE disk[LastOf(Holding(key))][key]

-----------------------------------------------------------------------------
(* Threads *)

Init ==
    /\ clock = 0
    /\ lock = None
    /\ index = [key \in Keys |-> None]
    /\ disk = [f \in Files |-> [key \in Keys |-> None]]
    /\ pc = [th \in Threads |-> "idle"]
    /\ request = [th \in Threads |-> None]
    /\ save = None
    /\ announce = [th \in Threads |-> {}]
    /\ writes = 0
    /\ acked = [key \in Keys |-> None]
    /\ unsure = [key \in Keys |-> {}]
    /\ removed = {}

Goto(th, point) == pc' = [pc EXCEPT ![th] = point]

\* The write returns or raises to its caller.
Return(th) ==
    /\ pc' = [pc EXCEPT ![th] = "idle"]
    /\ request' = [request EXCEPT ![th] = None]
    /\ announce' = [announce EXCEPT ![th] = {}]

Call(th) ==
    /\ pc[th] = "idle"
    /\ writes + Cardinality({t \in Threads : pc[t] \in {"lock", "body"}}) < MaxWrites
    /\ \E r \in Requests :
         /\ r.op \in Operations
         /\ request' = [request EXCEPT ![th] = r]
    /\ Goto(th, "lock")
    /\ UNCHANGED <<clock, lock, index, disk, save, announce, writes, acked, unsure, removed>>

Acquire(th) ==
    /\ pc[th] = "lock"
    /\ lock = None
    /\ lock' = th
    /\ Goto(th, "body")
    /\ UNCHANGED <<clock, index, disk, request, save, announce, writes, acked, unsure, removed>>

Locked(th, op) == pc[th] = "body" /\ request[th].op = op

-----------------------------------------------------------------------------
(* The writes, up to the save *)

\* The index changes at some keys, and the file that is to be saved is known.
Change(th, file, changed, events) ==
    /\ index' = [key \in Keys |-> IF key \in DOMAIN changed THEN changed[key] ELSE index[key]]
    /\ unsure' = [key \in Keys |-> IF key \in DOMAIN changed
                                   THEN unsure[key] \cup {changed[key]} ELSE unsure[key]]
    /\ save' = [file |-> file, keys |-> DOMAIN changed]
    /\ announce' = [announce EXCEPT ![th] = events]
    /\ Goto(th, "saving")
    /\ writes' = writes + 1
    /\ UNCHANGED <<clock, lock, disk, request, acked>>

\* Mutant of Announcement: an operation that subscribers do not know.
AnnouncementOf(kind, record) == [kind |-> "stored", record |-> record]

Announcement(kind, record) == [kind |-> kind, record |-> record]

\* put(): also an expired record keeps its key until it is purged.
Put(th) ==
    /\ Locked(th, "put")
    /\ index[request[th].key] = None
    /\ LET new == [id |-> writes + 1, value |-> writes + 1, version |-> 1, file |-> request[th].file,
                   expires |-> request[th].expires, serializable |-> request[th].serializable]
       IN  Change(th, new.file, [key \in {request[th].key} |-> new], {Announcement("created", new)})
    /\ UNCHANGED removed

\* Mutant of Updated: the version stays.
UpdatedInPlace(r, value, serializable) ==
    [r EXCEPT !.value = value, !.serializable = serializable]

Updated(r, value, serializable) ==
    [r EXCEPT !.value = value, !.version = @ + 1, !.serializable = serializable]

Update(th) ==
    /\ Locked(th, "update")
    /\ Present(request[th].key)
    /\ LET new == Updated(index[request[th].key], writes + 1, request[th].serializable)
       IN  Change(th, new.file, [key \in {request[th].key} |-> new], {Announcement("updated", new)})
    /\ UNCHANGED removed

Delete(th) ==
    /\ Locked(th, "delete")
    /\ Present(request[th].key)
    /\ LET old == index[request[th].key]
       IN  /\ Change(th, old.file, [key \in {request[th].key} |-> None],
                     {Announcement("deleted", old)})
           /\ removed' = removed \cup {old.id}

\* purge_expired() of the memory service.
Purgeable == {key \in Keys : index[key] # None /\ Expired(index[key])}

Purge(th) ==
    /\ Locked(th, "purge")
    /\ Purgeable # {}
    /\ \E file \in Files :
         Change(th, file, [key \in Purgeable |-> None],
                {Announcement("purged", index[key]) : key \in Purgeable})
    /\ removed' = removed \cup {index[key].id : key \in Purgeable}

\* Duplicate or missing key, nothing to purge: the lock is freed.
Reject(th) ==
    /\ \/ Locked(th, "put") /\ index[request[th].key] # None
       \/ (Locked(th, "update") \/ Locked(th, "delete")) /\ ~ Present(request[th].key)
       \/ Locked(th, "purge") /\ Purgeable = {}
    /\ lock' = None
    /\ Return(th)
    /\ UNCHANGED <<clock, index, disk, save, writes, acked, unsure, removed>>

-----------------------------------------------------------------------------
(* The save and what follows it *)

\* Mutant of Saved: only the records the write changed are saved.
SavedChanged(file) ==
    [key \in Keys |-> IF index[key] # None /\ index[key].file = file /\ key \in save.keys
                      THEN index[key] ELSE None]

\* The records that storage.save() writes, by key; what it cannot serialize it
\* refuses, whichever write put it there.
Saved(file) ==
    [key \in Keys |-> IF index[key] # None /\ index[key].file = file THEN index[key] ELSE None]

Storable(file) == \A key \in Keys : Saved(file)[key] # None => Saved(file)[key].serializable

Acknowledge(keys) ==
    /\ acked' = [key \in Keys |-> IF key \in keys THEN index[key] ELSE acked[key]]
    /\ unsure' = [key \in Keys |-> IF key \in keys THEN {} ELSE unsure[key]]

SaveSucceeds(th) ==
    /\ pc[th] = "saving"
    /\ Storable(save.file)
    /\ disk' = [disk EXCEPT ![save.file] = Saved(save.file)]
    /\ Acknowledge(save.keys)
    /\ save' = None
    /\ lock' = None
    /\ Goto(th, "publish")
    /\ UNCHANGED <<clock, index, request, announce, writes, removed>>

\* Mutant of Unlocked: the lock is only freed after a save that succeeds.
StillLocked == lock

\* The lock at the end of the "with" block that an exception leaves.
Unlocked == None

\* The exception leaves the locked section: the index keeps the change.
SaveFails(th) ==
    /\ pc[th] = "saving"
    /\ SavesMayFail \/ ~ Storable(save.file)
    /\ save' = None
    /\ lock' = Unlocked
    /\ Return(th)
    /\ UNCHANGED <<clock, index, disk, writes, acked, unsure, removed>>

\* The handlers of one event run ...
Publish(th) ==
    /\ pc[th] = "publish"
    /\ \E a \in announce[th] : announce' = [announce EXCEPT ![th] = @ \ {a}]
    /\ UNCHANGED <<clock, lock, index, disk, pc, request, save, writes, acked, unsure, removed>>

\* ... and the write returns after the last of them, or when a handler raises.
Leave(th) ==
    /\ pc[th] = "publish"
    /\ Return(th)
    /\ UNCHANGED <<clock, lock, index, disk, save, writes, acked, unsure, removed>>

-----------------------------------------------------------------------------
(* Environment *)

Elapse ==
    /\ clock < MaxTime
    /\ clock' = clock + 1
    /\ UNCHANGED <<lock, index, disk, pc, request, save, announce, writes, acked, unsure, removed>>

\* The process dies at any point, and a new one loads the files.
Restart ==
    /\ lock' = None
    /\ index' = [key \in Keys |-> Loaded(key)]
    /\ pc' = [th \in Threads |-> "idle"]
    /\ request' = [th \in Threads |-> None]
    /\ save' = None
    /\ announce' = [th \in Threads |-> {}]
    /\ acked' = [key \in Keys |-> Loaded(key)]
    /\ unsure' = [key \in Keys |-> {}]
    /\ UNCHANGED <<clock, disk, writes, removed>>

Step(th) ==
    \/ Acquire(th) \/ Put(th) \/ Update(th) \/ Delete(th) \/ Purge(th) \/ Reject(th)
    \/ SaveSucceeds(th) \/ SaveFails(th) \/ Publish(th) \/ Leave(th)

Next ==
    \/ \E th \in Threads : Call(th) \/ Step(th)
    \/ Elapse \/ Restart

Spec == Init /\ [][Next]_vars

\* A thread that can go on does, and threading.Lock is granted in the end to one
\* who waits for it again and again.
FairSpec == Spec /\ \A th \in Threads : WF_vars(Step(th)) /\ SF_vars(Acquire(th))

-----------------------------------------------------------------------------
(* Properties *)

TypeOK ==
    /\ clock \in Nat
    /\ lock \in Threads \cup {None}
    /\ index \in [Keys -> Record \cup {None}]
    /\ disk \in [Files -> [Keys -> Record \cup {None}]]
    /\ pc \in [Threads -> Points]
    /\ request \in [Threads -> Requests \cup {None}]
    /\ save \in Saves \cup {None}
    /\ announce \in [Threads -> SUBSET Events]
    /\ writes \in Nat
    /\ acked \in [Keys -> Record \cup {None}]
    /\ unsure \in [Keys -> SUBSET (Record \cup {None})]
    /\ removed \subseteq Nat

\* "Durably remember facts", "keep it consistent with the IKnowledgeStorage backend on
\* every write" (KnowledgeService): a restart at this point brings back, under every
\* key, what the last acknowledged write left, or what a write that has not been
\* acknowledged since then left.  Never an older record.
RecoversAcknowledged ==
    \A key \in Keys : Loaded(key) \in {acked[key]} \cup unsure[key]

\* Events follow the file: the record that is announced as stored is in its file, at
\* that version or a later one, until somebody removes it; what is announced as
\* removed does not come back with a restart.
Survives(record) ==
    \/ record.id \in removed
    \/ \E key \in Keys : /\ Loaded(key) # None
                          /\ Loaded(key).id = record.id
                          /\ Loaded(key).version >= record.version

AnnouncedIsDurable ==
    \A th \in Threads : pc[th] = "publish" =>
        \A a \in announce[th] :
            IF a.kind \in {"created", "updated"}
            THEN Survives(a.record)
            ELSE \A key \in Keys : Loaded(key) # None => Loaded(key).id # a.record.id

\* What the writers and the subscribers were told outlives the service, both together.
RecordsSurvive == RecoversAcknowledged /\ AnnouncedIsDurable

\* No update is lost: of one record, a different acknowledged value has a higher
\* version, across failed updates and restarts.
VersionsGrow ==
    [][\A key \in Keys :
          /\ acked[key] # None /\ acked'[key] # None
          /\ acked[key].id = acked'[key].id
          /\ acked[key].value # acked'[key].value
          => acked'[key].version > acked[key].version]_vars

\* A failing save does not wedge the service: every call ends.
CallsReturn == \A th \in Threads : pc[th] # "idle" ~> pc[th] = "idle"
=============================================================================
