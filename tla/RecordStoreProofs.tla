-------------------------- MODULE RecordStoreProofs --------------------------
(***************************************************************************)
(* Proofs about RecordStore, for every number of threads, keys and writes, *)
(* with crashes at any point.                                              *)
(***************************************************************************)
EXTENDS RecordStore, WellFoundedInduction, TLAPS

\* What a write in progress knows: it has a request, it holds the lock between the
\* check and the save, and the save is known when it is made.
WriterOK ==
    \A th \in Threads :
        /\ pc[th] \in {"lock", "body"} => request[th] \in Requests /\ request[th].op \in Operations
        /\ pc[th] \in {"body", "saving"} => lock = th
        /\ pc[th] = "saving" => save # None

\* Nobody else is between the check and the save, and nothing is saved by nobody.
SaverOK == save # None => \E th \in Threads : pc[th] = "saving"

Inv == TypeOK /\ WriterOK /\ SaverOK

-----------------------------------------------------------------------------
(* What a restart loads *)

\* Lemma: a non-empty set of numbers has a least one.
LEMMA Least ==
    ASSUME NEW T \in SUBSET Nat, T # {}
    PROVE  \E x \in T : \A y \in T : x <= y
<1>1. IsWellFoundedOn(OpToRel(<, Nat), Nat)
  BY NatLessThanWellFounded
<1>2. PICK x \in T : \A y \in T : ~ (<<y, x>> \in OpToRel(<, Nat))
  BY <1>1, WFMin
<1>3. \A a, b \in Nat : <<b, a>> \in OpToRel(<, Nat) <=> b < a
  BY DEF OpToRel
<1>4. \A y \in T : ~ (y < x)
  BY <1>2, <1>3, Zenon
<1> QED BY <1>4

\* Lemma: of several files the one whose name is last is one of them.
LEMMA LastIsOne ==
    ASSUME NEW files \in SUBSET Files, files # {}
    PROVE  LastOf(files) \in files
<1>1. \E f \in files : \A g \in files : f <= g
  BY Least, FilesAssumption
<1> QED BY <1>1 DEF LastOf

\* Lemma: what a restart loads under a key stands in a file.
LEMMA LoadedIsHeld ==
    ASSUME NEW key \in Keys
    PROVE  \/ Holding(key) = {} /\ Loaded(key) = None
           \/ \E f \in Holding(key) : Loaded(key) = disk[f][key]
<1>1. CASE Holding(key) = {}
  BY <1>1 DEF Loaded
<1>2. CASE Holding(key) # {}
  <2>1. LastOf(Holding(key)) \in Holding(key)
    BY <1>2, LastIsOne DEF Holding
  <2> QED BY <1>2, <2>1 DEF Loaded
<1> QED BY <1>1, <1>2

\* Lemma: what a restart loads is a record or nothing.
LEMMA LoadedType ==
    ASSUME TypeOK, NEW key \in Keys
    PROVE  Loaded(key) \in Record \cup {None}
  BY LoadedIsHeld DEF Holding, TypeOK

-----------------------------------------------------------------------------
(* The locked sections *)

\* Lemma: a write that passed its check leaves a well-typed state.
LEMMA ChangeType ==
    ASSUME Inv, NEW th \in Threads, NEW file \in Files, NEW changed, NEW events,
           DOMAIN changed \subseteq Keys,
           \A key \in DOMAIN changed : changed[key] \in Record \cup {None},
           events \subseteq Events, removed' \subseteq Nat,
           Change(th, file, changed, events)
    PROVE  TypeOK'
<1> USE DEF Inv, TypeOK, Change
<1>1. index' \in [Keys -> Record \cup {None}]
  OBVIOUS
<1>2. unsure' \in [Keys -> SUBSET (Record \cup {None})]
  OBVIOUS
<1>3. save' \in Saves
  BY DEF Saves
<1>4. announce' \in [Threads -> SUBSET Events]
  OBVIOUS
<1>5. pc' \in [Threads -> Points]
  BY DEF Goto, Points
<1> QED BY <1>1, <1>2, <1>3, <1>4, <1>5

\* Lemma: and it keeps the lock and knows its save.
LEMMA ChangeWriter ==
    ASSUME Inv, NEW th \in Threads, NEW file \in Files, NEW changed, NEW events,
           DOMAIN changed \subseteq Keys, pc[th] = "body",
           Change(th, file, changed, events)
    PROVE  WriterOK' /\ SaverOK'
<1>1. save' # None
  BY NoneAssumption DEF Change, Saves
<1>2. WriterOK'
  BY <1>1 DEF Inv, TypeOK, WriterOK, Change, Goto
<1>3. SaverOK'
  BY DEF Inv, TypeOK, SaverOK, Change, Goto
<1> QED BY <1>2, <1>3

\* Lemma: the record that put() builds is a record of the requested file.
LEMMA PutKeepsInv == ASSUME Inv, NEW th \in Threads, Put(th) PROVE Inv'
<1> DEFINE new == [id |-> writes + 1, value |-> writes + 1, version |-> 1,
                   file |-> request[th].file, expires |-> request[th].expires,
                   serializable |-> request[th].serializable]
           changed == [key \in {request[th].key} |-> new]
           events == {Announcement("created", new)}
<1>1. pc[th] = "body" /\ request[th] \in Requests /\ request[th].op = "put"
  BY DEF Put, Locked, Inv, WriterOK
<1>2. /\ request[th].key \in Keys /\ request[th].file \in Files
      /\ request[th].expires \in Nat \cup {None} /\ request[th].serializable \in BOOLEAN
  BY <1>1, CallersAssumption DEF Requests
<1>3. new \in Record
  BY <1>2 DEF Inv, TypeOK, Record
<1>4. events \subseteq Events
  BY <1>3 DEF Announcement, Events
<1>5. DOMAIN changed \subseteq Keys /\ \A key \in DOMAIN changed : changed[key] \in Record \cup {None}
  BY <1>2, <1>3
<1>6. Change(th, new.file, changed, events) /\ new.file \in Files /\ removed' \subseteq Nat
  BY <1>2 DEF Put, Inv, TypeOK
<1> HIDE DEF new, changed, events
<1>7. TypeOK'
  BY <1>4, <1>5, <1>6, ChangeType
<1>8. WriterOK' /\ SaverOK'
  BY <1>1, <1>5, <1>6, ChangeWriter
<1> QED BY <1>7, <1>8 DEF Inv

\* Lemma: a new version of a record stays in its file.
LEMMA UpdatedType ==
    ASSUME NEW r \in Record, NEW value \in Nat, NEW serializable \in BOOLEAN
    PROVE  /\ Updated(r, value, serializable) \in Record
           /\ Updated(r, value, serializable).file = r.file
           /\ Updated(r, value, serializable).serializable = serializable
<1> DEFINE new == Updated(r, value, serializable)
<1>1. /\ new.id = r.id /\ new.value = value /\ new.version = r.version + 1
      /\ new.file = r.file /\ new.expires = r.expires /\ new.serializable = serializable
  BY DEF Updated, Record
<1>2. r.version + 1 \in Nat
  BY DEF Record
<1>3. new \in Record
  <2> DEFINE valued == [r EXCEPT !.value = value]
             versioned == [valued EXCEPT !.version = r.version + 1]
  <2>1. valued \in Record
    BY DEF Record
  <2>2. versioned \in Record
    <3> HIDE DEF valued
    <3> QED BY <1>2, <2>1 DEF Record
  <2>3. [versioned EXCEPT !.serializable = serializable] \in Record
    <3> HIDE DEF versioned
    <3> QED BY <2>2 DEF Record
  <2> QED BY <2>3 DEF Updated
<1> HIDE DEF new
<1> QED BY <1>1, <1>3 DEF new

\* Lemma: so does update(), in the file of the record it changes.
LEMMA UpdateKeepsInv == ASSUME Inv, NEW th \in Threads, Update(th) PROVE Inv'
<1> DEFINE old == index[request[th].key]
           new == Updated(old, writes + 1, request[th].serializable)
           changed == [key \in {request[th].key} |-> new]
           events == {Announcement("updated", new)}
<1>1. pc[th] = "body" /\ request[th] \in Requests /\ request[th].op = "update"
  BY DEF Update, Locked, Inv, WriterOK
<1>2. request[th].key \in Keys /\ request[th].serializable \in BOOLEAN
  BY <1>1, CallersAssumption DEF Requests
<1>3. old \in Record
  BY <1>2 DEF Update, Present, Inv, TypeOK
<1>4. new \in Record /\ new.file = old.file
  <2>1. writes + 1 \in Nat
    BY DEF Inv, TypeOK
  <2> HIDE DEF old
  <2> QED BY <1>2, <1>3, <2>1, UpdatedType
<1>5. events \subseteq Events
  BY <1>4 DEF Announcement, Events
<1>6. DOMAIN changed \subseteq Keys /\ \A key \in DOMAIN changed : changed[key] \in Record \cup {None}
  BY <1>2, <1>4
<1>7. Change(th, new.file, changed, events) /\ removed' \subseteq Nat
  BY DEF Update, Inv, TypeOK
<1>8. new.file \in Files
  BY <1>4 DEF Record
<1> HIDE DEF old, new, changed, events
<1>9. TypeOK'
  BY <1>5, <1>6, <1>7, <1>8, ChangeType
<1>10. WriterOK' /\ SaverOK'
  BY <1>1, <1>6, <1>7, <1>8, ChangeWriter
<1> QED BY <1>9, <1>10 DEF Inv

\* Lemma: so does delete().
LEMMA DeleteKeepsInv == ASSUME Inv, NEW th \in Threads, Delete(th) PROVE Inv'
<1> DEFINE old == index[request[th].key]
           changed == [key \in {request[th].key} |-> None]
           events == {Announcement("deleted", old)}
<1>1. pc[th] = "body" /\ request[th] \in Requests /\ request[th].op = "delete"
  BY DEF Delete, Locked, Inv, WriterOK
<1>2. request[th].key \in Keys
  BY <1>1 DEF Requests
<1>3. old \in Record
  BY <1>2 DEF Delete, Present, Inv, TypeOK
<1>4. old.file \in Files /\ old.id \in Nat
  BY <1>3 DEF Record
<1>5. events \subseteq Events
  BY <1>3 DEF Announcement, Events
<1>6. DOMAIN changed \subseteq Keys /\ \A key \in DOMAIN changed : changed[key] \in Record \cup {None}
  BY <1>2
<1>7. Change(th, old.file, changed, events)
  BY DEF Delete
<1>8. removed' \subseteq Nat
  BY <1>4 DEF Delete, Inv, TypeOK
<1> HIDE DEF old, changed, events
<1>9. TypeOK'
  BY <1>4, <1>5, <1>6, <1>7, <1>8, ChangeType
<1>10. WriterOK' /\ SaverOK'
  BY <1>1, <1>4, <1>6, <1>7, ChangeWriter
<1> QED BY <1>9, <1>10 DEF Inv

\* Lemma: so does purge_expired().
LEMMA PurgeKeepsInv == ASSUME Inv, NEW th \in Threads, Purge(th) PROVE Inv'
<1> DEFINE changed == [key \in Purgeable |-> None]
           events == {Announcement("purged", index[key]) : key \in Purgeable}
<1>1. PICK file \in Files : Change(th, file, changed, events)
  BY DEF Purge
<1>2. pc[th] = "body"
  BY DEF Purge, Locked
<1>3. \A key \in Purgeable : key \in Keys /\ index[key] \in Record /\ index[key].id \in Nat
  BY DEF Purgeable, Inv, TypeOK, Record
<1>4. events \subseteq Events
  BY <1>3 DEF Announcement, Events
<1>5. DOMAIN changed \subseteq Keys /\ \A key \in DOMAIN changed : changed[key] \in Record \cup {None}
  BY <1>3
<1>6. removed' \subseteq Nat
  BY <1>3 DEF Purge, Inv, TypeOK
<1> HIDE DEF changed, events
<1>7. TypeOK'
  BY <1>1, <1>4, <1>5, <1>6, ChangeType
<1>8. WriterOK' /\ SaverOK'
  BY <1>1, <1>2, <1>5, ChangeWriter
<1> QED BY <1>7, <1>8 DEF Inv

-----------------------------------------------------------------------------
(* The other steps *)

\* Lemma: a call enters with one of the requests.
LEMMA CallKeepsInv == ASSUME Inv, NEW th \in Threads, Call(th) PROVE Inv'
  BY DEF Call, Goto, Inv, TypeOK, WriterOK, SaverOK, Points

\* Lemma: the lock is only taken when nobody is inside.
LEMMA AcquireKeepsInv == ASSUME Inv, NEW th \in Threads, Acquire(th) PROVE Inv'
  BY NoneAssumption DEF Acquire, Goto, Inv, TypeOK, WriterOK, SaverOK, Points

\* Lemma: a rejected write leaves the locked section and changes nothing.
LEMMA RejectKeepsInv == ASSUME Inv, NEW th \in Threads, Reject(th) PROVE Inv'
<1>1. pc[th] = "body"
  BY DEF Reject, Locked
<1> QED BY <1>1 DEF Reject, Return, Inv, TypeOK, WriterOK, SaverOK, Points, Events

\* Lemma: what is saved is well-typed.
LEMMA SavedType ==
    ASSUME TypeOK, NEW file
    PROVE  Saved(file) \in [Keys -> Record \cup {None}]
  BY DEF Saved, TypeOK

\* Lemma: the save ends and the lock is freed.
LEMMA SaveSucceedsKeepsInv == ASSUME Inv, NEW th \in Threads, SaveSucceeds(th) PROVE Inv'
<1>1. lock = th /\ save \in Saves
  BY DEF SaveSucceeds, Inv, WriterOK, TypeOK
<1>2. TypeOK'
  <2>1. disk' \in [Files -> [Keys -> Record \cup {None}]]
    BY SavedType DEF SaveSucceeds, Inv, TypeOK
  <2>2. acked' \in [Keys -> Record \cup {None}] /\ unsure' \in [Keys -> SUBSET (Record \cup {None})]
    BY DEF SaveSucceeds, Acknowledge, Inv, TypeOK
  <2>3. pc' \in [Threads -> Points]
    BY DEF SaveSucceeds, Goto, Inv, TypeOK, Points
  <2> QED BY <2>1, <2>2, <2>3 DEF SaveSucceeds, Inv, TypeOK
<1>3. WriterOK' /\ SaverOK'
  BY <1>1 DEF SaveSucceeds, Goto, Inv, TypeOK, WriterOK, SaverOK
<1> QED BY <1>2, <1>3 DEF Inv

\* Lemma: so it is when the save fails.
LEMMA SaveFailsKeepsInv == ASSUME Inv, NEW th \in Threads, SaveFails(th) PROVE Inv'
<1>1. lock = th
  BY DEF SaveFails, Inv, WriterOK
<1> QED BY <1>1 DEF SaveFails, Unlocked, Return, Inv, TypeOK, WriterOK, SaverOK, Points, Events

\* Lemma: publishing removes events only.
LEMMA PublishKeepsInv == ASSUME Inv, NEW th \in Threads, Publish(th) PROVE Inv'
<1>1. announce' \in [Threads -> SUBSET Events]
  BY DEF Publish, Inv, TypeOK
<1> QED BY <1>1 DEF Publish, Inv, TypeOK, WriterOK, SaverOK

\* Lemma: a write returns to its caller.
LEMMA LeaveKeepsInv == ASSUME Inv, NEW th \in Threads, Leave(th) PROVE Inv'
  BY DEF Leave, Return, Inv, TypeOK, WriterOK, SaverOK, Points, Events

\* Lemma: time passes.
LEMMA ElapseKeepsInv == ASSUME Inv, Elapse PROVE Inv'
  BY DEF Elapse, Inv, TypeOK, WriterOK, SaverOK

\* Lemma: a restart forgets the calls and loads the files.
LEMMA RestartKeepsInv == ASSUME Inv, Restart PROVE Inv'
<1>1. \A key \in Keys : Loaded(key) \in Record \cup {None}
  BY LoadedType DEF Inv
<1>2. TypeOK'
  BY <1>1 DEF Restart, Inv, TypeOK, Points, Events
<1>3. WriterOK' /\ SaverOK'
  BY DEF Restart, WriterOK, SaverOK
<1> QED BY <1>2, <1>3 DEF Inv

\* Lemma: Inv is inductive.
LEMMA InvHolds == Spec => []Inv
<1>1. Init => Inv
  BY BoundsAssumption DEF Init, Inv, TypeOK, WriterOK, SaverOK, Points, Events
<1>2. Inv /\ [Next]_vars => Inv'
  <2> SUFFICES ASSUME Inv, [Next]_vars PROVE Inv'
    OBVIOUS
  <2>1. ASSUME NEW th \in Threads, Call(th) \/ Step(th) PROVE Inv'
    BY <2>1, CallKeepsInv, AcquireKeepsInv, PutKeepsInv, UpdateKeepsInv, DeleteKeepsInv,
       PurgeKeepsInv, RejectKeepsInv, SaveSucceedsKeepsInv, SaveFailsKeepsInv,
       PublishKeepsInv, LeaveKeepsInv DEF Step
  <2>2. CASE UNCHANGED vars
    <3>1. TypeOK'
      BY <2>2 DEF vars, Inv, TypeOK
    <3>2. WriterOK' /\ SaverOK'
      BY <2>2 DEF vars, Inv, WriterOK, SaverOK
    <3> QED BY <3>1, <3>2 DEF Inv
  <2> QED BY <2>1, <2>2, ElapseKeepsInv, RestartKeepsInv DEF Next
<1> QED BY <1>1, <1>2, PTL DEF Spec

\* Theorem: every reachable state of a store is well-typed, for all threads, keys,
\* files and writes, whatever fails and whenever the process dies.
THEOREM TypeCorrect == Spec => []TypeOK
<1>1. Inv => TypeOK
  BY DEF Inv
<1> QED BY <1>1, InvHolds, PTL

-----------------------------------------------------------------------------
(* Durability with one file, whatever fails *)

\* The memory service has one file.
OneFile == \A f, g \in Files : f = g

\* The index is never behind: a key holds what was acknowledged or what a later
\* write left.
IndexRecent == \A key \in Keys : index[key] \in {acked[key]} \cup unsure[key]

MemoryInv == Inv /\ RecoversAcknowledged /\ IndexRecent

\* Lemma: a change of the index is an outcome that a restart may lose or keep.
LEMMA ChangeIsUnsure ==
    ASSUME MemoryInv, NEW th \in Threads, NEW file, NEW changed, NEW events,
           Change(th, file, changed, events)
    PROVE  RecoversAcknowledged' /\ IndexRecent'
<1>1. \A key \in Keys : Loaded(key)' = Loaded(key)
  BY DEF Change, Loaded, Holding
<1>2. \A key \in Keys : acked'[key] = acked[key] /\ unsure[key] \subseteq unsure'[key]
  BY DEF Change
<1>3. RecoversAcknowledged'
  BY <1>1, <1>2 DEF MemoryInv, RecoversAcknowledged
<1>4. IndexRecent'
  BY <1>2 DEF MemoryInv, IndexRecent, Change
<1> QED BY <1>3, <1>4

\* Lemma: a save stores the whole index.
LEMMA OneFileLoaded ==
    ASSUME OneFile, Inv, NEW th \in Threads, SaveSucceeds(th), NEW k \in Keys
    PROVE  Loaded(k)' = index[k]
<1>1. TypeOK' /\ save.file \in Files
  BY SaveSucceedsKeepsInv DEF Inv, TypeOK, WriterOK, SaveSucceeds, Saves
<1>2. \A key \in Keys : Saved(save.file)[key] = index[key]
  BY <1>1 DEF Saved, Inv, TypeOK, OneFile, Record
<1>3. disk'[save.file] = Saved(save.file)
  BY <1>1 DEF SaveSucceeds, Inv, TypeOK
<1>4. \A f \in Files, key \in Keys : Loaded(key)' = disk'[f][key]
  <2> SUFFICES ASSUME NEW f \in Files, NEW key \in Keys PROVE Loaded(key)' = disk'[f][key]
    OBVIOUS
  <2>1. f = save.file /\ \A g \in Files : g = f
    BY <1>1 DEF OneFile
  <2>2. Holding(key)' = {g \in Files : disk'[g][key] # None}
    BY DEF Holding
  <2>3. CASE disk'[f][key] = None
    BY <2>1, <2>2, <2>3 DEF Loaded
  <2>4. CASE disk'[f][key] # None
    <3>1. Holding(key)' = {f}
      BY <2>1, <2>2, <2>4
    <3>2. LastOf({f}) = f
      BY LastIsOne
    <3> QED BY <3>1, <3>2 DEF Loaded
  <2> QED BY <2>3, <2>4
<1> QED BY <1>1, <1>2, <1>3, <1>4

\* Lemma: so what a restart brings back is what the save left.
LEMMA OneFileSaved ==
    ASSUME OneFile, MemoryInv, NEW th \in Threads, SaveSucceeds(th)
    PROVE  RecoversAcknowledged' /\ IndexRecent'
<1>1. \A key \in Keys : Loaded(key)' = index[key]
  BY OneFileLoaded DEF MemoryInv
<1>2. \A key \in Keys : index[key] \in {acked'[key]} \cup unsure'[key]
  BY DEF SaveSucceeds, Acknowledge, MemoryInv, IndexRecent
<1>3. RecoversAcknowledged'
  BY <1>1, <1>2 DEF RecoversAcknowledged
<1>4. IndexRecent'
  BY <1>2 DEF IndexRecent, SaveSucceeds
<1> QED BY <1>3, <1>4

\* Lemma: after a restart the index is what was loaded, and it counts as acknowledged.
LEMMA RestartIsRecent ==
    ASSUME Restart PROVE RecoversAcknowledged' /\ IndexRecent'
<1>1. \A key \in Keys : Loaded(key)' = Loaded(key)
  BY DEF Restart, Loaded, Holding
<1> QED BY <1>1 DEF Restart, RecoversAcknowledged, IndexRecent

\* Lemma: a step that touches neither the index nor the files keeps both.
LEMMA UntouchedIsRecent ==
    ASSUME MemoryInv, UNCHANGED <<index, disk, acked, unsure>>
    PROVE  RecoversAcknowledged' /\ IndexRecent'
<1>1. \A key \in Keys : Loaded(key)' = Loaded(key)
  BY DEF Loaded, Holding
<1> QED BY <1>1 DEF MemoryInv, RecoversAcknowledged, IndexRecent

\* Theorem: in the memory service no crash, failing save, value that cannot be
\* serialized, expiry or purge makes a restart bring back an older record than the
\* last acknowledged one.
THEOREM MemoryIsDurable == ASSUME OneFile PROVE Spec => []RecoversAcknowledged
<1>1. Init => RecoversAcknowledged /\ IndexRecent
  BY LoadedIsHeld DEF Init, RecoversAcknowledged, IndexRecent, Holding
<1>2. MemoryInv /\ [Next]_vars => RecoversAcknowledged' /\ IndexRecent'
  <2> SUFFICES ASSUME MemoryInv, [Next]_vars PROVE RecoversAcknowledged' /\ IndexRecent'
    OBVIOUS
  <2>1. ASSUME NEW th \in Threads, Put(th) \/ Update(th) \/ Delete(th) \/ Purge(th)
        PROVE  RecoversAcknowledged' /\ IndexRecent'
    <3>1. \E file, changed, events : Change(th, file, changed, events)
      BY <2>1 DEF Put, Update, Delete, Purge
    <3> QED BY <3>1, ChangeIsUnsure
  <2>2. ASSUME NEW th \in Threads, SaveSucceeds(th)
        PROVE  RecoversAcknowledged' /\ IndexRecent'
    BY <2>2, OneFileSaved
  <2>3. CASE Restart
    BY <2>3, RestartIsRecent
  <2>4. ASSUME NEW th \in Threads,
               Call(th) \/ Acquire(th) \/ Reject(th) \/ SaveFails(th) \/ Publish(th) \/ Leave(th)
        PROVE  RecoversAcknowledged' /\ IndexRecent'
    <3>1. UNCHANGED <<index, disk, acked, unsure>>
      BY <2>4 DEF Call, Acquire, Reject, SaveFails, Publish, Leave
    <3> QED BY <3>1, UntouchedIsRecent
  <2>5. CASE Elapse \/ UNCHANGED vars
    <3>1. UNCHANGED <<index, disk, acked, unsure>>
      BY <2>5 DEF Elapse, vars
    <3> QED BY <3>1, UntouchedIsRecent
  <2> QED BY <2>1, <2>2, <2>3, <2>4, <2>5 DEF Next, Step
<1> QED BY <1>1, <1>2, InvHolds, PTL DEF Spec, MemoryInv

-----------------------------------------------------------------------------
(* Durability with many files, when no save fails *)

\* Callers store serializable values and the file system does not fail.
NoFailures == SavesMayFail = FALSE /\ Serializable \subseteq {TRUE}

\* The save in progress may change this key.
Changing(key) == save # None /\ key \in save.keys

\* A record of the index can be saved, and one in a file belongs there.
RecordsOK ==
    /\ \A key \in Keys : index[key] # None => index[key].serializable
    /\ \A f \in Files, key \in Keys :
          disk[f][key] # None => disk[f][key].file = f /\ disk[f][key].serializable

\* Every file agrees with the index, but for the change that is being saved.
FilesAgree ==
    \A f \in Files, key \in Keys :
        IF Changing(key)
        THEN f # save.file => disk[f][key] = None /\ Saved(f)[key] = None
        ELSE disk[f][key] = Saved(f)[key]

\* What is not being saved has been acknowledged.
AckedIsIndex == \A key \in Keys : ~ Changing(key) => acked[key] = index[key]

KnowledgeInv == Inv /\ RecordsOK /\ FilesAgree /\ AckedIsIndex /\ RecoversAcknowledged

\* Lemma: no key stands in two files.
LEMMA HeldOnce ==
    ASSUME KnowledgeInv, NEW key \in Keys, NEW f \in Holding(key), NEW g \in Holding(key)
    PROVE  f = g
<1>1. CASE Changing(key)
  BY <1>1 DEF KnowledgeInv, FilesAgree, Holding
<1>2. CASE ~ Changing(key)
  BY <1>2 DEF KnowledgeInv, FilesAgree, Holding, Saved
<1> QED BY <1>1, <1>2

\* Lemma: nobody saves while a write holds the lock before its save.
LEMMA NoSaveBefore ==
    ASSUME Inv, NEW th \in Threads, pc[th] = "body"
    PROVE  save = None
  BY DEF Inv, WriterOK, SaverOK

\* Lemma: a change of keys that are in one file, or in none.
LEMMA ChangeAgrees ==
    ASSUME KnowledgeInv, NEW th \in Threads, pc[th] = "body", NEW file \in Files,
           NEW changed, NEW events, Change(th, file, changed, events),
           DOMAIN changed \subseteq Keys,
           \A key \in DOMAIN changed :
              /\ index[key] = None \/ index[key].file = file
              /\ changed[key] = None \/ (changed[key].file = file /\ changed[key].serializable)
    PROVE  RecordsOK' /\ FilesAgree' /\ AckedIsIndex' /\ RecoversAcknowledged'
<1>1. save = None /\ \A key \in Keys : ~ Changing(key)
  BY NoSaveBefore DEF KnowledgeInv, Changing
<1>2. save' # None /\ save'.file = file /\ save'.keys = DOMAIN changed
  BY NoneAssumption DEF Change, Saves
<1>3. \A key \in Keys : Changing(key)' <=> key \in DOMAIN changed
  BY <1>2 DEF Changing
<1>4. \A key \in Keys : index'[key] = IF key \in DOMAIN changed THEN changed[key] ELSE index[key]
  BY DEF Change
<1>5. disk' = disk /\ acked' = acked
  BY DEF Change
<1>6. RecordsOK'
  BY <1>4, <1>5 DEF KnowledgeInv, RecordsOK
<1>7. \A f \in Files, key \in Keys : disk[f][key] = Saved(f)[key]
  BY <1>1 DEF KnowledgeInv, FilesAgree
<1>8. FilesAgree'
  <2> SUFFICES ASSUME NEW f \in Files, NEW key \in Keys
               PROVE  IF Changing(key)'
                      THEN f # save'.file => disk'[f][key] = None /\ Saved(f)'[key] = None
                      ELSE disk'[f][key] = Saved(f)'[key]
    BY DEF FilesAgree
  <2>1. CASE key \in DOMAIN changed
    <3>1. f # file => Saved(f)[key] = None /\ Saved(f)'[key] = None
      BY <1>4, <2>1 DEF Saved
    <3> QED BY <1>2, <1>3, <1>5, <1>7, <2>1, <3>1
  <2>2. CASE key \notin DOMAIN changed
    <3>1. Saved(f)'[key] = Saved(f)[key]
      BY <1>4, <2>2 DEF Saved
    <3> QED BY <1>3, <1>5, <1>7, <2>2, <3>1
  <2> QED BY <2>1, <2>2
<1>9. AckedIsIndex'
  BY <1>1, <1>3, <1>4, <1>5 DEF KnowledgeInv, AckedIsIndex
<1>10. RecoversAcknowledged'
  <2>1. \A key \in Keys : Loaded(key)' = Loaded(key)
    BY <1>5 DEF Loaded, Holding
  <2>2. \A key \in Keys : unsure[key] \subseteq unsure'[key]
    BY DEF Change
  <2> QED BY <1>5, <2>1, <2>2 DEF KnowledgeInv, RecoversAcknowledged
<1> QED BY <1>6, <1>8, <1>9, <1>10

\* Lemma: so is the change of every write.
LEMMA WriteAgrees ==
    ASSUME NoFailures, KnowledgeInv, NEW th \in Threads,
           Put(th) \/ Update(th) \/ Delete(th) \/ Purge(th)
    PROVE  RecordsOK' /\ FilesAgree' /\ AckedIsIndex' /\ RecoversAcknowledged'
<1> DEFINE key == request[th].key
<1>1. /\ pc[th] = "body" /\ request[th] \in Requests /\ request[th].op \in Operations
      /\ Put(th) => request[th].op = "put"
      /\ Update(th) => request[th].op = "update"
      /\ Delete(th) => request[th].op = "delete"
      /\ Purge(th) => request[th].op = "purge"
  BY DEF Put, Update, Delete, Purge, Locked, KnowledgeInv, Inv, WriterOK
<1>2. CASE Put(th)
  <2> DEFINE new == [id |-> writes + 1, value |-> writes + 1, version |-> 1,
                     file |-> request[th].file, expires |-> request[th].expires,
                     serializable |-> request[th].serializable]
             changed == [k \in {key} |-> new]
  <2>1. key \in Keys /\ new.file \in Files /\ new.serializable
    BY <1>1, <1>2 DEF Requests, NoFailures
  <2>2. index[key] = None /\ Change(th, new.file, changed, {Announcement("created", new)})
    BY <1>2 DEF Put
  <2>3. DOMAIN changed \subseteq Keys /\ \A k \in DOMAIN changed : k = key /\ changed[k] = new
    BY <2>1
  <2> HIDE DEF new, changed, key
  <2> QED BY <1>1, <2>1, <2>2, <2>3, ChangeAgrees
<1>3. CASE Update(th)
  <2> DEFINE old == index[key]
             new == Updated(old, writes + 1, request[th].serializable)
             changed == [k \in {key} |-> new]
  <2>1. key \in Keys /\ request[th].serializable = TRUE /\ writes + 1 \in Nat
    <3>1. key \in Keys /\ request[th].serializable \in Serializable
      BY <1>1, <1>3 DEF Requests
    <3>2. request[th].serializable = TRUE
      BY <3>1 DEF NoFailures
    <3>3. writes + 1 \in Nat
      BY DEF KnowledgeInv, Inv, TypeOK
    <3> QED BY <3>1, <3>2, <3>3
  <2>2. old \in Record /\ old.file \in Files
    BY <1>3, <2>1 DEF Update, Present, KnowledgeInv, Inv, TypeOK, Record
  <2>3. new.file = old.file /\ new.serializable
    <3> HIDE DEF old
    <3> QED BY <2>1, <2>2, UpdatedType
  <2>4. Change(th, new.file, changed, {Announcement("updated", new)})
    BY <1>3 DEF Update
  <2>5. DOMAIN changed \subseteq Keys /\ \A k \in DOMAIN changed : k = key /\ changed[k] = new
    BY <2>1
  <2>6. index[key] = old
    OBVIOUS
  <2> HIDE DEF old, new, changed, key
  <2> QED BY <1>1, <2>2, <2>3, <2>4, <2>5, <2>6, ChangeAgrees
<1>4. CASE Delete(th)
  <2> DEFINE old == index[key]
             changed == [k \in {key} |-> None]
  <2>1. key \in Keys
    BY <1>1, <1>4 DEF Requests
  <2>2. old.file \in Files
    BY <1>4, <2>1 DEF Delete, Present, KnowledgeInv, Inv, TypeOK, Record
  <2>3. Change(th, old.file, changed, {Announcement("deleted", old)})
    BY <1>4 DEF Delete
  <2>4. DOMAIN changed \subseteq Keys /\ \A k \in DOMAIN changed : k = key /\ changed[k] = None
    BY <2>1
  <2>5. index[key] = old
    OBVIOUS
  <2> HIDE DEF old, changed, key
  <2> QED BY <1>1, <2>2, <2>3, <2>4, <2>5, ChangeAgrees
<1>5. CASE Purge(th)
  <2> DEFINE changed == [k \in Purgeable |-> None]
             events == {Announcement("purged", index[k]) : k \in Purgeable}
  <2>1. PICK file \in Files : Change(th, file, changed, events)
    BY <1>5 DEF Purge
  <2>2. \A f, g \in Files : f = g
    BY <1>1, <1>5, CallersAssumption
  <2>3. \A k \in Purgeable : k \in Keys /\ index[k] \in Record
    BY DEF Purgeable, KnowledgeInv, Inv, TypeOK
  <2>4. DOMAIN changed \subseteq Keys
        /\ \A k \in DOMAIN changed : changed[k] = None /\ index[k].file = file
    BY <2>2, <2>3 DEF Record
  <2> HIDE DEF changed, events
  <2> QED BY <1>1, <2>1, <2>4, ChangeAgrees
<1> QED BY <1>2, <1>3, <1>4, <1>5

\* Lemma: a save brings all files in line with the index.
LEMMA FilesSaved ==
    ASSUME KnowledgeInv, NEW th \in Threads, SaveSucceeds(th)
    PROVE  \A f \in Files, key \in Keys : disk'[f][key] = Saved(f)[key]
<1> SUFFICES ASSUME NEW f \in Files, NEW key \in Keys PROVE disk'[f][key] = Saved(f)[key]
  OBVIOUS
<1>1. save.file \in Files
  BY DEF SaveSucceeds, KnowledgeInv, Inv, TypeOK, WriterOK, Saves
<1>2. disk' = [disk EXCEPT ![save.file] = Saved(save.file)] /\ disk \in [Files -> [Keys -> Record \cup {None}]]
  BY DEF SaveSucceeds, KnowledgeInv, Inv, TypeOK
<1>3. CASE f = save.file
  BY <1>1, <1>2, <1>3
<1>4. CASE f # save.file
  BY <1>2, <1>4 DEF KnowledgeInv, FilesAgree
<1> QED BY <1>3, <1>4

\* Lemma: so what a restart brings back is what the save left.
LEMMA FilesLoaded ==
    ASSUME KnowledgeInv, NEW th \in Threads, SaveSucceeds(th), NEW key \in Keys
    PROVE  Loaded(key)' = index[key]
<1>1. Holding(key)' = {f \in Files : Saved(f)[key] # None}
  BY FilesSaved DEF Holding
<1>2. index[key] \in Record \cup {None}
  BY DEF KnowledgeInv, Inv, TypeOK
<1>3. CASE index[key] = None
  <2>1. Holding(key)' = {}
    BY <1>1, <1>3 DEF Saved
  <2> QED BY <1>3, <2>1 DEF Loaded
<1>4. CASE index[key] # None
  <2> DEFINE file == index[key].file
  <2>1. file \in Files
    BY <1>2, <1>4 DEF Record
  <2>2. Holding(key)' = {file} /\ Saved(file)[key] = index[key]
    BY <1>1, <1>4, <2>1 DEF Saved
  <2>3. LastOf({file}) = file
    BY <2>1, LastIsOne
  <2>4. Loaded(key)' = disk'[file][key]
    BY <2>2, <2>3 DEF Loaded
  <2> QED BY FilesSaved, <2>1, <2>2, <2>4
<1> QED BY <1>3, <1>4

\* Lemma: and it counts as acknowledged.
LEMMA SaveAgrees ==
    ASSUME KnowledgeInv, NEW th \in Threads, SaveSucceeds(th)
    PROVE  RecordsOK' /\ FilesAgree' /\ AckedIsIndex' /\ RecoversAcknowledged'
<1>1. save \in Saves
  BY DEF SaveSucceeds, KnowledgeInv, Inv, TypeOK, WriterOK
<1>2. index' = index /\ save' = None /\ \A key \in Keys : ~ Changing(key)'
  BY DEF SaveSucceeds, Changing
<1>3. RecordsOK'
  BY <1>2, FilesSaved DEF KnowledgeInv, RecordsOK, Saved
<1>4. FilesAgree'
  <2>1. \A f \in Files : Saved(f)' = Saved(f)
    BY <1>2 DEF Saved
  <2> QED BY <1>2, <2>1, FilesSaved DEF FilesAgree
<1>5. \A key \in Keys : acked'[key] = index[key]
  BY <1>1 DEF SaveSucceeds, Acknowledge, KnowledgeInv, AckedIsIndex, Changing
<1>6. AckedIsIndex'
  BY <1>2, <1>5 DEF AckedIsIndex
<1>7. RecoversAcknowledged'
  BY <1>5, FilesLoaded DEF RecoversAcknowledged
<1> QED BY <1>3, <1>4, <1>6, <1>7

\* Lemma: the index that a restart loads agrees with the files.
LEMMA RestartAgrees ==
    ASSUME KnowledgeInv, Restart
    PROVE  RecordsOK' /\ FilesAgree' /\ AckedIsIndex' /\ RecoversAcknowledged'
<1>1. /\ disk' = disk /\ \A key \in Keys : ~ Changing(key)'
      /\ \A key \in Keys : index'[key] = Loaded(key) /\ acked'[key] = Loaded(key)
  BY DEF Restart, Changing
<1>2. \A key \in Keys : \/ Holding(key) = {} /\ Loaded(key) = None
                        \/ \E f \in Holding(key) : Loaded(key) = disk[f][key]
  BY LoadedIsHeld
<1>3. RecordsOK'
  <2>1. \A key \in Keys : Loaded(key) # None => Loaded(key).serializable
    BY <1>2 DEF KnowledgeInv, RecordsOK, Holding
  <2> QED BY <1>1, <2>1 DEF KnowledgeInv, RecordsOK
<1>4. FilesAgree'
  <2> SUFFICES ASSUME NEW f \in Files, NEW key \in Keys PROVE disk'[f][key] = Saved(f)'[key]
    BY <1>1 DEF FilesAgree
  <2>1. Saved(f)'[key] = IF Loaded(key) # None /\ Loaded(key).file = f THEN Loaded(key) ELSE None
    BY <1>1 DEF Saved
  <2>2. CASE Holding(key) = {} /\ Loaded(key) = None
    BY <1>1, <2>1, <2>2 DEF Holding
  <2>3. CASE \E g \in Holding(key) : Loaded(key) = disk[g][key]
    <3>1. PICK g \in Holding(key) : Loaded(key) = disk[g][key]
      BY <2>3
    <3>2. g \in Files /\ disk[g][key] # None /\ disk[g][key].file = g
      BY DEF Holding, KnowledgeInv, RecordsOK
    <3>3. f # g => disk[f][key] = None
      BY HeldOnce DEF Holding
    <3> QED BY <1>1, <2>1, <3>1, <3>2, <3>3
  <2> QED BY <1>2, <2>2, <2>3
<1>5. AckedIsIndex'
  BY <1>1 DEF AckedIsIndex
<1>6. RecoversAcknowledged'
  BY RestartIsRecent
<1> QED BY <1>3, <1>4, <1>5, <1>6

\* Lemma: a step that leaves the index, the files and the save alone.
LEMMA UntouchedAgrees ==
    ASSUME KnowledgeInv, UNCHANGED <<index, disk, save, acked, unsure>>
    PROVE  RecordsOK' /\ FilesAgree' /\ AckedIsIndex' /\ RecoversAcknowledged'
<1>1. \A key \in Keys : Loaded(key)' = Loaded(key)
  BY DEF Loaded, Holding
<1>2. \A key \in Keys : Changing(key)' <=> Changing(key)
  BY DEF Changing
<1>3. \A f \in Files : Saved(f)' = Saved(f)
  BY DEF Saved
<1>4. RecordsOK'
  BY DEF KnowledgeInv, RecordsOK
<1>5. FilesAgree'
  BY <1>2, <1>3 DEF KnowledgeInv, FilesAgree
<1>6. AckedIsIndex'
  BY <1>2 DEF KnowledgeInv, AckedIsIndex
<1>7. RecoversAcknowledged'
  BY <1>1 DEF KnowledgeInv, RecoversAcknowledged
<1> QED BY <1>4, <1>5, <1>6, <1>7

\* Lemma: the files agree with the index as long as no save fails.
LEMMA KnowledgeInvHolds == ASSUME NoFailures PROVE Spec => []KnowledgeInv
<1> DEFINE Agree == RecordsOK /\ FilesAgree /\ AckedIsIndex /\ RecoversAcknowledged
<1>1. Init => Agree
  <2> SUFFICES ASSUME Init PROVE Agree
    OBVIOUS
  <2>1. RecordsOK /\ FilesAgree /\ AckedIsIndex
    BY DEF Init, RecordsOK, FilesAgree, AckedIsIndex, Saved, Changing
  <2>2. RecoversAcknowledged
    BY LoadedIsHeld DEF Init, RecoversAcknowledged, Holding
  <2> QED BY <2>1, <2>2
<1>2. Inv /\ Agree /\ [Next]_vars => Agree'
  <2> SUFFICES ASSUME KnowledgeInv, [Next]_vars PROVE Agree'
    BY DEF KnowledgeInv
  <2>1. ASSUME NEW th \in Threads, Put(th) \/ Update(th) \/ Delete(th) \/ Purge(th)
        PROVE  Agree'
    BY <2>1, WriteAgrees
  <2>2. ASSUME NEW th \in Threads, SaveSucceeds(th) PROVE Agree'
    BY <2>2, SaveAgrees
  <2>3. ASSUME NEW th \in Threads, SaveFails(th) PROVE FALSE
    <3>1. Storable(save.file)
      BY DEF KnowledgeInv, RecordsOK, Storable, Saved
    <3> QED BY <2>3, <3>1 DEF SaveFails, NoFailures
  <2>4. ASSUME NEW th \in Threads, Reject(th) PROVE Agree'
    BY <2>4, UntouchedAgrees DEF Reject
  <2>5. ASSUME NEW th \in Threads, Call(th) \/ Acquire(th) \/ Publish(th) \/ Leave(th)
        PROVE  Agree'
    <3>1. UNCHANGED <<index, disk, save, acked, unsure>>
      BY <2>5 DEF Call, Acquire, Publish, Leave
    <3> QED BY <3>1, UntouchedAgrees
  <2>6. CASE Elapse \/ UNCHANGED vars
    <3>1. UNCHANGED <<index, disk, save, acked, unsure>>
      BY <2>6 DEF Elapse, vars
    <3> QED BY <3>1, UntouchedAgrees
  <2>7. CASE Restart
    BY <2>7, RestartAgrees
  <2> QED BY <2>1, <2>2, <2>3, <2>4, <2>5, <2>6, <2>7 DEF Next, Step
<1>3. Inv /\ Agree => KnowledgeInv
  BY DEF KnowledgeInv
<1> HIDE DEF Agree
<1> QED BY <1>1, <1>2, <1>3, InvHolds, PTL DEF Spec

\* Theorem: as long as no save fails, the knowledge service brings back what was
\* acknowledged, in however many categories its keys come and go, and whenever the
\* process dies.
THEOREM KnowledgeIsDurable == ASSUME NoFailures PROVE Spec => []RecoversAcknowledged
<1>1. KnowledgeInv => RecoversAcknowledged
  BY DEF KnowledgeInv
<1> QED BY <1>1, KnowledgeInvHolds, PTL
-----------------------------------------------------------------------------
(* Announcements and versions, in either case *)

\* The assumption of one of the two theorems above.
Durable == OneFile \/ NoFailures

\* Numbers of records are those of the writes that made them: none is given twice, to
\* two keys of the index or of the files.
NumbersOK ==
    /\ \A key \in Keys :
          /\ index[key] # None => index[key].id <= writes
          /\ Loaded(key) # None => Loaded(key).id <= writes
          /\ acked[key] # None => acked[key].id <= writes
    /\ \A k, l \in Keys :
          /\ index[k] # None /\ index[l] # None /\ index[k].id = index[l].id => k = l
          /\ Loaded(k) # None /\ Loaded(l) # None /\ Loaded(k).id = Loaded(l).id => k = l

\* The index has the record at this version or a later one, unless it was removed.
Stands(record) ==
    \/ record.id \in removed
    \/ \E key \in Keys : /\ index[key] # None
                          /\ index[key].id = record.id
                          /\ index[key].version >= record.version

Gone(record) == \A key \in Keys : index[key] # None => index[key].id # record.id

\* What is announced, or will be after the save, is true of the index.
AnnouncedIsIndexed ==
    \A th \in Threads : pc[th] \in {"saving", "publish"} =>
        \A a \in announce[th] :
            /\ a.record.id <= writes
            /\ IF a.kind \in {"created", "updated"} THEN Stands(a.record) ELSE Gone(a.record)

\* Of two states of one record the second is the same, or a later version.
Newer(old, new) ==
    old # None /\ new # None /\ old.id = new.id =>
        \/ new.version > old.version
        \/ new.value = old.value /\ new.version = old.version

\* Whatever may be acknowledged next is newer than what is.
OutcomesNewer ==
    \A key \in Keys : \A outcome \in {index[key]} \cup unsure[key] : Newer(acked[key], outcome)

HistoryInv == NumbersOK /\ AnnouncedIsIndexed /\ OutcomesNewer /\ AnnouncedIsDurable

\* What a write may do to a key of the index: nothing, a record of a new number, a new
\* version, or a removal.
Evolves(key) ==
    \/ index'[key] = index[key]
    \/ index[key] = None /\ index'[key] # None /\ index'[key].id = writes + 1
    \/ /\ index[key] # None /\ index'[key] # None
       /\ index'[key].id = index[key].id /\ index'[key].version > index[key].version
    \/ index[key] # None /\ index'[key] = None /\ index[key].id \in removed'

\* What a write does up to its save.
WriteEffect(th) ==
    /\ writes' = writes + 1 /\ removed \subseteq removed' /\ disk' = disk /\ acked' = acked
    /\ \A key \in Keys : Evolves(key) /\ unsure'[key] \subseteq unsure[key] \cup {index'[key]}
    /\ \A k, l \in Keys :
          index[k] = None /\ index[l] = None /\ index'[k] # None /\ index'[l] # None => k = l
    /\ \A t \in Threads \ {th} : announce'[t] = announce[t] /\ pc'[t] = pc[t]
    /\ pc'[th] = "saving"
    /\ \A a \in announce'[th] : \E key \in Keys :
          IF a.kind \in {"created", "updated"}
          THEN index'[key] # None /\ a.record = index'[key]
          ELSE index[key] # None /\ index'[key] = None /\ a.record = index[key]

\* Lemma: the parts of a write that all of them share.
LEMMA ChangeEffect ==
    ASSUME Inv, NEW th \in Threads, NEW file, NEW changed, NEW events,
           Change(th, file, changed, events)
    PROVE  /\ writes' = writes + 1 /\ disk' = disk /\ acked' = acked
           /\ \A key \in Keys :
                 /\ index'[key] = IF key \in DOMAIN changed THEN changed[key] ELSE index[key]
                 /\ unsure'[key] \subseteq unsure[key] \cup {index'[key]}
           /\ \A t \in Threads \ {th} : announce'[t] = announce[t] /\ pc'[t] = pc[t]
           /\ pc'[th] = "saving" /\ announce'[th] = events
  BY DEF Change, Goto, Inv, TypeOK

\* Lemma: put() gives a new number.
LEMMA PutEffect == ASSUME Inv, NEW th \in Threads, Put(th) PROVE WriteEffect(th)
<1> DEFINE key == request[th].key
           new == [id |-> writes + 1, value |-> writes + 1, version |-> 1,
                   file |-> request[th].file, expires |-> request[th].expires,
                   serializable |-> request[th].serializable]
           changed == [k \in {key} |-> new]
           events == {Announcement("created", new)}
<1>1. request[th] \in Requests /\ request[th].op = "put"
  BY DEF Put, Locked, Inv, WriterOK
<1>2. key \in Keys /\ new \in Record
  <2>1. /\ key \in Keys /\ request[th].file \in Files
        /\ request[th].expires \in Nat \cup {None} /\ request[th].serializable \in BOOLEAN
    BY <1>1, CallersAssumption DEF Requests
  <2>2. writes + 1 \in Nat /\ 1 \in Nat
    BY DEF Inv, TypeOK
  <2> QED BY <2>1, <2>2 DEF Record
<1>3. Change(th, new.file, changed, events) /\ index[key] = None /\ removed' = removed
  BY DEF Put
<1>4. new # None /\ new.id = writes + 1
  BY <1>2, NoneAssumption
<1>5. \A a \in events : a.kind = "created" /\ a.record = new
  BY DEF Announcement
<1>6. DOMAIN changed = {key} /\ changed[key] = new
  OBVIOUS
<1> HIDE DEF key, new, changed, events
<1>7. \A k \in Keys : index'[k] = IF k = key THEN new ELSE index[k]
  BY <1>3, <1>6, ChangeEffect
<1>8. \A k \in Keys : Evolves(k)
  BY <1>3, <1>4, <1>7 DEF Evolves
<1> QED BY <1>2, <1>3, <1>4, <1>5, <1>7, <1>8, ChangeEffect DEF WriteEffect

\* Lemma: update() makes the next version.
LEMMA UpdateEffect == ASSUME Inv, NEW th \in Threads, Update(th) PROVE WriteEffect(th)
<1> DEFINE key == request[th].key
           old == index[key]
           new == Updated(old, writes + 1, request[th].serializable)
           changed == [k \in {key} |-> new]
           events == {Announcement("updated", new)}
<1>1. request[th] \in Requests /\ request[th].op = "update"
  BY DEF Update, Locked, Inv, WriterOK
<1>2. key \in Keys /\ request[th].serializable \in BOOLEAN /\ writes + 1 \in Nat
  BY <1>1, CallersAssumption DEF Requests, Inv, TypeOK
<1>3. old \in Record /\ old # None
  BY <1>2 DEF Update, Present, Inv, TypeOK
<1>4. Change(th, new.file, changed, events) /\ removed' = removed
  BY DEF Update
<1>5. new \in Record
  <2> HIDE DEF old
  <2> QED BY <1>2, <1>3, UpdatedType
<1>6. new.id = old.id /\ new.version = old.version + 1
  <2> HIDE DEF old
  <2> QED BY <1>3 DEF Updated, Record
<1>7. new # None /\ new.version > old.version
  BY <1>3, <1>5, <1>6, NoneAssumption DEF Record
<1>8. \A a \in events : a.kind = "updated" /\ a.record = new
  BY DEF Announcement
<1>9. DOMAIN changed = {key} /\ changed[key] = new
  OBVIOUS
<1>10. index[key] = old
  OBVIOUS
<1> HIDE DEF key, old, new, changed, events
<1>11. \A k \in Keys : index'[k] = IF k = key THEN new ELSE index[k]
  BY <1>4, <1>9, ChangeEffect
<1>12. \A k \in Keys : Evolves(k)
  BY <1>3, <1>6, <1>7, <1>10, <1>11 DEF Evolves
<1> QED BY <1>2, <1>3, <1>4, <1>7, <1>8, <1>10, <1>11, <1>12, ChangeEffect DEF WriteEffect

\* Lemma: delete() removes one.
LEMMA DeleteEffect == ASSUME Inv, NEW th \in Threads, Delete(th) PROVE WriteEffect(th)
<1> DEFINE key == request[th].key
           old == index[key]
           changed == [k \in {key} |-> None]
           events == {Announcement("deleted", old)}
<1>1. request[th] \in Requests /\ request[th].op = "delete"
  BY DEF Delete, Locked, Inv, WriterOK
<1>2. key \in Keys /\ old # None
  BY <1>1 DEF Requests, Delete, Present
<1>3. Change(th, old.file, changed, events) /\ removed' = removed \cup {old.id}
  BY DEF Delete
<1>4. \A a \in events : a.kind = "deleted" /\ a.record = old
  BY DEF Announcement
<1>5. DOMAIN changed = {key} /\ changed[key] = None /\ index[key] = old
  OBVIOUS
<1> HIDE DEF key, old, changed, events
<1>6. \A k \in Keys : index'[k] = IF k = key THEN None ELSE index[k]
  BY <1>3, <1>5, ChangeEffect
<1>7. \A k \in Keys : Evolves(k)
  BY <1>2, <1>3, <1>5, <1>6 DEF Evolves
<1> QED BY <1>2, <1>3, <1>4, <1>5, <1>6, <1>7, ChangeEffect DEF WriteEffect

\* Lemma: purge_expired() removes several.
LEMMA PurgeEffect == ASSUME Inv, NEW th \in Threads, Purge(th) PROVE WriteEffect(th)
<1> DEFINE changed == [key \in Purgeable |-> None]
           events == {Announcement("purged", index[key]) : key \in Purgeable}
<1>1. PICK file \in Files : Change(th, file, changed, events)
  BY DEF Purge
<1>2. removed' = removed \cup {index[key].id : key \in Purgeable}
  BY DEF Purge
<1>3. \A key \in Purgeable : key \in Keys /\ index[key] # None
  BY DEF Purgeable
<1>4. \A a \in events : a.kind = "purged" /\ \E key \in Purgeable : a.record = index[key]
  BY DEF Announcement
<1>5. DOMAIN changed = Purgeable /\ \A key \in Purgeable : changed[key] = None
  OBVIOUS
<1> HIDE DEF changed, events
<1>6. \A key \in Keys : index'[key] = IF key \in Purgeable THEN None ELSE index[key]
  BY <1>1, <1>5, ChangeEffect
<1>7. \A key \in Keys : Evolves(key)
  BY <1>2, <1>3, <1>6 DEF Evolves
<1>8. \A a \in events : a.kind = "purged" /\ \E key \in Keys :
         index[key] # None /\ index'[key] = None /\ a.record = index[key]
  BY <1>3, <1>4, <1>6
<1>9. \A k, l \in Keys :
         index[k] = None /\ index[l] = None /\ index'[k] # None /\ index'[l] # None => k = l
  BY <1>6
<1> QED BY <1>1, <1>2, <1>7, <1>8, <1>9, ChangeEffect DEF WriteEffect

\* Lemma: numbers stay unique and announcements true through a write.
LEMMA WriteKeepsHistory ==
    ASSUME Inv, Inv', HistoryInv, NEW th \in Threads, WriteEffect(th)
    PROVE  HistoryInv'
<1> USE DEF WriteEffect
<1>1. \A key \in Keys : Loaded(key)' = Loaded(key)
  BY DEF Loaded, Holding
<1>2. /\ writes \in Nat
      /\ \A key \in Keys : index[key] \in Record \cup {None} /\ index'[key] \in Record \cup {None}
      /\ \A key \in Keys : Loaded(key) \in Record \cup {None} /\ acked[key] \in Record \cup {None}
      /\ \A r \in Record : r.id \in Nat /\ r.version \in Nat
  BY LoadedType DEF Inv, TypeOK, Record
<1>3. NumbersOK'
  <2>1. \A key \in Keys : index'[key] # None =>
           \/ index'[key].id = writes + 1 /\ index[key] = None
           \/ index[key] # None /\ index'[key].id = index[key].id
    BY DEF Evolves
  <2>2. \A key \in Keys : index'[key] # None => index'[key].id <= writes'
    BY <1>2, <2>1 DEF HistoryInv, NumbersOK
  <2>3. \A k, l \in Keys : index'[k] # None /\ index'[l] # None /\ index'[k].id = index'[l].id => k = l
    BY <1>2, <2>1 DEF HistoryInv, NumbersOK
  <2>4. \A key \in Keys : /\ Loaded(key) # None => Loaded(key).id <= writes'
                          /\ acked[key] # None => acked[key].id <= writes'
    BY <1>2 DEF HistoryInv, NumbersOK
  <2> QED BY <1>1, <2>2, <2>3, <2>4 DEF HistoryInv, NumbersOK
<1>4. \A record \in Record : Stands(record) => Stands(record)'
  <2> SUFFICES ASSUME NEW record \in Record, Stands(record), record.id \notin removed'
               PROVE  Stands(record)'
    BY DEF Stands
  <2>1. PICK key \in Keys : /\ index[key] # None /\ index[key].id = record.id
                            /\ index[key].version >= record.version
    BY DEF Stands
  <2>2. /\ index'[key] # None /\ index'[key].id = record.id
        /\ index'[key].version >= record.version
    BY <1>2, <2>1 DEF Evolves
  <2> QED BY <2>2 DEF Stands
<1>5. \A record \in Record : Gone(record) /\ record.id <= writes => Gone(record)'
  BY <1>2 DEF Evolves, Gone
<1>6. AnnouncedIsIndexed'
  <2> SUFFICES ASSUME NEW t \in Threads, pc'[t] \in {"saving", "publish"}, NEW a \in announce'[t]
               PROVE  /\ a.record.id <= writes'
                      /\ IF a.kind \in {"created", "updated"}
                         THEN Stands(a.record)' ELSE Gone(a.record)'
    BY DEF AnnouncedIsIndexed
  <2>1. CASE t # th
    <3>1. a.record \in Record
      BY <2>1 DEF Inv, TypeOK, Events
    <3>2. /\ a.record.id <= writes
          /\ IF a.kind \in {"created", "updated"} THEN Stands(a.record) ELSE Gone(a.record)
      BY <2>1 DEF HistoryInv, AnnouncedIsIndexed
    <3> QED BY <1>2, <1>4, <1>5, <3>1, <3>2
  <2>2. CASE t = th
    <3>1. PICK key \in Keys :
             IF a.kind \in {"created", "updated"}
             THEN index'[key] # None /\ a.record = index'[key]
             ELSE index[key] # None /\ index'[key] = None /\ a.record = index[key]
      BY <2>2
    <3>2. CASE a.kind \in {"created", "updated"}
      <4>1. a.record.id <= writes'
        BY <1>3, <3>1, <3>2 DEF NumbersOK
      <4>2. Stands(a.record)'
        BY <1>2, <3>1, <3>2 DEF Stands
      <4> QED BY <3>2, <4>1, <4>2
    <3>3. CASE a.kind \notin {"created", "updated"}
      <4>1. a.record.id <= writes
        BY <3>1, <3>3 DEF HistoryInv, NumbersOK
      <4>2. \A k \in Keys : index'[k] # None => index'[k].id # a.record.id
        BY <1>2, <3>1, <3>3, <4>1 DEF HistoryInv, NumbersOK, Evolves
      <4> QED BY <1>2, <3>1, <3>3, <4>1, <4>2 DEF Gone
    <3> QED BY <3>2, <3>3
  <2> QED BY <2>1, <2>2
<1>7. OutcomesNewer'
  <2>1. \A key \in Keys : Newer(acked[key], index'[key])
    <3> SUFFICES ASSUME NEW key \in Keys PROVE Newer(acked[key], index'[key])
      OBVIOUS
    <3>1. Newer(acked[key], index[key]) /\ (acked[key] # None => acked[key].id <= writes)
      BY DEF HistoryInv, OutcomesNewer, NumbersOK
    <3> QED BY <1>2, <3>1 DEF Evolves, Newer
  <2> QED BY <2>1 DEF HistoryInv, OutcomesNewer
<1>8. AnnouncedIsDurable'
  <2> SUFFICES ASSUME NEW t \in Threads, pc'[t] = "publish", NEW a \in announce'[t]
               PROVE  IF a.kind \in {"created", "updated"} THEN Survives(a.record)'
                      ELSE \A key \in Keys : Loaded(key)' # None => Loaded(key)'.id # a.record.id
    BY DEF AnnouncedIsDurable
  <2>1. t # th /\ pc[t] = "publish" /\ a \in announce[t]
    OBVIOUS
  <2> QED BY <1>1, <2>1 DEF HistoryInv, AnnouncedIsDurable, Survives
<1> QED BY <1>3, <1>6, <1>7, <1>8 DEF HistoryInv

\* Lemma: once it is saved, what is true of the index is true of the files.
LEMMA SaveKeepsHistory ==
    ASSUME Inv, HistoryInv, NEW th \in Threads, SaveSucceeds(th),
           \A key \in Keys : Loaded(key)' = index[key]
    PROVE  HistoryInv'
<1>1. /\ index' = index /\ writes' = writes /\ removed' = removed /\ announce' = announce
      /\ \A t \in Threads : pc'[t] \in {"saving", "publish"} => pc[t] \in {"saving", "publish"}
      /\ \A key \in Keys : \/ acked'[key] = acked[key] /\ unsure'[key] = unsure[key]
                           \/ acked'[key] = index[key] /\ unsure'[key] = {}
  BY DEF SaveSucceeds, Goto, Acknowledge, Inv, TypeOK
<1>2. NumbersOK'
  BY <1>1 DEF HistoryInv, NumbersOK
<1>3. AnnouncedIsIndexed'
  BY <1>1 DEF HistoryInv, AnnouncedIsIndexed, Stands, Gone
<1>4. OutcomesNewer'
  BY <1>1 DEF HistoryInv, OutcomesNewer, Newer
<1>5. AnnouncedIsDurable'
  BY <1>1 DEF HistoryInv, AnnouncedIsIndexed, Stands, Gone, AnnouncedIsDurable, Survives
<1> QED BY <1>2, <1>3, <1>4, <1>5 DEF HistoryInv

\* Lemma: after a restart nothing is announced any more, and the index is newer than
\* what was acknowledged, because it is what was acknowledged or an outcome since then.
LEMMA RestartKeepsHistory ==
    ASSUME HistoryInv, RecoversAcknowledged, Restart
    PROVE  HistoryInv'
<1>1. \A key \in Keys : Loaded(key)' = Loaded(key)
  BY DEF Restart, Loaded, Holding
<1>2. NumbersOK'
  BY <1>1 DEF Restart, HistoryInv, NumbersOK
<1>3. AnnouncedIsIndexed' /\ AnnouncedIsDurable'
  BY DEF Restart, AnnouncedIsIndexed, AnnouncedIsDurable
<1>4. OutcomesNewer'
  BY DEF Restart, OutcomesNewer, Newer
<1> QED BY <1>2, <1>3, <1>4 DEF HistoryInv

\* Lemma: so it is through every step that changes no record.
LEMMA UntouchedKeepsHistory ==
    ASSUME HistoryInv, UNCHANGED <<index, disk, acked, unsure, writes, removed>>,
           \A t \in Threads : pc'[t] \in {"saving", "publish"} =>
               pc'[t] = pc[t] /\ announce'[t] \subseteq announce[t]
    PROVE  HistoryInv'
<1>1. \A key \in Keys : Loaded(key)' = Loaded(key)
  BY DEF Loaded, Holding
<1>2. NumbersOK'
  BY <1>1 DEF HistoryInv, NumbersOK
<1>3. AnnouncedIsIndexed'
  BY DEF HistoryInv, AnnouncedIsIndexed, Stands, Gone
<1>4. OutcomesNewer'
  BY DEF HistoryInv, OutcomesNewer
<1>5. AnnouncedIsDurable'
  BY <1>1 DEF HistoryInv, AnnouncedIsDurable, Survives
<1> QED BY <1>2, <1>3, <1>4, <1>5 DEF HistoryInv

\* A save that succeeds leaves exactly the index to the next restart.
SaveIsWhole == \A th \in Threads : SaveSucceeds(th) => \A key \in Keys : Loaded(key)' = index[key]

\* Lemma: both services save the whole index, each for a reason of its own.
LEMMA SavesAreWhole ==
    ASSUME Durable
    PROVE  Spec => [](Inv /\ RecoversAcknowledged) /\ [][SaveIsWhole]_vars
<1>1. CASE OneFile
  <2>1. Inv /\ [Next]_vars => [SaveIsWhole]_vars
    BY <1>1, OneFileLoaded DEF SaveIsWhole
  <2>2. Spec => []RecoversAcknowledged
    BY <1>1, MemoryIsDurable
  <2> QED BY <2>1, <2>2, InvHolds, PTL DEF Spec
<1>2. CASE NoFailures
  <2>1. KnowledgeInv /\ [Next]_vars => [SaveIsWhole]_vars
    BY FilesLoaded DEF SaveIsWhole
  <2>2. KnowledgeInv => Inv /\ RecoversAcknowledged
    BY DEF KnowledgeInv
  <2>3. Spec => []KnowledgeInv
    BY <1>2, KnowledgeInvHolds
  <2> QED BY <2>1, <2>2, <2>3, PTL DEF Spec
<1> QED BY <1>1, <1>2 DEF Durable

\* Lemma: HistoryInv is inductive, given that.
LEMMA HistoryHolds == ASSUME Durable PROVE Spec => []HistoryInv
<1>1. Init => HistoryInv
  <2> SUFFICES ASSUME Init PROVE HistoryInv
    OBVIOUS
  <2>1. \A key \in Keys : Loaded(key) = None
    BY LoadedIsHeld DEF Init, Holding
  <2> QED BY <2>1 DEF Init, HistoryInv, NumbersOK, AnnouncedIsIndexed, OutcomesNewer, Newer,
                      AnnouncedIsDurable
<1>2. Inv /\ Inv' /\ RecoversAcknowledged /\ HistoryInv /\ [Next]_vars /\ [SaveIsWhole]_vars
         => HistoryInv'
  <2> SUFFICES ASSUME Inv, Inv', RecoversAcknowledged, HistoryInv, [Next]_vars, [SaveIsWhole]_vars
               PROVE  HistoryInv'
    OBVIOUS
  <2>1. ASSUME NEW th \in Threads, Put(th) \/ Update(th) \/ Delete(th) \/ Purge(th)
        PROVE  HistoryInv'
    <3>1. WriteEffect(th)
      BY <2>1, PutEffect, UpdateEffect, DeleteEffect, PurgeEffect
    <3> QED BY <3>1, WriteKeepsHistory
  <2>2. ASSUME NEW th \in Threads, SaveSucceeds(th) PROVE HistoryInv'
    <3>1. save # None /\ save' = None
      BY <2>2 DEF SaveSucceeds, Inv, WriterOK
    <3>2. SaveIsWhole
      BY <3>1 DEF vars
    <3> QED BY <2>2, <3>2, SaveKeepsHistory DEF SaveIsWhole
  <2>3. CASE Restart
    BY <2>3, RestartKeepsHistory
  <2>4. ASSUME NEW th \in Threads,
               Call(th) \/ Acquire(th) \/ Reject(th) \/ SaveFails(th) \/ Publish(th) \/ Leave(th)
        PROVE  HistoryInv'
    <3>1. UNCHANGED <<index, disk, acked, unsure, writes, removed>>
      BY <2>4 DEF Call, Acquire, Reject, SaveFails, Publish, Leave
    <3>2. \A t \in Threads : pc'[t] \in {"saving", "publish"} =>
             pc'[t] = pc[t] /\ announce'[t] \subseteq announce[t]
      BY <2>4 DEF Call, Acquire, Reject, SaveFails, Publish, Leave, Goto, Return, Inv, TypeOK
    <3> QED BY <3>1, <3>2, UntouchedKeepsHistory
  <2>5. CASE Elapse \/ UNCHANGED vars
    <3>1. UNCHANGED <<index, disk, acked, unsure, writes, removed, pc, announce>>
      BY <2>5 DEF Elapse, vars
    <3> QED BY <3>1, UntouchedKeepsHistory
  <2> QED BY <2>1, <2>2, <2>3, <2>4, <2>5 DEF Next, Step
<1> QED BY <1>1, <1>2, SavesAreWhole, PTL DEF Spec

\* Theorem: events follow the file, in either service: a record that is announced as
\* stored comes back with a restart, at that version or a later one, until it is
\* removed, and one that is announced as removed never does.
THEOREM EventsFollowFile == ASSUME Durable PROVE Spec => []AnnouncedIsDurable
<1>1. HistoryInv => AnnouncedIsDurable
  BY DEF HistoryInv
<1> QED BY <1>1, HistoryHolds, PTL

\* Theorem: what either service told its callers and its subscribers outlives it.
THEOREM RecordsAlwaysSurvive == ASSUME Durable PROVE Spec => []RecordsSurvive
<1>1. Spec => []RecoversAcknowledged
  <2>1. CASE OneFile
    BY <2>1, MemoryIsDurable
  <2>2. CASE NoFailures
    BY <2>2, KnowledgeIsDurable
  <2> QED BY <2>1, <2>2 DEF Durable
<1>2. RecoversAcknowledged /\ AnnouncedIsDurable => RecordsSurvive
  BY DEF RecordsSurvive
<1> QED BY <1>1, <1>2, EventsFollowFile, PTL

\* Theorem: no update is lost: what is acknowledged of one record after something
\* else has a higher version, through failing saves, crashes and removals.
THEOREM NoUpdateLost == ASSUME Durable PROVE Spec => VersionsGrow
<1> DEFINE Grows ==
       \A key \in Keys :
          /\ acked[key] # None /\ acked'[key] # None
          /\ acked[key].id = acked'[key].id
          /\ acked[key].value # acked'[key].value
          => acked'[key].version > acked[key].version
<1>1. Inv /\ RecoversAcknowledged /\ HistoryInv /\ [Next]_vars => [Grows]_vars
  <2> SUFFICES ASSUME Inv, RecoversAcknowledged, HistoryInv, Next PROVE Grows
    OBVIOUS
  <2>1. ASSUME NEW key \in Keys PROVE acked'[key] \in {acked[key], index[key]} \cup unsure[key]
    <3>1. ASSUME NEW th \in Threads, SaveSucceeds(th)
          PROVE  acked'[key] \in {acked[key], index[key]} \cup unsure[key]
      BY <3>1 DEF SaveSucceeds, Acknowledge
    <3>2. CASE Restart
      BY <3>2 DEF Restart, RecoversAcknowledged
    <3>3. ASSUME NEW th \in Threads, Call(th) \/ Step(th), ~ SaveSucceeds(th)
          PROVE  acked' = acked
      BY <3>3 DEF Call, Step, Acquire, Put, Update, Delete, Purge, Change, Reject, SaveFails,
                  Publish, Leave
    <3>4. CASE Elapse
      BY <3>4 DEF Elapse
    <3> QED BY <3>1, <3>2, <3>3, <3>4 DEF Next
  <2>2. \A key \in Keys : Newer(acked[key], acked'[key])
    BY <2>1 DEF HistoryInv, OutcomesNewer, Newer
  <2> QED BY <2>2 DEF Newer
<1>2. Spec => [][Grows]_vars
  BY <1>1, SavesAreWhole, HistoryHolds, PTL DEF Spec
<1> QED BY <1>2 DEF VersionsGrow
=============================================================================
