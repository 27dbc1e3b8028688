------------------------------ MODULE Builders ------------------------------
(***************************************************************************)
(* The builders of the value objects: one class per object, all of one     *)
(* shape.  Setters check their argument and keep it, with_... methods of a *)
(* list append to it, with_metadata puts an entry into a dictionary,       *)
(* build() copies everything into a frozen object, and the builder goes    *)
(* on: it may be changed and may build again.  The class itself may also   *)
(* be called, with a list that stays in the hands of the caller; classes   *)
(* without a builder are constructed in no other way.                      *)
(*                                                                         *)
(* Python lists and dictionaries are objects, so a builder, its caller and *)
(* what was built could share one.  The model keeps them in a heap: a      *)
(* field holds the address of its list.  The copies are shallow: an entry  *)
(* that is itself a list or dictionary stays the one of the caller, who    *)
(* may go on changing it.                                                  *)
(***************************************************************************)
EXTENDS ValueObjects

CONSTANTS
    Kinds,      \* the builders and classes that are looked at, by name
    Touched,    \* the fields that are set, by name
    Values,     \* what the setter of a field that has no enumeration accepts
    Items,      \* what a list may be given and accepts
    Data,       \* what a dictionary may be given, besides mutable objects
    MaxLength,  \* bound: length of a list
    MaxObjects  \* bound: objects built

ASSUME KindsAssumption == Kinds \subseteq DOMAIN Builds \union DOMAIN Frozens

\* No caller knows the identifier that a builder has made for itself.
ASSUME ValuesAssumption == Own \notin Values

VARIABLES
    kind,     \* which builder, or class without one, it is
    fields,   \* its fields that hold one value
    lists,    \* its list fields, its dictionary "extra", and two lists or
              \* dictionaries of the caller: name -> address
    heap,     \* address -> list or dictionary, of those in use
    objects   \* what was built, in order

builderVars == <<kind, fields, lists, heap, objects>>

HasBuilder == kind \in DOMAIN Builds
Class == IF HasBuilder THEN Builds[kind] ELSE Builder(<< >>, Frozens[kind].copied, {}, {})
Defaults == IF HasBuilder THEN Objects[kind] ELSE Frozens[kind].defaults

\* The caller has "given", with which it calls classes, and a mutable object that it
\* puts into dictionaries and into what it gives.  An entry holds it by reference:
\* it is written as its name.
Nested == "nested"
Host == {"given", Nested}

-----------------------------------------------------------------------------
(* The heap *)

\* An address that is not in use for each name: the name with the first number that
\* no address of these names has.
Fresh(used, names) ==
    LET n == CHOOSE n \in 0 .. Cardinality(used) : \A f \in names : <<n, f>> \notin used
    IN [f \in names |-> <<n, f>>]

AddressesOf(record) == {record[f] : f \in DOMAIN record}

\* The lists that somebody still refers to.
Live(h, mine, built) ==
    LET used == AddressesOf(mine) \union UNION {AddressesOf(built[i].lists) : i \in DOMAIN built}
    IN [a \in used |-> h[a]]

\* The containers that a builder holds; the fields that hold a container of the
\* object's own, those no builder fills included; and with the dictionary in the
\* metadata that build() stamps, the names of all that is copied.
Held == IF HasBuilder THEN Class.several \union {"extra"} ELSE {}
Containers ==
    Class.several \union
    (IF HasBuilder THEN {f \in DOMAIN Defaults : Defaults[f] = Mapped} ELSE {})
Copied == Containers \union Held
Shared == IF HasBuilder THEN {} ELSE Frozens[kind].shared

\* An object with these values and with lists of its own of this content.  What it
\* shares is what the caller has given it.
MakeObject(values, content) ==
    LET own == Fresh(DOMAIN heap, Copied)
        held == [f \in Copied \union Shared |-> IF f \in Copied THEN own[f] ELSE lists.given]
    IN /\ Len(objects) < MaxObjects
       /\ objects' = Append(objects, [fields |-> values, lists |-> held])
       /\ heap' = [a \in DOMAIN heap \union AddressesOf(own) |->
                      IF a \in DOMAIN heap THEN heap[a]
                      ELSE content[CHOOSE f \in Copied : own[f] = a]]
       /\ UNCHANGED <<kind, fields, lists>>

BuilderInit ==
    /\ kind \in Kinds
    /\ fields = Class.single
    /\ lists = Fresh({}, Held \union Host)
    /\ heap = [a \in AddressesOf(lists) |-> << >>]
    /\ objects = << >>

-----------------------------------------------------------------------------
(* The builder *)

\* What the setter of a field lets through: a member of its enumeration, a truth
\* value, or what stands for every other text, time or object.
Acceptable(f) ==
    IF kind \in DOMAIN Enumerated /\ f \in DOMAIN Enumerated[kind] THEN Enumerated[kind][f]
    ELSE IF f = "enabled" THEN {"True", "False"}
    ELSE Values

\* A setter; an argument that it refuses changes nothing.
Set(f, value) ==
    /\ fields' = [fields EXCEPT ![f] = value]
    /\ UNCHANGED <<kind, lists, heap, objects>>

\* with_metadata: the last value of a key wins, and is kept as it is, by reference.
PutExtra(key, value) ==
    /\ heap' = [heap EXCEPT ![lists.extra] = (key :> value) @@ @]
    /\ UNCHANGED <<kind, fields, lists, objects>>

Refused(f, item, list) == item \notin Items \/ (f \in Class.unique /\ item \in ToSet(list))

\* with_task and the like: appended in place.
AppendItem(f, item) ==
    /\ ~Refused(f, item, heap[lists[f]])
    /\ Len(heap[lists[f]]) < MaxLength
    /\ heap' = [heap EXCEPT ![lists[f]] = Append(@, item)]
    /\ UNCHANGED <<kind, fields, lists, objects>>

\* with_tasks and the like append one after the other, and stop with an exception
\* at the first item that is refused: what stands before it stays.
AppendPair(f, first, second) ==
    /\ ~Refused(f, first, heap[lists[f]])
    /\ Len(heap[lists[f]]) + 2 <= MaxLength
    /\ LET one == Append(heap[lists[f]], first)
           all == IF Refused(f, second, one) THEN one ELSE Append(one, second)
       IN heap' = [heap EXCEPT ![lists[f]] = all]
    /\ UNCHANGED <<kind, fields, lists, objects>>

\* clear_tasks and the like take a new list.
Clear(f) ==
    LET address == Fresh(DOMAIN heap, {f})[f]
        moved == [lists EXCEPT ![f] = address]
    IN /\ lists' = moved
       /\ heap' = Live([a \in DOMAIN heap \union {address} |->
                            IF a = address THEN << >> ELSE heap[a]], moved, objects)
       /\ UNCHANGED <<kind, fields, objects>>

\* The fields of the class that hold one value, and what build() passes for each: an
\* identifier only when the builder has one.
Plain ==
    DOMAIN Defaults \ (Containers \union Shared \union
                       IF HasBuilder THEN {"metadata", "capability_metadata"} ELSE {})
Passed ==
    [f \in Plain |->
        IF f \in DOMAIN fields /\ ~(f = IdField(kind) /\ fields[f] = NotSet) THEN fields[f]
        ELSE Defaults[f]]

\* Mutant of Build: the object is given the lists themselves.
BuildSharing ==
    /\ HasBuilder
    /\ Len(objects) < MaxObjects
    /\ LET held == [f \in Copied |-> lists[IF f \in Held THEN f ELSE "given"]]
       IN objects' = Append(objects, [fields |-> Passed, lists |-> held])
    /\ UNCHANGED <<kind, fields, lists, heap>>

\* tuple(self._tasks) of each list, and dict() of the metadata.
Build ==
    /\ HasBuilder
    /\ MakeObject(Passed, [f \in Copied |-> IF f \in Held THEN heap[lists[f]] ELSE << >>])

-----------------------------------------------------------------------------
(* The caller *)

\* The class is called with the caller's list or dictionary for one field, the
\* defaults for the others; __post_init__ copies what it is given.
CallClass(f) ==
    MakeObject([g \in Plain |-> IF Defaults[g] = Mandatory THEN Blank ELSE Defaults[g]],
               [g \in Copied |-> IF g = f THEN heap[lists.given] ELSE << >>])

\* Its own lists, its own business: a change in place.
HostAppends(name, item) ==
    /\ Copied \union Shared # {}
    /\ Len(heap[lists[name]]) + 1 < MaxLength
    /\ heap' = [heap EXCEPT ![lists[name]] = Append(@, item)]
    /\ UNCHANGED <<kind, fields, lists, objects>>

BuilderNext ==
    \/ \E f \in DOMAIN fields \intersect Touched : \E value \in Acceptable(f) : Set(f, value)
    \/ HasBuilder /\ \E value \in Data \union {Nested} : PutExtra("key", value)
    \/ HasBuilder /\ \E f \in Class.several, item \in Items : AppendItem(f, item)
    \/ \E f \in Containers \union Shared : CallClass(f)
    \/ \E f \in Class.cleared :
           \/ \E first \in Items, second \in Items \union {NotSet} : AppendPair(f, first, second)
           \/ Clear(f)
    \/ \E item \in Items \union {Nested} : HostAppends("given", item)
    \/ \E item \in Data : HostAppends(Nested, item)
    \/ Build

BuilderSpec == BuilderInit /\ [][BuilderNext]_builderVars

-----------------------------------------------------------------------------
(* Properties *)

\* What is seen of an object: its values, its lists and what it shares, and the
\* metadata that build() stamps, around the dictionary.  An entry that is a reference
\* is seen as one.
Stamped(extra) == [created_at |-> "now", version |-> "1.0", correlation_id |-> New, extra |-> extra]
View(object, h) ==
    LET stamped == IF HasBuilder THEN {ExtraField(kind)} ELSE {} IN
    [f \in DOMAIN object.fields \union Containers \union Shared \union stamped |->
        IF f \in DOMAIN object.fields THEN object.fields[f]
        ELSE IF f \in stamped THEN Stamped(h[object.lists.extra])
        ELSE h[object.lists[f]]]

\* The lists with what is in their entries.
Entry(x) ==
    IF x = Nested THEN [nested |-> TRUE, items |-> heap[lists[Nested]]]
    ELSE [nested |-> FALSE, items |-> <<x>>]
Inside == [a \in DOMAIN heap |-> [i \in DOMAIN heap[a] |-> Entry(heap[a][i])]]

\* The tables of defaults agree with each other, for every class.
TablesAgree ==
    /\ \A k \in DOMAIN Builds : DefaultsAgree(k)
    /\ \A k \in DOMAIN Frozens : FrozenAgrees(k)

\* Types of the builder.  The heap has the lists that somebody refers to, and no two
\* fields, of the builder, its caller or an object, share one.
BuilderTypeOK ==
    /\ kind \in Kinds
    /\ DOMAIN fields = DOMAIN Class.single
    /\ \A f \in DOMAIN fields : fields[f] \in Acceptable(f) \union {Class.single[f]}
    /\ DOMAIN heap =
           AddressesOf(lists) \union {objects[i].lists[f] : i \in DOMAIN objects, f \in Copied}
    /\ \A f, g \in DOMAIN lists : lists[f] = lists[g] => f = g
    /\ \A i \in DOMAIN objects, f \in Copied :
           /\ objects[i].lists[f] \notin AddressesOf(lists)
           /\ \A j \in DOMAIN objects, g \in Copied :
                  objects[i].lists[f] = objects[j].lists[g] => i = j /\ f = g

\* The caller changes its mutable object.
NestedChanges == \E item \in Data : HostAppends(Nested, item)

\* What was built keeps its values and its entries, whatever is done to the builder, or
\* to the list that the class was called with; only the value of a knowledge or memory
\* record and the like follows its caller.  What is in an entry changes when the caller
\* changes its own mutable object, in the lists that hold it and in no others, and by
\* nothing that a builder does.
ObjectsFrozen ==
    [][\A i \in DOMAIN objects :
          /\ objects'[i] = objects[i]
          /\ \A f \in Copied :
                 LET own == objects[i].lists[f] IN
                 /\ heap'[own] = heap[own]
                 /\ \/ Inside'[own] = Inside[own]
                    \/ NestedChanges /\ Nested \in Range(heap[own])]_builderVars

\* A task has no two relationships of one id, a planning session no two tasks of
\* one id: neither single additions nor a sequence that is refused half way
\* through get a twin into the builder, and so none into what it builds.
NoTwinItems ==
    \A f \in Class.unique : IsInjective(heap[lists[f]])

\* All builds of one trace builder are snapshots of one trace: they have its id, and
\* the steps they hold are the first ones of those it has now.
SnapshotsGrow ==
    \A f \in Class.several, i \in DOMAIN objects :
        HasBuilder /\ objects[i].fields[IdField(kind)] = Own =>
            IsPrefix(heap[objects[i].lists[f]], heap[lists[f]])

\* A company, contact, campaign, lead, work item, knowledge record or memory record
\* that is saved and loaded is the one that was built in every field but its arbitrary
\* data; the data too, unless JSON has no form for it; and what was loaded once is
\* loaded again as it is.  The intent that a handler is given is the one that was routed.
RestoredAsBuilt ==
    kind \in DOMAIN ToDict =>
        \A i \in DOMAIN objects :
            LET view == View(objects[i], Inside)
                again == Restored(kind, view)
                data == DataOf(kind, view)
            IN /\ WithData(kind, again, data) = view
               /\ ~Lossy(data) => again = view
               /\ Restored(kind, again) = again

\* A builder, its caller and what was built share no list or dictionary but those that
\* the caller puts into another one or a class shares on purpose: objects keep their
\* entries, are snapshots of the builder, and outlive a save and a load as far as JSON
\* can tell.
BuiltIsFrozen ==
    /\ TablesAgree
    /\ [](BuilderTypeOK /\ NoTwinItems /\ SnapshotsGrow /\ RestoredAsBuilt)
    /\ ObjectsFrozen
=============================================================================
