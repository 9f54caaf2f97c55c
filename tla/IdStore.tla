------------------------------ MODULE IdStore ------------------------------
(***************************************************************************)
(* The handle tables of the collector, Global::IdStore in                 *)
(* src/m8rscript/Global.h: a vector of pointers addressed by 16-bit ids,   *)
(* a vector of mark bits, and a count of the null slots.  add() reuses the *)
(* first null slot when the count says there is one and appends           *)
(* otherwise; gcSweep() removes every non-null, unmarked (and, in the      *)
(* object store, collectable) slot, counting its index in a uint16_t.      *)
(*                                                                         *)
(* The store is driven by a mutator that keeps the handles add() returns   *)
(* and later drops them, and by a collection that clears the mark bits,    *)
(* marks the handles the mutator still holds (the root set; Global::gc is  *)
(* not in this snapshot, so marking follows spec 4.5) and then sweeps one *)
(* index per step.  Collection runs between mutator steps (spec 5: at safe *)
(* points), so the mutator is idle while phase = "sweep".                  *)
(*                                                                         *)
(* Slot i of the code is element i + 1 of the sequences.                   *)
(***************************************************************************)
EXTENDS Integers, Sequences, FiniteSets

CONSTANTS
    Objects,      \* the objects the mutator may allocate, each at most once
    Sentinel,     \* the entry in slot 0 (the error string / null object)
    Collectable,  \* the entries the sweep may free: those whose collectable()
                  \* is true in the object store, every entry in the string store
    Null,         \* a null pointer in _values
    MaxSlots,     \* bound on the size of _values
    IndexWidth    \* bits of gcSweep's loop index (16 in the code)

ASSUME /\ Collectable \subseteq Objects \cup {Sentinel}
       /\ Sentinel \notin Objects /\ Null \notin Objects \cup {Sentinel}
       /\ MaxSlots \in Nat \ {0} /\ IndexWidth \in Nat \ {0}

VARIABLES
    values,     \* _values
    marked,     \* _valueMarked
    freeCount,  \* _freeValueIdCount
    phase,      \* "idle", or "sweep" while gcSweep's loop runs
    idx,        \* gcSweep's loop index i
    refs,       \* <<id, object>> pairs the mutator holds (the roots)
    dropped,    \* <<id, object>> pairs the mutator has let go of
    allocated,  \* the objects allocated so far
    failed      \* an assert of add() or remove() has fired

vars == <<values, marked, freeCount, phase, idx, refs, dropped, allocated, failed>>

Ids == 0..MaxSlots - 1
At(id) == values[id + 1]

-----------------------------------------------------------------------------
(* isValid(id): id.raw() < _values.size()                                 *)
IsValid(id) == id < Len(values)

(* ptr(id): the slot's pointer if isValid(id), else nullptr              *)
Ptr(id) == IF IsValid(id) THEN At(id) ELSE Null

(* Mut: the reuse loop tests the mark bit instead of the pointer.         *)
FirstFreeMut ==
    LET free == {i \in 0..Len(values) - 1 : ~marked[i + 1]}
    IN  IF free = {} THEN -1 ELSE CHOOSE i \in free : \A j \in free : i <= j

(* The first null slot, the loop of add()'s reuse path; -1 when there is  *)
(* none and add() reaches assert(false).                                  *)
FirstFree ==
    LET free == {i \in 0..Len(values) - 1 : At(i) = Null}
    IN  IF free = {} THEN -1 ELSE CHOOSE i \in free : \A j \in free : i <= j

(* Mut: the new slot's mark bit not added (the resize of _valueMarked     *)
(* left out).                                                              *)
AddMut(v) ==
    IF freeCount > 0
    THEN IF FirstFree = -1
         THEN [id |-> 0, values |-> values, marked |-> marked,
               freeCount |-> freeCount, failed |-> TRUE]
         ELSE [id |-> FirstFree, values |-> [values EXCEPT ![FirstFree + 1] = v],
               marked |-> marked, freeCount |-> freeCount - 1, failed |-> FALSE]
    ELSE [id |-> Len(values), values |-> Append(values, v),
          marked |-> marked, freeCount |-> freeCount, failed |-> FALSE]

(* add(value): the new id and the store after it.  The reuse path leaves  *)
(* the slot's mark bit as it was; the append path marks the new slot.      *)
(* When the count is positive and no slot is null, assert(false) fires and *)
(* IdType() (id 0) is returned.                                           *)
Add(v) ==
    IF freeCount > 0
    THEN IF FirstFree = -1
         THEN [id |-> 0, values |-> values, marked |-> marked,
               freeCount |-> freeCount, failed |-> TRUE]
         ELSE [id |-> FirstFree, values |-> [values EXCEPT ![FirstFree + 1] = v],
               marked |-> marked, freeCount |-> freeCount - 1, failed |-> FALSE]
    ELSE [id |-> Len(values), values |-> Append(values, v),
          marked |-> Append(marked, TRUE), freeCount |-> freeCount, failed |-> FALSE]

(* Mut: the free count not incremented.                                   *)
RemoveMut(id) ==
    [values |-> [values EXCEPT ![id + 1] = Null], freeCount |-> freeCount,
     failed |-> ~(id # 0 /\ id < Len(values) /\ At(id) # Null)]

(* remove(id, del): assert(id && id < size && _values[id]), then null the *)
(* slot and count it free.                                                 *)
Remove(id) ==
    [values |-> [values EXCEPT ![id + 1] = Null], freeCount |-> freeCount + 1,
     failed |-> ~(id # 0 /\ id < Len(values) /\ At(id) # Null)]

(* The test of gcSweep's loop body: non-null, unmarked and, in the object *)
(* store, collectable.  Collectable is every object for the string store.  *)
Sweeps(i) == At(i) # Null /\ ~marked[i + 1] /\ At(i) \in Collectable

(* ++i on the uint16_t loop index.                                         *)
NextIndex(i) == (i + 1) % (2 ^ IndexWidth)

-----------------------------------------------------------------------------
(* The store after construction: slot 0 holds the sentinel.  No root     *)
(* names it: the root set of spec 4.5 is the VM stack, the program's       *)
(* constants, the static objects and the pending event closures.           *)
Init ==
    /\ values = <<Sentinel>>
    /\ marked = <<TRUE>>
    /\ freeCount = 0
    /\ phase = "idle"
    /\ idx = 0
    /\ refs = {}
    /\ dropped = {}
    /\ allocated = {}
    /\ failed = FALSE

(* Global::addObject / createString: the mutator allocates a new object   *)
(* and keeps the id add() returns.                                         *)
Allocate(o) ==
    /\ phase = "idle" /\ ~failed
    /\ o \notin allocated
    /\ freeCount > 0 \/ Len(values) < MaxSlots
    /\ LET r == Add(o) IN
       /\ values' = r.values
       /\ marked' = r.marked
       /\ freeCount' = r.freeCount
       /\ failed' = r.failed
       /\ refs' = refs \cup {<<r.id, o>>}
    /\ allocated' = allocated \cup {o}
    /\ UNCHANGED <<phase, idx, dropped>>

(* The mutator drops a reference (a stack slot popped, a property         *)
(* overwritten).                                                           *)
Release(ref) ==
    /\ phase = "idle"
    /\ ref \in refs
    /\ refs' = refs \ {ref}
    /\ dropped' = dropped \cup {ref}
    /\ UNCHANGED <<values, marked, freeCount, phase, idx, allocated, failed>>

(* A collection up to its sweep: gcClear() clears every mark bit, then     *)
(* gcMark(id) marks each root.                                             *)
GcMark ==
    /\ phase = "idle" /\ ~failed
    /\ marked' = [i \in 1..Len(values) |-> \E ref \in refs : ref[1] = i - 1]
    /\ phase' = "sweep"
    /\ idx' = 0
    /\ UNCHANGED <<values, freeCount, refs, dropped, allocated, failed>>

(* One iteration of gcSweep's loop: remove slot i if it is swept, then    *)
(* ++i.                                                                    *)
SweepStep ==
    /\ phase = "sweep" /\ ~failed
    /\ idx < Len(values)
    /\ IF Sweeps(idx)
       THEN LET r == Remove(idx) IN
            /\ values' = r.values
            /\ freeCount' = r.freeCount
            /\ failed' = r.failed
       ELSE UNCHANGED <<values, freeCount, failed>>
    /\ idx' = NextIndex(idx)
    /\ UNCHANGED <<marked, phase, refs, dropped, allocated>>

(* The loop test i < _values.size() fails: gcSweep returns.                *)
SweepEnd ==
    /\ phase = "sweep"
    /\ idx >= Len(values)
    /\ phase' = "idle"
    /\ UNCHANGED <<values, marked, freeCount, idx, refs, dropped, allocated, failed>>

Next ==
    \/ \E o \in Objects : Allocate(o)
    \/ \E ref \in refs : Release(ref)
    \/ GcMark
    \/ SweepStep
    \/ SweepEnd

(* gcSweep runs to completion once started: the loop is straight-line     *)
(* code of one thread.                                                     *)
Spec == Init /\ [][Next]_vars /\ WF_vars(SweepStep) /\ WF_vars(SweepEnd)

-----------------------------------------------------------------------------
(* Properties                                                              *)

TypeOK ==
    /\ values \in Seq(Objects \cup {Sentinel, Null})
    /\ marked \in Seq(BOOLEAN)
    /\ Len(marked) = Len(values)
    /\ freeCount \in Nat
    /\ phase \in {"idle", "sweep"}
    /\ idx \in 0..2 ^ IndexWidth - 1
    /\ refs \subseteq Ids \X Objects
    /\ dropped \subseteq Ids \X Objects
    /\ failed \in BOOLEAN

(* _freeValueIdCount is exactly the number of null slots, so add() never   *)
(* takes its reuse path without finding a slot (assert(false), id 0).      *)
FreeCountMatches ==
    freeCount = Cardinality({i \in 0..Len(values) - 1 : At(i) = Null})

(* GC soundness (spec 8.4): every id the mutator holds still names the     *)
(* object it was returned for, across any number of collections and of    *)
(* slot reuses by add(), and no assert has fired.                          *)
RefsResolve ==
    /\ ~failed
    /\ \A ref \in refs : IsValid(ref[1]) /\ At(ref[1]) = ref[2]

(* Every sweep that starts returns.                                        *)
SweepTerminates == (phase = "sweep") ~> (phase = "idle")

(* A handle the mutator has dropped either still names its object or is  *)
(* refused: ptr() gives nullptr (spec 2: once its slot is swept "the      *)
(* handle is invalid"; spec 9: a handle is valid and resolves, or is       *)
(* invalid and refused at the boundary).  It never names another object.   *)
StaleHandleRefused ==
    \A ref \in dropped : Ptr(ref[1]) \in {ref[2], Null}
(* Slot 0 keeps its sentinel through every collection (spec 2: "the       *)
(* handle 0 is reserved as a sentinel and never collected"); str() falls   *)
(* back to it for every invalid string id.                                 *)
SentinelKept == ~failed /\ At(0) = Sentinel
=============================================================================
