----------------------------- MODULE ClientPool -----------------------------
(***************************************************************************)
(* details::Pool (include/fty_common_mlm_pool.h), the pool of MlmClient    *)
(* objects, and the Pool::Ptr handles its users own.                       *)
(*                                                                         *)
(* Every method of the pool runs under its mutex, and a handle is a local  *)
(* variable of one thread: what that thread does to it before and after    *)
(* the critical section is seen by nobody else. So one call is one step,   *)
(* and threads interleave between calls.                                   *)
(***************************************************************************)
EXTENDS Integers, Sequences

CONSTANTS
  Objects,  \* the objects that can be made in a behaviour (a bound)
  Handles,  \* the Ptr variables of all threads
  Sizes,    \* values users give to the constructor, setMaximumSize() and drop()
  Moves,    \* users move from handles that live on
  MaxSlots, \* bound: with so many slots in use nobody moves a handle
  Null      \* a null unique_ptr

ASSUME PoolAssumption ==
  /\ Sizes \subseteq Nat
  /\ Sizes # {}
  /\ Moves \in BOOLEAN
  /\ MaxSlots \in Nat
  /\ Null \notin Objects

VARIABLES
  freePool,  \* m_freePool, its back() last
  maxSpare,  \* m_maxSpare, 0 for any number of spare objects
  open,      \* the pool has not been destroyed
  ptr,       \* m_object and m_pool of each handle, and whether the handle exists
  made,      \* objects made so far
  destroyed  \* objects destroyed so far

vars == <<freePool, maxSpare, open, ptr, made, destroyed>>

NoPtr == [live |-> FALSE, object |-> Null, pooled |-> FALSE]

Pooled(object) == [live |-> TRUE, object |-> object, pooled |-> TRUE]

\* The real objects among those in a set of unique_ptrs.
Real(S) == S \ {Null}

Slots(s) == {s[i] : i \in 1 .. Len(s)}

HasRoom == maxSpare = 0 \/ Len(freePool) < maxSpare

Init ==
  /\ freePool = <<>>
  /\ maxSpare \in Sizes
  /\ open = TRUE
  /\ ptr = [h \in Handles |-> NoPtr]
  /\ made = {}
  /\ destroyed = {}

-----------------------------------------------------------------------------
\* Mutant: the handle takes the object at the back, which stays in the vector.
GetWithoutPop(h) ==
  /\ open
  /\ ~ptr[h].live
  /\ \/ /\ freePool = <<>>
        /\ \E o \in Objects \ made :
             /\ made' = made \cup {o}
             /\ ptr' = [ptr EXCEPT ![h] = Pooled(o)]
     \/ /\ freePool # <<>>
        /\ ptr' = [ptr EXCEPT ![h] = Pooled(freePool[Len(freePool)])]
        /\ UNCHANGED made
  /\ UNCHANGED <<freePool, maxSpare, open, destroyed>>

\* Mutant: a new object each time.
GetAlwaysMakes(h) ==
  /\ open
  /\ ~ptr[h].live
  /\ \E o \in Objects \ made :
       /\ made' = made \cup {o}
       /\ ptr' = [ptr EXCEPT ![h] = Pooled(o)]
  /\ UNCHANGED <<freePool, maxSpare, open, destroyed>>

\* get() into a new handle: the object given back last, or a new one.
Get(h) ==
  /\ open
  /\ ~ptr[h].live
  /\ \/ /\ freePool = <<>>
        /\ \E o \in Objects \ made :
             /\ made' = made \cup {o}
             /\ ptr' = [ptr EXCEPT ![h] = Pooled(o)]
        /\ UNCHANGED freePool
     \/ /\ freePool # <<>>
        /\ ptr' = [ptr EXCEPT ![h] = Pooled(freePool[Len(freePool)])]
        /\ freePool' = SubSeq(freePool, 1, Len(freePool) - 1)
        /\ UNCHANGED made
  /\ UNCHANGED <<maxSpare, open, destroyed>>

\* doUnlink(), put(), then the end of m_object: whatever m_object holds, a
\* null pointer included, goes to the pool if the handle has a pool with room,
\* and is destroyed otherwise.
Unlink(p) ==
  \/ /\ p.pooled
     /\ HasRoom
     /\ freePool' = Append(freePool, p.object)
     /\ UNCHANGED destroyed
  \/ /\ ~(p.pooled /\ HasRoom)
     /\ destroyed' = destroyed \cup Real({p.object})
     /\ UNCHANGED freePool

\* ~Ptr()
Destroy(h) ==
  /\ ptr[h].live
  /\ Unlink(ptr[h])
  /\ ptr' = [ptr EXCEPT ![h] = NoPtr]
  /\ UNCHANGED <<maxSpare, open, made>>

\* Ptr(Ptr&&): std::move() of the raw m_pool copies it, so the handle moved
\* from keeps its pool and holds a null m_object.
MoveConstruct(to, from) ==
  /\ Moves
  /\ Len(freePool) < MaxSlots
  /\ ~ptr[to].live
  /\ ptr[from].live
  /\ ptr' = [ptr EXCEPT ![to] = ptr[from], ![from].object = Null]
  /\ UNCHANGED <<freePool, maxSpare, open, made, destroyed>>

\* operator=(Ptr&&), which does nothing to itself or between two null handles.
MoveAssign(to, from) ==
  /\ Moves
  /\ Len(freePool) < MaxSlots
  /\ ptr[to].live
  /\ ptr[from].live
  /\ ptr[to].object # ptr[from].object
  /\ Unlink(ptr[to])
  /\ ptr' = [ptr EXCEPT ![to] = ptr[from], ![from].object = Null]
  /\ UNCHANGED <<maxSpare, open, made>>

\* release(): the object will not go back to the pool.
Release(h) ==
  /\ ptr[h].live
  /\ ptr[h].pooled
  /\ ptr' = [ptr EXCEPT ![h].pooled = FALSE]
  /\ UNCHANGED <<freePool, maxSpare, open, made, destroyed>>

\* setPool(&pool)
SetPool(h) ==
  /\ open
  /\ ptr[h].live
  /\ ~ptr[h].pooled
  /\ ptr' = [ptr EXCEPT ![h].pooled = TRUE]
  /\ UNCHANGED <<freePool, maxSpare, open, made, destroyed>>

-----------------------------------------------------------------------------
Smaller(a, b) == IF a < b THEN a ELSE b

\* Mutant: resize() without looking at the size fills up with null pointers.
TrimOrFill(keep) ==
  /\ freePool' = [i \in 1 .. keep |-> IF i <= Len(freePool) THEN freePool[i] ELSE Null]
  /\ destroyed' = destroyed \cup Real({freePool[i] : i \in (keep + 1) .. Len(freePool)})

\* m_freePool.resize(keep), if it is longer: the spare objects given back last
\* are destroyed.
Trim(keep) ==
  /\ freePool' = SubSeq(freePool, 1, Smaller(keep, Len(freePool)))
  /\ destroyed' = destroyed \cup Real({freePool[i] : i \in (keep + 1) .. Len(freePool)})

\* drop(keep)
Drop(keep) ==
  /\ open
  /\ Trim(keep)
  /\ UNCHANGED <<maxSpare, open, ptr, made>>

\* Mutant: the new limit is exclusive.
SetMaximumSizeBelow(size) ==
  /\ open
  /\ maxSpare' = size - 1
  /\ Trim(size)
  /\ UNCHANGED <<open, ptr, made>>

\* Mutant: the limit holds for what is given back from now on.
SetMaximumSizeOnly(size) ==
  /\ open
  /\ maxSpare' = size
  /\ UNCHANGED <<freePool, open, ptr, made, destroyed>>

\* setMaximumSize(size): for size 0, no limit, all spare objects go too.
SetMaximumSize(size) ==
  /\ open
  /\ maxSpare' = size
  /\ Trim(size)
  /\ UNCHANGED <<open, ptr, made>>

\* ~Pool(): its users have destroyed or released their handles, as the static
\* mlm_pool and the pools of the tests require.
Close ==
  /\ open
  /\ \A h \in Handles : ~ptr[h].pooled
  /\ open' = FALSE
  /\ Trim(0)
  /\ UNCHANGED <<maxSpare, ptr, made>>

Next ==
  \/ \E h \in Handles : Get(h) \/ Destroy(h) \/ Release(h) \/ SetPool(h)
  \/ \E to, from \in Handles : MoveConstruct(to, from) \/ MoveAssign(to, from)
  \/ \E n \in Sizes : Drop(n) \/ SetMaximumSize(n)
  \/ Close

Spec == Init /\ [][Next]_vars

-----------------------------------------------------------------------------
\* Properties

\* Every variable has its type.
TypeOK ==
  /\ freePool \in Seq(Objects \cup {Null})
  /\ maxSpare \in Nat
  /\ open \in BOOLEAN
  /\ ptr \in [Handles -> [live : BOOLEAN, object : Objects \cup {Null}, pooled : BOOLEAN]]
  /\ made \in SUBSET Objects
  /\ destroyed \in SUBSET Objects

Lent == {o \in Objects : \E h \in Handles : ptr[h].object = o}

Spare == Real(Slots(freePool))

\* No client is used by two owners: an object is in one handle or in one slot
\* of m_freePool, never in two places, and never in any once it is destroyed;
\* and none is lost on the way between the two.
OneOwner ==
  /\ \A g, h \in Handles : ptr[g].object = ptr[h].object => g = h \/ ptr[g].object = Null
  /\ \A i, j \in 1 .. Len(freePool) : freePool[i] = freePool[j] => i = j \/ freePool[i] = Null
  /\ Lent \cap Spare = {}
  /\ destroyed \cap (Lent \cup Spare) = {}
  /\ made = destroyed \cup Lent \cup Spare

\* The pool keeps no more spare objects than m_maxSpare allows, also after the
\* limit was lowered or given a meaning (0 is no limit) with the pool filled.
SpareIsBounded == maxSpare # 0 => Len(freePool) <= maxSpare

\* Whatever limits and sizes drop() and setMaximumSize() are given, above or below
\* what is spare: a slot of m_freePool holds what a handle gave back to the pool,
\* and those that stay keep their order.
SlotsComeFromHandles ==
  [][\/ \E n \in 0 .. Len(freePool) : freePool' = SubSeq(freePool, 1, n)
     \/ \E h \in Handles : ptr[h].pooled /\ freePool' = Append(freePool, ptr[h].object)]_vars

\* get() gives an object: what the tests require of every handle they get.
GetGivesAnObject == [][\A h \in Handles : Get(h) => ptr'[h].object # Null]_vars

\* What became of each object; "lost" is not a status of ObjectLending.
Status == [o \in Objects |->
  CASE o \notin made   -> "unborn"
    [] o \in destroyed -> "destroyed"
    [] o \in Lent      -> "lent"
    [] o \in Spare     -> "spare"
    [] OTHER           -> "lost"]

Lending == INSTANCE ObjectLending WITH status <- Status

\* The pool keeps the promise of ObjectLending.
LendingSpec == Lending!Spec
=============================================================================
