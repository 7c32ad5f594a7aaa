-------------------------- MODULE ClientPoolProofs --------------------------
(***************************************************************************)
(* Proofs about ClientPool, for any numbers of objects and handles, any    *)
(* sizes, and with or without handles that are moved from.                 *)
(***************************************************************************)
EXTENDS ClientPool, TLAPS

-----------------------------------------------------------------------------
\* m_freePool as a sequence

\* emplace_back() adds one slot at the end.
LEMMA AppendSlots ==
  ASSUME NEW S, NEW s \in Seq(S), NEW e \in S
  PROVE  /\ Append(s, e) \in Seq(S)
         /\ Len(Append(s, e)) = Len(s) + 1
         /\ \A i \in 1 .. Len(s) : Append(s, e)[i] = s[i]
         /\ Append(s, e)[Len(s) + 1] = e
  OBVIOUS

\* resize() to a smaller size and pop_back() keep the first slots.
LEMMA PrefixSlots ==
  ASSUME NEW S, NEW s \in Seq(S), NEW n \in 0 .. Len(s)
  PROVE  /\ SubSeq(s, 1, n) \in Seq(S)
         /\ Len(SubSeq(s, 1, n)) = n
         /\ \A i \in 1 .. n : SubSeq(s, 1, n)[i] = s[i]
  OBVIOUS

\* A size and a length have a smaller one.
LEMMA SmallerIsLength ==
  ASSUME NEW a \in Nat, NEW b \in Nat
  PROVE  /\ Smaller(a, b) \in 0 .. b
         /\ Smaller(a, b) <= a
         /\ Smaller(a, b) = a \/ (Smaller(a, b) = b /\ b < a)
  BY DEF Smaller

-----------------------------------------------------------------------------
\* Types

\* What a step does to m_freePool and to the set of destroyed objects.
LEMMA UnlinkType ==
  ASSUME TypeOK, NEW h \in Handles, Unlink(ptr[h])
  PROVE  freePool' \in Seq(Objects \cup {Null}) /\ destroyed' \in SUBSET Objects
<1>1. ptr[h].object \in Objects \cup {Null}
      BY DEF TypeOK
<1>2. Append(freePool, ptr[h].object) \in Seq(Objects \cup {Null})
      BY <1>1, AppendSlots DEF TypeOK
<1>3. QED
      BY <1>1, <1>2 DEF TypeOK, Unlink, Real

LEMMA TrimType ==
  ASSUME TypeOK, NEW keep \in Nat, Trim(keep)
  PROVE  /\ freePool' \in Seq(Objects \cup {Null})
         /\ Len(freePool') = Smaller(keep, Len(freePool))
         /\ \A i \in 1 .. Len(freePool') : freePool'[i] = freePool[i]
         /\ destroyed' \in SUBSET Objects
<1>1. freePool \in Seq(Objects \cup {Null}) /\ Len(freePool) \in Nat
      BY DEF TypeOK
<1>2. Smaller(keep, Len(freePool)) \in 0 .. Len(freePool)
      BY <1>1, SmallerIsLength
<1>3. \A i \in (keep + 1) .. Len(freePool) : freePool[i] \in Objects \cup {Null}
      BY <1>1
<1>4. destroyed' \in SUBSET Objects
      BY <1>3 DEF Trim, Real, TypeOK
<1>5. QED
      BY <1>1, <1>2, <1>4, PrefixSlots DEF Trim

LEMMA NextTypeOK == TypeOK /\ [Next]_vars => TypeOK'
<1> SUFFICES ASSUME TypeOK, [Next]_vars PROVE TypeOK'
    OBVIOUS
<1>0. Sizes \subseteq Nat
      BY PoolAssumption
<1>1. ASSUME NEW h \in Handles, Get(h) PROVE TypeOK'
  <2>1. \A o \in Objects \cup {Null} :
          [ptr EXCEPT ![h] = Pooled(o)] \in
            [Handles -> [live : BOOLEAN, object : Objects \cup {Null}, pooled : BOOLEAN]]
        BY DEF TypeOK, Pooled
  <2>2. CASE freePool = <<>>
    <3>1. PICK o \in Objects \ made : /\ made' = made \cup {o}
                                     /\ ptr' = [ptr EXCEPT ![h] = Pooled(o)]
                                     /\ UNCHANGED freePool
          BY <1>1, <2>2 DEF Get
    <3>2. UNCHANGED <<maxSpare, open, destroyed>>
          BY <1>1 DEF Get
    <3>3. QED
          BY <2>1, <3>1, <3>2 DEF TypeOK
  <2>3. CASE freePool # <<>>
    <3>1. /\ Len(freePool) \in Nat
          /\ Len(freePool) \in 1 .. Len(freePool)
          /\ Len(freePool) - 1 \in 0 .. Len(freePool)
          BY <2>3 DEF TypeOK
    <3>2. freePool[Len(freePool)] \in Objects \cup {Null}
          BY <3>1 DEF TypeOK
    <3>3. SubSeq(freePool, 1, Len(freePool) - 1) \in Seq(Objects \cup {Null})
          BY <3>1, PrefixSlots DEF TypeOK
    <3>4. /\ ptr' = [ptr EXCEPT ![h] = Pooled(freePool[Len(freePool)])]
          /\ freePool' = SubSeq(freePool, 1, Len(freePool) - 1)
          /\ UNCHANGED <<maxSpare, open, made, destroyed>>
          BY <1>1, <2>3 DEF Get
    <3>5. QED
          BY <2>1, <3>2, <3>3, <3>4 DEF TypeOK
  <2>4. QED
        BY <2>2, <2>3
<1>2. ASSUME NEW h \in Handles, Destroy(h) PROVE TypeOK'
      BY <1>2, UnlinkType DEF Destroy, NoPtr, TypeOK
<1>3. ASSUME NEW h \in Handles, Release(h) PROVE TypeOK'
      BY <1>3 DEF Release, TypeOK
<1>4. ASSUME NEW h \in Handles, SetPool(h) PROVE TypeOK'
      BY <1>4 DEF SetPool, TypeOK
<1>5. ASSUME NEW to \in Handles, NEW from \in Handles, MoveConstruct(to, from) PROVE TypeOK'
      BY <1>5 DEF MoveConstruct, TypeOK
<1>6. ASSUME NEW to \in Handles, NEW from \in Handles, MoveAssign(to, from) PROVE TypeOK'
      BY <1>6, UnlinkType DEF MoveAssign, TypeOK
<1>7. ASSUME NEW n \in Sizes, Drop(n) PROVE TypeOK'
      BY <1>0, <1>7, TrimType DEF Drop, TypeOK
<1>8. ASSUME NEW n \in Sizes, SetMaximumSize(n) PROVE TypeOK'
      BY <1>0, <1>8, TrimType DEF SetMaximumSize, TypeOK
<1>9. CASE Close
      BY <1>9, TrimType DEF Close, TypeOK
<1>10. CASE UNCHANGED vars
      BY <1>10 DEF vars, TypeOK
<1>11. QED
      BY <1>1, <1>2, <1>3, <1>4, <1>5, <1>6, <1>7, <1>8, <1>9, <1>10 DEF Next

(***************************************************************************)
(* The variables of the pool and of its handles keep their types.          *)
(***************************************************************************)
THEOREM PoolTypeCorrect == Spec => []TypeOK
<1>1. Init => TypeOK
      BY PoolAssumption DEF Init, TypeOK, NoPtr
<1>2. QED
      BY <1>1, NextTypeOK, PTL DEF Spec

-----------------------------------------------------------------------------
\* Each object has one owner

HandlesDiffer ==
  \A g, h \in Handles : ptr[g].object = ptr[h].object => g = h \/ ptr[g].object = Null

SlotsDiffer ==
  \A i, j \in 1 .. Len(freePool) : freePool[i] = freePool[j] => i = j \/ freePool[i] = Null

Accounted ==
  /\ Lent \cap Spare = {}
  /\ destroyed \cap (Lent \cup Spare) = {}
  /\ made = destroyed \cup Lent \cup Spare

\* A handle that does not exist holds nothing.
NoStrayObject == \A h \in Handles : ~ptr[h].live => ptr[h] = NoPtr

OwnerInv == TypeOK /\ HandlesDiffer /\ SlotsDiffer /\ Accounted /\ NoStrayObject

LEMMA OwnerInvIsOneOwner == OwnerInv <=> TypeOK /\ OneOwner /\ NoStrayObject
  BY DEF OwnerInv, OneOwner, HandlesDiffer, SlotsDiffer, Accounted

\* A slot either goes to the pool or, with its object, out of the world.
LEMMA UnlinkEffect ==
  ASSUME OwnerInv, NEW h \in Handles, Unlink(ptr[h])
  PROVE  /\ SlotsDiffer'
         /\ \/ Spare' = Spare \cup Real({ptr[h].object}) /\ destroyed' = destroyed
            \/ Spare' = Spare /\ destroyed' = destroyed \cup Real({ptr[h].object})
<1> DEFINE p == ptr[h].object
<1>1. /\ p \in Objects \cup {Null}
      /\ freePool \in Seq(Objects \cup {Null})
      /\ Len(freePool) \in Nat
      BY DEF OwnerInv, TypeOK
<1>2. p = Null \/ p \notin Slots(freePool)
      BY <1>1 DEF OwnerInv, Accounted, Lent, Spare, Real
<1>3. CASE freePool' = Append(freePool, p) /\ UNCHANGED destroyed
  <2>1. /\ Len(freePool') = Len(freePool) + 1
        /\ \A i \in 1 .. Len(freePool) : freePool'[i] = freePool[i]
        /\ freePool'[Len(freePool) + 1] = p
        BY <1>1, <1>3, AppendSlots
  <2>2. Slots(freePool') = Slots(freePool) \cup {p}
        BY <1>1, <2>1 DEF Slots
  <2>3. SlotsDiffer'
        BY <1>1, <1>2, <2>1 DEF OwnerInv, SlotsDiffer, Slots
  <2>4. QED
        BY <1>3, <2>2, <2>3 DEF Spare, Real
<1>4. CASE UNCHANGED freePool /\ destroyed' = destroyed \cup Real({p})
      BY <1>4 DEF OwnerInv, SlotsDiffer, Spare
<1>5. QED
      BY <1>3, <1>4 DEF Unlink

\* What a shrinking pool no longer keeps it has destroyed.
LEMMA TrimEffect ==
  ASSUME OwnerInv, NEW keep \in Nat, Trim(keep)
  PROVE  /\ SlotsDiffer'
         /\ Spare' \subseteq Spare
         /\ destroyed' = destroyed \cup (Spare \ Spare')
<1> DEFINE n == Smaller(keep, Len(freePool))
<1>1. /\ freePool \in Seq(Objects \cup {Null})
      /\ Len(freePool) \in Nat
      BY DEF OwnerInv, TypeOK
<1>2. /\ Len(freePool') = n
      /\ \A i \in 1 .. n : freePool'[i] = freePool[i]
      BY TrimType DEF OwnerInv
<1>3. /\ n \in 0 .. Len(freePool)
      /\ n <= keep
      /\ n = keep \/ (n = Len(freePool) /\ n < keep)
  <2>1. /\ n \in 0 .. Len(freePool)
        /\ n <= keep
        /\ n = keep \/ (n = Len(freePool) /\ Len(freePool) < keep)
        BY <1>1, SmallerIsLength
  <2>2. QED
        BY <2>1
<1> HIDE DEF n
<1>4. SlotsDiffer'
      BY <1>2, <1>3 DEF OwnerInv, SlotsDiffer
<1>5. Slots(freePool') = {freePool[i] : i \in 1 .. n}
      BY <1>2 DEF Slots
<1>6. Real(Slots(freePool)) \ Real(Slots(freePool'))
        = Real({freePool[i] : i \in (keep + 1) .. Len(freePool)})
  <2>1. \A i \in 1 .. Len(freePool) : i \in 1 .. n \/ i \in (keep + 1) .. Len(freePool)
        BY <1>1, <1>3
  <2>2. \A j \in (keep + 1) .. Len(freePool) :
          j \in 1 .. Len(freePool) /\ \A i \in 1 .. n : i # j /\ i \in 1 .. Len(freePool)
        BY <1>1, <1>3
  <2>3. ASSUME NEW j \in (keep + 1) .. Len(freePool), freePool[j] # Null
        PROVE  freePool[j] \in Slots(freePool) \ Slots(freePool')
        BY <1>3, <1>5, <2>2, <2>3 DEF OwnerInv, SlotsDiffer, Slots
  <2>4. ASSUME NEW i \in 1 .. Len(freePool), freePool[i] \notin Slots(freePool')
        PROVE  \E j \in (keep + 1) .. Len(freePool) : freePool[i] = freePool[j]
        BY <1>5, <2>1, <2>4
  <2>5. QED
        BY <2>3, <2>4 DEF Slots, Real
<1>7. Spare' \subseteq Spare
      BY <1>3, <1>5 DEF Spare, Slots, Real
<1>8. QED
      BY <1>4, <1>6, <1>7 DEF Trim, Spare

\* The five ways in which objects change places in a step.
PlacesStep ==
  \/ \E o \in Objects \ made :
       /\ Spare = {}
       /\ made' = made \cup {o} /\ Lent' = Lent \cup {o}
       /\ Spare' = Spare /\ destroyed' = destroyed
  \/ \E o \in Spare :
       /\ Lent' = Lent \cup {o} /\ Spare' = Spare \ {o}
       /\ made' = made /\ destroyed' = destroyed
  \/ \E o \in Lent :
       /\ Lent' = Lent \ {o} /\ Spare' = Spare \cup {o}
       /\ made' = made /\ destroyed' = destroyed
  \/ \E o \in Lent :
       /\ Lent' = Lent \ {o} /\ destroyed' = destroyed \cup {o}
       /\ made' = made /\ Spare' = Spare
  \/ /\ Spare' \subseteq Spare
     /\ destroyed' = destroyed \cup (Spare \ Spare')
     /\ made' = made /\ Lent' = Lent

LEMMA NullIsNoObject == Null \notin Lent /\ Null \notin Spare
  BY PoolAssumption DEF Lent, Spare, Real

LEMMA NextOwnerInv == OwnerInv /\ [Next]_vars => OwnerInv' /\ PlacesStep
<1> SUFFICES ASSUME OwnerInv, [Next]_vars PROVE OwnerInv' /\ PlacesStep
    OBVIOUS
<1>0. /\ TypeOK'
      /\ ptr \in [Handles -> [live : BOOLEAN, object : Objects \cup {Null}, pooled : BOOLEAN]]
      /\ Null \notin Objects
      /\ Sizes \subseteq Nat
      BY NextTypeOK, PoolAssumption DEF OwnerInv, TypeOK
<1> USE <1>0
<1>1. ASSUME NEW h \in Handles, Get(h) PROVE OwnerInv' /\ PlacesStep
  <2>1. CASE freePool = <<>>
    <3>1. PICK o \in Objects \ made : /\ made' = made \cup {o}
                                     /\ ptr' = [ptr EXCEPT ![h] = Pooled(o)]
                                     /\ UNCHANGED <<freePool, destroyed>>
          BY <1>1, <2>1 DEF Get
    <3>2. o \notin Lent /\ o \notin Spare /\ o \notin destroyed
          BY DEF OwnerInv, Accounted
    <3>3. ptr[h] = NoPtr
          BY <1>1 DEF Get, OwnerInv, NoStrayObject
    <3>4. HandlesDiffer' /\ NoStrayObject'
          BY <3>1, <3>2 DEF OwnerInv, HandlesDiffer, NoStrayObject, Lent, Pooled
    <3>5. Lent' = Lent \cup {o} /\ Spare' = Spare
          BY <3>1, <3>3 DEF Lent, Spare, Pooled, NoPtr
    <3>6. SlotsDiffer'
          BY <3>1 DEF OwnerInv, SlotsDiffer
    <3>7. Spare = {}
          BY <2>1 DEF Spare, Slots, Real
    <3>8. PlacesStep
          BY <3>1, <3>5, <3>7 DEF PlacesStep
    <3>9. QED
          BY <3>1, <3>2, <3>4, <3>5, <3>6, <3>8 DEF OwnerInv, Accounted
  <2>2. CASE freePool # <<>>
    <3> DEFINE n == Len(freePool)
               o == freePool[n]
    <3>1. /\ freePool \in Seq(Objects \cup {Null})
          /\ n \in Nat /\ n \in 1 .. n /\ n - 1 \in 0 .. n
          BY <2>2 DEF OwnerInv, TypeOK
    <3>2. /\ ptr' = [ptr EXCEPT ![h] = Pooled(o)]
          /\ freePool' = SubSeq(freePool, 1, n - 1)
          /\ UNCHANGED <<made, destroyed>>
          BY <1>1, <2>2 DEF Get
    <3>3. /\ Len(freePool') = n - 1
          /\ \A i \in 1 .. n - 1 : freePool'[i] = freePool[i]
          BY <3>1, <3>2, PrefixSlots
    <3>4. SlotsDiffer'
          BY <3>1, <3>3 DEF OwnerInv, SlotsDiffer
    <3>5. Slots(freePool) = Slots(freePool') \cup {o}
          BY <3>1, <3>3 DEF Slots
    <3>6. o = Null \/ o \notin Slots(freePool')
          BY <3>1, <3>3 DEF OwnerInv, SlotsDiffer, Slots
    <3>7. Spare' = Spare \ {o}
          BY <3>5, <3>6 DEF Spare, Real
    <3>8. o = Null \/ (o \in Spare /\ o \notin Lent)
          BY <3>5 DEF OwnerInv, Accounted, Spare, Real
    <3>9. ptr[h] = NoPtr
          BY <1>1 DEF Get, OwnerInv, NoStrayObject
    <3>10. HandlesDiffer' /\ NoStrayObject'
          BY <3>1, <3>2, <3>8 DEF OwnerInv, HandlesDiffer, NoStrayObject, Lent, Pooled
    <3>11. Lent' = Lent \cup Real({o})
          BY <3>1, <3>2, <3>9 DEF Lent, Pooled, NoPtr, Real
    <3>12. Accounted'
      <4>1. CASE o = Null
            BY <3>2, <3>7, <3>11, <4>1, NullIsNoObject DEF OwnerInv, Accounted, Real
      <4>2. CASE o # Null
            BY <3>2, <3>7, <3>8, <3>11, <4>2 DEF OwnerInv, Accounted, Real
      <4>3. QED
            BY <4>1, <4>2
    <3>13. PlacesStep
      <4>1. CASE o = Null
            BY <3>2, <3>7, <3>11, <4>1, NullIsNoObject DEF PlacesStep, Real
      <4>2. CASE o # Null
            BY <3>2, <3>7, <3>8, <3>11, <4>2 DEF PlacesStep, Real
      <4>3. QED
            BY <4>1, <4>2
    <3>14. QED
          BY <3>4, <3>10, <3>12, <3>13 DEF OwnerInv
  <2>3. QED
        BY <2>1, <2>2
<1>2. ASSUME NEW h \in Handles, Destroy(h) PROVE OwnerInv' /\ PlacesStep
  <2>1. /\ ptr' = [ptr EXCEPT ![h] = NoPtr]
        /\ UNCHANGED made
        BY <1>2 DEF Destroy
  <2>2. HandlesDiffer' /\ NoStrayObject'
        BY <2>1 DEF OwnerInv, HandlesDiffer, NoStrayObject, NoPtr
  <2>3. Lent' = Lent \ {ptr[h].object}
        BY <2>1 DEF OwnerInv, HandlesDiffer, Lent, NoPtr
  <2>4. ptr[h].object \in Lent \cup {Null}
        BY DEF Lent
  <2>5. /\ SlotsDiffer'
        /\ \/ Spare' = Spare \cup Real({ptr[h].object}) /\ destroyed' = destroyed
           \/ Spare' = Spare /\ destroyed' = destroyed \cup Real({ptr[h].object})
        BY <1>2, UnlinkEffect DEF Destroy
  <2>6. Accounted'
        BY <2>1, <2>3, <2>4, <2>5, NullIsNoObject DEF OwnerInv, Accounted, Real
  <2>7. PlacesStep
    <3>1. CASE ptr[h].object = Null
          BY <2>1, <2>3, <2>5, <3>1, NullIsNoObject DEF PlacesStep, Real
    <3>2. CASE ptr[h].object # Null
          BY <2>1, <2>3, <2>4, <2>5, <3>2 DEF PlacesStep, Real
    <3>3. QED
          BY <3>1, <3>2
  <2>8. QED
        BY <2>2, <2>5, <2>6, <2>7 DEF OwnerInv
<1>3. ASSUME NEW h \in Handles, Release(h) PROVE OwnerInv' /\ PlacesStep
  <2>1. Lent' = Lent /\ Spare' = Spare /\ made' = made /\ destroyed' = destroyed
        BY <1>3 DEF Release, Lent, Spare
  <2>2. HandlesDiffer' /\ SlotsDiffer' /\ NoStrayObject'
        BY <1>3 DEF Release, OwnerInv, HandlesDiffer, SlotsDiffer, NoStrayObject
  <2>3. QED
        BY <2>1, <2>2 DEF OwnerInv, Accounted, PlacesStep
<1>4. ASSUME NEW h \in Handles, SetPool(h) PROVE OwnerInv' /\ PlacesStep
  <2>1. Lent' = Lent /\ Spare' = Spare /\ made' = made /\ destroyed' = destroyed
        BY <1>4 DEF SetPool, Lent, Spare
  <2>2. HandlesDiffer' /\ SlotsDiffer' /\ NoStrayObject'
        BY <1>4 DEF SetPool, OwnerInv, HandlesDiffer, SlotsDiffer, NoStrayObject
  <2>3. QED
        BY <2>1, <2>2 DEF OwnerInv, Accounted, PlacesStep
<1>5. ASSUME NEW to \in Handles, NEW from \in Handles, MoveConstruct(to, from) PROVE OwnerInv' /\ PlacesStep
  <2>1. /\ ptr' = [ptr EXCEPT ![to] = ptr[from], ![from].object = Null]
        /\ to # from /\ ptr[from].live /\ ptr[to] = NoPtr
        /\ UNCHANGED <<freePool, made, destroyed>>
        BY <1>5 DEF MoveConstruct, OwnerInv, NoStrayObject
  <2>2. HandlesDiffer' /\ NoStrayObject'
        BY <2>1 DEF OwnerInv, HandlesDiffer, NoStrayObject
  <2>3. Lent' = Lent
        BY <2>1 DEF Lent, NoPtr
  <2>4. QED
        BY <2>1, <2>2, <2>3 DEF OwnerInv, SlotsDiffer, Accounted, Spare, PlacesStep
<1>6. ASSUME NEW to \in Handles, NEW from \in Handles, MoveAssign(to, from) PROVE OwnerInv' /\ PlacesStep
  <2>1. /\ ptr' = [ptr EXCEPT ![to] = ptr[from], ![from].object = Null]
        /\ to # from /\ ptr[from].live
        /\ UNCHANGED made
        BY <1>6 DEF MoveAssign
  <2>2. HandlesDiffer' /\ NoStrayObject'
        BY <2>1 DEF OwnerInv, HandlesDiffer, NoStrayObject
  <2>3. Lent' = Lent \ {ptr[to].object}
        BY <2>1 DEF OwnerInv, HandlesDiffer, Lent
  <2>4. ptr[to].object \in Lent \cup {Null}
        BY DEF Lent
  <2>5. /\ SlotsDiffer'
        /\ \/ Spare' = Spare \cup Real({ptr[to].object}) /\ destroyed' = destroyed
           \/ Spare' = Spare /\ destroyed' = destroyed \cup Real({ptr[to].object})
        BY <1>6, UnlinkEffect DEF MoveAssign
  <2>6. Accounted'
        BY <2>1, <2>3, <2>4, <2>5, NullIsNoObject DEF OwnerInv, Accounted, Real
  <2>7. PlacesStep
    <3>1. CASE ptr[to].object = Null
          BY <2>1, <2>3, <2>5, <3>1, NullIsNoObject DEF PlacesStep, Real
    <3>2. CASE ptr[to].object # Null
          BY <2>1, <2>3, <2>4, <2>5, <3>2 DEF PlacesStep, Real
    <3>3. QED
          BY <3>1, <3>2
  <2>8. QED
        BY <2>2, <2>5, <2>6, <2>7 DEF OwnerInv
<1>7. ASSUME NEW n \in Nat, Trim(n), UNCHANGED <<ptr, made>> PROVE OwnerInv' /\ PlacesStep
  <2>1. HandlesDiffer' /\ NoStrayObject' /\ Lent' = Lent
        BY <1>7 DEF OwnerInv, HandlesDiffer, NoStrayObject, Lent
  <2>2. QED
        BY <1>7, <2>1, TrimEffect DEF OwnerInv, Accounted, PlacesStep
<1>8. ASSUME NEW n \in Sizes, Drop(n) \/ SetMaximumSize(n) PROVE OwnerInv' /\ PlacesStep
      BY <1>7, <1>8 DEF Drop, SetMaximumSize
<1>9. CASE Close
      BY <1>7, <1>9 DEF Close
<1>10. CASE UNCHANGED vars
  <2>1. Lent' = Lent /\ Spare' = Spare /\ made' = made /\ destroyed' = destroyed
        BY <1>10 DEF vars, Lent, Spare
  <2>2. HandlesDiffer' /\ SlotsDiffer' /\ NoStrayObject'
        BY <1>10 DEF vars, OwnerInv, HandlesDiffer, SlotsDiffer, NoStrayObject
  <2>3. QED
        BY <2>1, <2>2 DEF OwnerInv, Accounted, PlacesStep
<1>11. QED
      BY <1>1, <1>2, <1>3, <1>4, <1>5, <1>6, <1>8, <1>9, <1>10 DEF Next

LEMMA InitOwnerInv == Init => OwnerInv
  BY PoolAssumption DEF Init, OwnerInv, TypeOK, HandlesDiffer, SlotsDiffer, Accounted,
     NoStrayObject, NoPtr, Lent, Spare, Slots, Real

(***************************************************************************)
(* No client is in two places, in use after it was destroyed, or lost.     *)
(***************************************************************************)
THEOREM ObjectsHaveOneOwner == Spec => []OneOwner
<1>1. OwnerInv => OneOwner
      BY OwnerInvIsOneOwner
<1>2. OwnerInv /\ [Next]_vars => OwnerInv'
      BY NextOwnerInv
<1>3. QED
      BY InitOwnerInv, <1>1, <1>2, PTL DEF Spec

-----------------------------------------------------------------------------
\* The pool implements ObjectLending

\* The status of an object is the place it is in.
LEMMA StatusIsPlace ==
  ASSUME OwnerInv
  PROVE  /\ Status \in [Objects -> {"unborn", "spare", "lent", "destroyed"}]
         /\ \A o \in Objects :
              /\ Status[o] = "unborn" <=> o \notin made
              /\ Status[o] = "spare" <=> o \in Spare
              /\ Status[o] = "lent" <=> o \in Lent
              /\ Status[o] = "destroyed" <=> o \in destroyed
  BY DEF OwnerInv, Accounted, Status

LEMMA PlacesStepIsLendingStep ==
  ASSUME OwnerInv, OwnerInv', PlacesStep
  PROVE  [Lending!Next]_Status
<1>1. /\ Status' \in [Objects -> {"unborn", "spare", "lent", "destroyed"}]
      /\ \A o \in Objects :
           /\ Status'[o] = "unborn" <=> o \notin made'
           /\ Status'[o] = "spare" <=> o \in Spare'
           /\ Status'[o] = "lent" <=> o \in Lent'
           /\ Status'[o] = "destroyed" <=> o \in destroyed'
      BY DEF OwnerInv, Accounted, Status
<1>2. /\ Lent \subseteq Objects /\ Spare \subseteq Objects
      /\ destroyed \subseteq Objects /\ made \subseteq Objects
      /\ Accounted
      BY DEF OwnerInv, TypeOK, Lent, Spare, Slots, Real
<1>3. Lending!Spares = Spare
      BY <1>2, StatusIsPlace DEF Lending!Spares
<1>4. ASSUME NEW o \in Objects \ made, Spare = {},
             made' = made \cup {o}, Lent' = Lent \cup {o}, Spare' = Spare, destroyed' = destroyed
      PROVE  Lending!Make(o)
      BY <1>1, <1>2, <1>3, <1>4, StatusIsPlace DEF Lending!Make, Accounted
<1>5. ASSUME NEW o \in Spare,
             Lent' = Lent \cup {o}, Spare' = Spare \ {o}, made' = made, destroyed' = destroyed
      PROVE  Lending!Lend(o)
      BY <1>1, <1>2, <1>5, StatusIsPlace DEF Lending!Lend, Accounted
<1>6. ASSUME NEW o \in Lent,
             Lent' = Lent \ {o}, Spare' = Spare \cup {o}, made' = made, destroyed' = destroyed
      PROVE  Lending!GiveBack(o)
      BY <1>1, <1>2, <1>6, StatusIsPlace DEF Lending!GiveBack, Accounted
<1>7. ASSUME NEW o \in Lent,
             Lent' = Lent \ {o}, destroyed' = destroyed \cup {o}, made' = made, Spare' = Spare
      PROVE  Lending!Discard(o)
      BY <1>1, <1>2, <1>7, StatusIsPlace DEF Lending!Discard, Accounted
<1>8. ASSUME Spare' \subseteq Spare, destroyed' = destroyed \cup (Spare \ Spare'),
             made' = made, Lent' = Lent
      PROVE  Lending!Trim(Spare \ Spare')
      BY <1>1, <1>2, <1>3, <1>8, StatusIsPlace DEF Lending!Trim, Accounted
<1>9. QED
      BY <1>2, <1>4, <1>5, <1>6, <1>7, <1>8 DEF PlacesStep, Lending!Next

(***************************************************************************)
(* Pool with its handles implements ObjectLending: in particular an object *)
(* is made only when there is no spare one.                                *)
(***************************************************************************)
THEOREM PoolLends == Spec => LendingSpec
<1>1. ASSUME Init PROVE Lending!Init
  <2>1. \A o \in Objects : Status[o] = "unborn"
        BY <1>1, InitOwnerInv, StatusIsPlace DEF Init
  <2>2. Status \in [Objects -> {"unborn", "spare", "lent", "destroyed"}]
        BY <1>1, InitOwnerInv, StatusIsPlace
  <2>3. QED
        BY <2>1, <2>2 DEF Lending!Init
<1>2. OwnerInv /\ [Next]_vars => OwnerInv' /\ [Lending!Next]_Status
      BY NextOwnerInv, PlacesStepIsLendingStep
<1>3. QED
      BY InitOwnerInv, <1>1, <1>2, PTL DEF Spec, LendingSpec, Lending!Spec

-----------------------------------------------------------------------------
\* The limit on spare objects

LEMMA NextSpareIsBounded == TypeOK /\ SpareIsBounded /\ [Next]_vars => SpareIsBounded'
<1> SUFFICES ASSUME TypeOK, SpareIsBounded, [Next]_vars PROVE SpareIsBounded'
    OBVIOUS
<1>0. /\ Sizes \subseteq Nat
      /\ freePool \in Seq(Objects \cup {Null})
      /\ Len(freePool) \in Nat
      /\ maxSpare \in Nat
      BY PoolAssumption DEF TypeOK
<1> USE <1>0 DEF SpareIsBounded
<1>1. ASSUME NEW h \in Handles, Get(h) PROVE SpareIsBounded'
  <2>1. CASE freePool = <<>>
        BY <1>1, <2>1 DEF Get
  <2>2. CASE freePool # <<>>
    <3>1. Len(freePool) - 1 \in 0 .. Len(freePool)
          BY <2>2
    <3>2. Len(SubSeq(freePool, 1, Len(freePool) - 1)) = Len(freePool) - 1
          BY <3>1, PrefixSlots
    <3>3. QED
          BY <1>1, <2>2, <3>2 DEF Get
  <2>3. QED
        BY <2>1, <2>2
<1>2. ASSUME NEW h \in Handles, Unlink(ptr[h]), maxSpare' = maxSpare PROVE SpareIsBounded'
  <2>1. ptr[h].object \in Objects \cup {Null}
        BY DEF TypeOK
  <2>2. Len(Append(freePool, ptr[h].object)) = Len(freePool) + 1
        BY <2>1, AppendSlots
  <2>3. QED
        BY <1>2, <2>2 DEF Unlink, HasRoom
<1>3. ASSUME NEW h \in Handles, Destroy(h) \/ Release(h) \/ SetPool(h) PROVE SpareIsBounded'
      BY <1>2, <1>3 DEF Destroy, Release, SetPool
<1>4. ASSUME NEW to \in Handles, NEW from \in Handles, MoveConstruct(to, from) \/ MoveAssign(to, from)
      PROVE  SpareIsBounded'
      BY <1>2, <1>4 DEF MoveConstruct, MoveAssign
<1>5. ASSUME NEW n \in Nat, Trim(n)
      PROVE  /\ Len(freePool') <= n
             /\ Len(freePool') <= Len(freePool)
             /\ Len(freePool') \in Nat
      BY <1>5, TrimType, SmallerIsLength
<1>6. ASSUME NEW n \in Sizes, Drop(n) PROVE SpareIsBounded'
      BY <1>5, <1>6 DEF Drop
<1>7. ASSUME NEW n \in Sizes, SetMaximumSize(n) PROVE SpareIsBounded'
      BY <1>5, <1>7 DEF SetMaximumSize
<1>8. CASE Close
      BY <1>5, <1>8 DEF Close
<1>9. CASE UNCHANGED vars
      BY <1>9 DEF vars
<1>10. QED
      BY <1>1, <1>3, <1>4, <1>6, <1>7, <1>8, <1>9 DEF Next

(***************************************************************************)
(* m_freePool never outgrows m_maxSpare, whoever changes it and when.      *)
(***************************************************************************)
THEOREM SpareNeverOutgrowsLimit == Spec => []SpareIsBounded
<1>1. Init => SpareIsBounded
      BY PoolAssumption DEF Init, SpareIsBounded
<1>2. QED
      BY <1>1, PoolTypeCorrect, NextSpareIsBounded, PTL DEF Spec

-----------------------------------------------------------------------------
\* The pool fills no slot by itself

SlotsStep ==
  \/ \E n \in 0 .. Len(freePool) : freePool' = SubSeq(freePool, 1, n)
  \/ \E h \in Handles : ptr[h].pooled /\ freePool' = Append(freePool, ptr[h].object)

LEMMA NextSlotsStep == TypeOK /\ [Next]_vars => SlotsStep
<1> SUFFICES ASSUME TypeOK, [Next]_vars PROVE SlotsStep
    OBVIOUS
<1>0. freePool \in Seq(Objects \cup {Null}) /\ Len(freePool) \in Nat /\ Sizes \subseteq Nat
      BY PoolAssumption DEF TypeOK
<1>1. ASSUME freePool' = freePool PROVE SlotsStep
  <2>1. SubSeq(freePool, 1, Len(freePool)) = freePool
        BY <1>0
  <2>2. Len(freePool) \in 0 .. Len(freePool)
        BY <1>0
  <2>3. QED
        BY <1>1, <2>1, <2>2 DEF SlotsStep
<1>2. ASSUME NEW h \in Handles, Unlink(ptr[h]) PROVE SlotsStep
      BY <1>1, <1>2 DEF Unlink, SlotsStep
<1>3. ASSUME NEW keep \in Nat, Trim(keep) PROVE SlotsStep
      BY <1>0, <1>3, SmallerIsLength DEF Trim, SlotsStep
<1>4. ASSUME NEW h \in Handles, Get(h) PROVE SlotsStep
  <2>1. CASE freePool # <<>> /\ freePool' = SubSeq(freePool, 1, Len(freePool) - 1)
    <3>1. Len(freePool) - 1 \in 0 .. Len(freePool)
          BY <1>0, <2>1
    <3>2. QED
          BY <2>1, <3>1 DEF SlotsStep
  <2>2. QED
        BY <1>1, <1>4, <2>1 DEF Get
<1>5. ASSUME NEW h \in Handles, Destroy(h) \/ Release(h) \/ SetPool(h) PROVE SlotsStep
      BY <1>1, <1>2, <1>5 DEF Destroy, Release, SetPool
<1>6. ASSUME NEW to \in Handles, NEW from \in Handles,
             MoveConstruct(to, from) \/ MoveAssign(to, from)
      PROVE  SlotsStep
      BY <1>1, <1>2, <1>6 DEF MoveConstruct, MoveAssign
<1>7. ASSUME NEW n \in Sizes, Drop(n) \/ SetMaximumSize(n) PROVE SlotsStep
      BY <1>0, <1>3, <1>7 DEF Drop, SetMaximumSize
<1>8. CASE Close
      BY <1>3, <1>8 DEF Close
<1>9. CASE UNCHANGED vars
      BY <1>1, <1>9 DEF vars
<1>10. QED
      BY <1>4, <1>5, <1>6, <1>7, <1>8, <1>9 DEF Next

(***************************************************************************)
(* Whatever sizes drop() and setMaximumSize() are given: resize() never    *)
(* adds a slot, and a slot holds what a handle gave back.                  *)
(***************************************************************************)
THEOREM PoolFillsNoSlot == Spec => SlotsComeFromHandles
<1>1. TypeOK /\ [Next]_vars => SlotsStep
      BY NextSlotsStep
<1>2. QED
      BY <1>1, PoolTypeCorrect, PTL DEF Spec, SlotsComeFromHandles, SlotsStep

-----------------------------------------------------------------------------
\* Without moves, get() gives an object

NoNull ==
  /\ \A i \in 1 .. Len(freePool) : freePool[i] # Null
  /\ \A h \in Handles : ptr[h].live => ptr[h].object # Null

LEMMA NextNoNull ==
  ASSUME ~Moves
  PROVE  TypeOK /\ NoNull /\ [Next]_vars =>
           NoNull' /\ \A h \in Handles : Get(h) => ptr'[h].object # Null
<1> SUFFICES ASSUME TypeOK, NoNull, [Next]_vars
    PROVE  NoNull' /\ \A h \in Handles : Get(h) => ptr'[h].object # Null
    OBVIOUS
<1>0. /\ Sizes \subseteq Nat /\ Null \notin Objects
      /\ freePool \in Seq(Objects \cup {Null})
      /\ Len(freePool) \in Nat
      /\ ptr \in [Handles -> [live : BOOLEAN, object : Objects \cup {Null}, pooled : BOOLEAN]]
      BY PoolAssumption DEF TypeOK
<1> USE <1>0
<1>1. ASSUME NEW h \in Handles, Get(h) PROVE NoNull' /\ ptr'[h].object # Null
  <2>1. CASE freePool = <<>>
        BY <1>1, <2>1 DEF Get, NoNull, Pooled
  <2>2. CASE freePool # <<>>
    <3>1. Len(freePool) \in 1 .. Len(freePool) /\ Len(freePool) - 1 \in 0 .. Len(freePool)
          BY <2>2
    <3>2. /\ ptr' = [ptr EXCEPT ![h] = Pooled(freePool[Len(freePool)])]
          /\ freePool' = SubSeq(freePool, 1, Len(freePool) - 1)
          BY <1>1, <2>2 DEF Get
    <3>3. \A i \in 1 .. Len(freePool') : i \in 1 .. Len(freePool) /\ freePool'[i] = freePool[i]
          BY <3>1, <3>2, PrefixSlots
    <3>4. QED
          BY <3>1, <3>2, <3>3 DEF NoNull, Pooled
  <2>3. QED
        BY <2>1, <2>2
<1>2. ASSUME NEW h \in Handles, Destroy(h) PROVE NoNull'
  <2>1. /\ ptr[h].live /\ ptr[h].object # Null
        /\ ptr' = [ptr EXCEPT ![h] = NoPtr]
        /\ Unlink(ptr[h])
        BY <1>2 DEF Destroy, NoNull
  <2>2. \A i \in 1 .. Len(freePool') : freePool'[i] # Null
        BY <2>1, AppendSlots DEF Unlink, NoNull
  <2>3. QED
        BY <2>1, <2>2 DEF NoNull, NoPtr
<1>3. ASSUME NEW h \in Handles, Release(h) \/ SetPool(h) PROVE NoNull'
      BY <1>3 DEF Release, SetPool, NoNull
<1>4. ASSUME NEW to \in Handles, NEW from \in Handles
      PROVE  ~MoveConstruct(to, from) /\ ~MoveAssign(to, from)
      BY DEF MoveConstruct, MoveAssign
<1>5. ASSUME NEW n \in Nat, Trim(n), ptr' = ptr PROVE NoNull'
  <2>1. /\ Len(freePool') = Smaller(n, Len(freePool))
        /\ \A i \in 1 .. Len(freePool') : freePool'[i] = freePool[i]
        BY <1>5, TrimType
  <2>2. \A i \in 1 .. Len(freePool') : i \in 1 .. Len(freePool)
        BY <2>1, SmallerIsLength
  <2>3. QED
        BY <1>5, <2>1, <2>2 DEF NoNull
<1>6. ASSUME NEW n \in Sizes, Drop(n) \/ SetMaximumSize(n) PROVE NoNull'
      BY <1>5, <1>6 DEF Drop, SetMaximumSize
<1>7. ASSUME Close PROVE NoNull'
      BY <1>5, <1>7 DEF Close
<1>8. ASSUME UNCHANGED vars PROVE NoNull'
      BY <1>8 DEF vars, NoNull
<1>9. QED
      BY <1>1, <1>2, <1>3, <1>4, <1>6, <1>7, <1>8 DEF Next

(***************************************************************************)
(* As long as no handle is moved from, get() always gives an object.       *)
(***************************************************************************)
THEOREM UnmovedGetGivesAnObject ==
  ASSUME ~Moves
  PROVE  Spec => GetGivesAnObject
<1>1. Init => NoNull
      BY DEF Init, NoNull, NoPtr
<1>2. TypeOK /\ NoNull /\ [Next]_vars =>
        NoNull' /\ [\A h \in Handles : Get(h) => ptr'[h].object # Null]_vars
      BY NextNoNull
<1>3. QED
      BY <1>1, <1>2, PoolTypeCorrect, PTL DEF Spec, GetGivesAnObject
=============================================================================
