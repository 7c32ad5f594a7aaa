--------------------------- MODULE CObjectsProofs ---------------------------
(***************************************************************************)
(* Proofs about CObjects.                                                  *)
(***************************************************************************)
EXTENDS CObjects, TLAPS

\* The part of TypeOK that is about the owners.
OwnersTyped ==
  /\ kind \in [Holders -> Kinds \cup {"none"}]
  /\ ptr \in [Holders -> 0 .. made]
  /\ made \in Nat
  /\ live \subseteq 1 .. made
  /\ twice \subseteq 1 .. made

\* Replacing the pointer of an owner by none, by a new object, or by one that
\* is known to be shared.
LEMMA ReplaceKeepsOwners ==
  ASSUME NEW h \in Holders, NEW p \in 0 .. New,
         OwnersTyped, OneOwner, Replace(h, p),
         p = 0 \/ p = New \/ p \in copied',
         copied \subseteq copied',
         kind' \in [Holders -> Kinds \cup {"none"}]
  PROVE  OwnersTyped' /\ OneOwner'
<1> DEFINE old == ptr[h]
<1>1. /\ made \in Nat
      /\ made' \in Nat
      /\ made <= made'
      /\ p \in 0 .. made'
      /\ p = New <=> made' # made
      /\ p = New => made' = New
      /\ New = made + 1
  BY DEF OwnersTyped, Replace, New
<1>2. /\ old \in 0 .. made
      /\ \A g \in Holders : ptr[g] \in 0 .. made
      /\ ptr'[h] = p
      /\ \A g \in Holders : g # h => ptr'[g] = ptr[g]
      /\ ptr' \in [Holders -> 0 .. made']
  <2>1. ptr' = [ptr EXCEPT ![h] = p] BY DEF Replace
  <2> QED BY <2>1, <1>1 DEF OwnersTyped
<1>3. /\ \A o \in live' : (o = New /\ p = New) \/ (o \in live /\ o # old)
      /\ \A o \in live : o = old \/ o \in live'
      /\ p = New => New \in live'
      /\ \A o \in twice' : o \in twice \/ (o = old /\ o # 0 /\ o \notin live)
  <2>1. live' = (live \ ({old} \ {0})) \cup ({p} \cap {New}) BY DEF Replace, Destroyed
  <2>2. twice' = twice \cup (({old} \ {0}) \ live) BY DEF Replace, Destroyed
  <2>3. \A o \in live : o # 0 BY DEF OwnersTyped
  <2>4. p = New => p # old BY <1>1, <1>2
  <2>5. \A o \in live : o = old \/ o \in live' BY <2>1
  <2>6. ASSUME NEW o \in live' PROVE (o = New /\ p = New) \/ (o \in live /\ o # old)
    BY <2>1, <2>3, <2>6
  <2>7. p = New => New \in live' BY <2>1
  <2>8. ASSUME NEW o \in twice' PROVE o \in twice \/ (o = old /\ o # 0 /\ o \notin live)
    <3>1. o \in twice \/ o \in ({old} \ {0}) \ live BY <2>2, <2>8
    <3> QED BY <3>1
  <2> QED BY <2>5, <2>6, <2>7, <2>8
<1>4. OwnersTyped'
  <2>1. live' \subseteq 1 .. made'
    <3> SUFFICES ASSUME NEW o \in live' PROVE o \in 1 .. made' OBVIOUS
    <3>1. CASE o = New /\ p = New BY <1>1, <3>1
    <3>2. CASE o \in live
      <4>1. o \in 1 .. made BY <3>2 DEF OwnersTyped
      <4> QED BY <1>1, <4>1
    <3> QED BY <1>3, <3>1, <3>2
  <2>2. twice' \subseteq 1 .. made'
    <3> SUFFICES ASSUME NEW o \in twice' PROVE o \in 1 .. made' OBVIOUS
    <3>1. o \in twice \/ (o = old /\ o # 0) BY <1>3
    <3>2. o \in 1 .. made
      <4>1. CASE o \in twice BY <4>1 DEF OwnersTyped
      <4>2. CASE o = old /\ o # 0
        <5> HIDE DEF old
        <5> QED BY <1>1, <1>2, <4>2
      <4> QED BY <3>1, <4>1, <4>2
    <3> QED BY <1>1, <3>2
  <2> QED BY <1>1, <1>2, <2>1, <2>2 DEF OwnersTyped
<1>5. ASSUME NEW o \in 1 .. made' \ copied'
      PROVE  /\ \A f, g \in Holders : ptr'[f] = o /\ ptr'[g] = o => f = g
             /\ o \in live' <=> \E g \in Holders : ptr'[g] = o
             /\ o \notin twice'
  <2>1. CASE p = o
    <3>1. o = New /\ o \notin 0 .. made BY <1>1, <2>1, <1>5
    <3>2. o \notin twice /\ o # old BY <3>1, <1>1, <1>2 DEF OwnersTyped
    <3> QED BY <1>2, <1>3, <2>1, <3>1, <3>2
  <2>2. CASE p # o
    <3>1. o \in 1 .. made \ copied BY <1>1, <1>5, <2>2
    <3>2. /\ \A f, g \in Holders : ptr[f] = o /\ ptr[g] = o => f = g
          /\ o \in live <=> \E g \in Holders : ptr[g] = o
          /\ o \notin twice
      BY <3>1 DEF OneOwner
    <3>3. CASE o = old
      BY <1>1, <1>2, <1>3, <2>2, <3>1, <3>2, <3>3
    <3>4. CASE o # old
      BY <1>1, <1>2, <1>3, <2>2, <3>1, <3>2, <3>4
    <3> QED BY <3>3, <3>4
  <2> QED BY <2>1, <2>2
<1> QED BY <1>4, <1>5 DEF OneOwner

LEMMA NextOwners == OwnersTyped /\ OneOwner /\ [Next]_vars => OwnersTyped' /\ OneOwner'
<1> SUFFICES ASSUME OwnersTyped, OneOwner, [Next]_vars PROVE OwnersTyped' /\ OneOwner'
  OBVIOUS
<1> USE DEF OwnersTyped
<1>0. 0 \in 0 .. New /\ New \in 0 .. New /\ \A g \in Holders : ptr[g] \in 0 .. New
  BY DEF New
<1>1. ASSUME NEW h \in Holders, Construct(h) PROVE OwnersTyped' /\ OneOwner'
  <2>1. PICK k \in Kinds : \E p \in Initial(k) : kind' = [kind EXCEPT ![h] = k] /\ Replace(h, p)
    BY <1>1 DEF Construct
  <2>2. PICK p \in {0, New} : kind' = [kind EXCEPT ![h] = k] /\ Replace(h, p)
    BY <2>1 DEF Initial
  <2>3. kind' \in [Holders -> Kinds \cup {"none"}] BY <2>2
  <2>4. copied' = copied BY <1>1 DEF Construct
  <2> QED BY <1>0, <2>2, <2>3, <2>4, ReplaceKeepsOwners
<1>2. ASSUME NEW h \in Holders, Destruct(h) PROVE OwnersTyped' /\ OneOwner'
  <2>1. kind' \in [Holders -> Kinds \cup {"none"}] BY <1>2 DEF Destruct
  <2> QED BY <1>0, <1>2, <2>1, ReplaceKeepsOwners DEF Destruct
<1>3. ASSUME NEW h \in Holders, Assign(h) PROVE OwnersTyped' /\ OneOwner'
  <2>1. PICK p \in {0, New} : Replace(h, p) BY <1>3 DEF Assign
  <2>2. kind' = kind /\ copied' = copied BY <1>3 DEF Assign
  <2> QED BY <1>0, <2>1, <2>2, ReplaceKeepsOwners
<1>4. ASSUME NEW h \in Holders, NEW g \in Holders, AssignOwned(h, g)
      PROVE  OwnersTyped' /\ OneOwner'
  BY <1>0, <1>4, ReplaceKeepsOwners DEF AssignOwned
<1>5. ASSUME NEW h \in Holders, NEW g \in Holders, Copy(h, g)
      PROVE  OwnersTyped' /\ OneOwner'
  <2>1. /\ kind' = [kind EXCEPT ![h] = kind[g]]
        /\ ptr' = [ptr EXCEPT ![h] = ptr[g]]
        /\ copied' = copied \cup {ptr[h], ptr[g]}
        /\ made' = made /\ live' = live /\ twice' = twice
    BY <1>5 DEF Copy
  <2>2. OwnersTyped' BY <2>1
  <2>3. ASSUME NEW o \in 1 .. made \ copied'
        PROVE  \A f \in Holders : ptr'[f] = o <=> ptr[f] = o
    BY <2>1, <2>3
  <2>4. 1 .. made \ copied' \subseteq 1 .. made \ copied BY <2>1
  <2>5. OneOwner' BY <2>1, <2>3, <2>4 DEF OneOwner
  <2> QED BY <2>2, <2>5
<1>6. ASSUME NEW h \in Holders, NEW ext \in Hashes, CreateForOther(h, ext)
      PROVE  OwnersTyped' /\ OneOwner'
  BY <1>0, <1>6, ReplaceKeepsOwners DEF CreateForOther
<1>7. ASSUME NEW h \in Holders, NEW ext \in Hashes, CreateForDevice(h, ext)
      PROVE  OwnersTyped' /\ OneOwner'
  BY <1>7 DEF CreateForDevice, OneOwner
<1>8. CASE UNCHANGED vars
  BY <1>8 DEF vars, OneOwner
<1> QED BY <1>1, <1>2, <1>3, <1>4, <1>5, <1>6, <1>7, <1>8 DEF Next

\* However many wrappers there are and in whatever order they are constructed,
\* assigned, copied and destroyed: an object that no two of them were made to
\* share has one owner as long as it lives, and is destroyed once
\* (MlmObjGuard, ZConfig and fty_uuid_t).
THEOREM ObjectsAreDestroyedOnce == Spec => []OneOwner
<1>1. Init => OwnersTyped /\ OneOwner
  BY DEF Init, OwnersTyped, OneOwner
<1> QED BY <1>1, NextOwners, PTL DEF Spec

-----------------------------------------------------------------------------
\* Bounds

\* What TypeOK says beside OwnersTyped and TextInv.
Bounded ==
  /\ made <= MaxObjects
  /\ copied \subseteq 0 .. made
  /\ \A h \in Holders : kind[h] \in {"config", "uuid"} => ptr[h] # 0

LEMMA NextBounded == OwnersTyped /\ Bounded /\ [Next]_vars => Bounded'
<1> SUFFICES ASSUME OwnersTyped, Bounded, [Next]_vars PROVE Bounded'
  OBVIOUS
<1> USE DEF OwnersTyped
<1>1. ASSUME NEW h \in Holders, NEW p \in 0 .. New, Replace(h, p),
             \/ copied' = copied
             \/ p \in 0 .. made /\ copied' = copied \cup {p},
             p = 0 => kind'[h] \notin {"config", "uuid"},
             \A g \in Holders : g # h => kind'[g] = kind[g]
      PROVE  Bounded'
  <2>1. /\ ptr' = [ptr EXCEPT ![h] = p]
        /\ made' \in Nat /\ made <= made'
        /\ made' <= MaxObjects
    BY <1>1, ObjectsAssumption DEF Replace, New, Bounded
  <2>2. copied' \subseteq 0 .. made'
    <3>1. copied' \subseteq 0 .. made BY <1>1 DEF Bounded
    <3> QED BY <2>1, <3>1
  <2> QED BY <1>1, <2>1, <2>2 DEF Bounded
<1>2. /\ 0 \in 0 .. New /\ New \in 0 .. New /\ New # 0
      /\ \A g \in Holders : ptr[g] \in 0 .. New /\ ptr[g] \in 0 .. made
  BY DEF New
<1>3. ASSUME NEW h \in Holders, Construct(h) PROVE Bounded'
  <2>0. PICK k \in Kinds : \E p \in Initial(k) : kind' = [kind EXCEPT ![h] = k] /\ Replace(h, p)
    BY <1>3 DEF Construct
  <2>1. PICK p \in Initial(k) : kind' = [kind EXCEPT ![h] = k] /\ Replace(h, p)
    BY <2>0
  <2>2. p \in {0, New} /\ (p = 0 => k = "guard") BY <1>2 DEF Initial
  <2>3. copied' = copied BY <1>3 DEF Construct
  <2>4. kind'[h] = k /\ \A g \in Holders : g # h => kind'[g] = kind[g] BY <2>1
  <2> QED BY <1>1, <1>2, <2>1, <2>2, <2>3, <2>4
<1>4. ASSUME NEW h \in Holders, Destruct(h) PROVE Bounded'
  <2>1. kind'[h] = "none" /\ \A g \in Holders : g # h => kind'[g] = kind[g]
    BY <1>4 DEF Destruct
  <2> QED BY <1>1, <1>2, <1>4, <2>1 DEF Destruct
<1>5. ASSUME NEW h \in Holders, Assign(h) PROVE Bounded'
  <2>1. PICK p \in {0, New} : Replace(h, p) BY <1>5 DEF Assign
  <2> QED BY <1>1, <1>2, <1>5, <2>1 DEF Assign
<1>6. ASSUME NEW h \in Holders, NEW g \in Holders, AssignOwned(h, g) PROVE Bounded'
  BY <1>1, <1>2, <1>6 DEF AssignOwned
<1>7. ASSUME NEW h \in Holders, NEW g \in Holders, Copy(h, g) PROVE Bounded'
  BY <1>7 DEF Copy, Bounded
<1>8. ASSUME NEW h \in Holders, NEW ext \in Hashes, CreateForOther(h, ext) PROVE Bounded'
  BY <1>1, <1>2, <1>8 DEF CreateForOther
<1>9. ASSUME NEW h \in Holders, NEW ext \in Hashes, CreateForDevice(h, ext) PROVE Bounded'
  BY <1>9 DEF CreateForDevice, Bounded
<1>10. CASE UNCHANGED vars
  BY <1>10 DEF vars, Bounded
<1> QED BY <1>3, <1>4, <1>5, <1>6, <1>7, <1>8, <1>9, <1>10 DEF Next

-----------------------------------------------------------------------------
\* Texts

Texted == [in : 0 .. made, type : {"device", "other"}, ext : Hashes]

\* An fty_uuid_t owns its zuuid_t, and the text it gave for a known asset is
\* there, or the constant.
TextIsRight(h) ==
  /\ text[h].type # "none" => kind[h] = "uuid" /\ text[h].in \in {0, ptr[h]}
  /\ text[h].type = "other" => text[h].in = ptr[h] /\ value[ptr[h]] = Random(ptr[h])
  /\ text[h].type = "device" /\ Promised(text[h]) =>
       IF DOMAIN text[h].ext = Attributes
         THEN text[h].in = ptr[h] /\ value[ptr[h]] = Calculated(text[h].ext)
         ELSE text[h].in = 0

TextInv ==
  /\ value \in [0 .. MaxObjects -> Uuids]
  /\ value[0] = Incomplete
  /\ text \in [Holders -> Texted \cup {NoText}]
  /\ \A h \in Holders : kind[h] = "uuid" => ptr[h] \in live \ copied
  /\ \A h \in Holders : TextIsRight(h)

LEMMA HashesAreFunctions ==
  ASSUME NEW ext \in Hashes
  PROVE  /\ ext = [k \in DOMAIN ext |-> ext[k]]
         /\ DOMAIN ext \subseteq Attributes
<1>1. CASE ext \in Maps
  <2>1. PICK keys \in SUBSET Attributes : ext \in [keys -> Texts]
    BY <1>1, ObjectsAssumption
  <2> QED BY <2>1
<1>2. CASE \E map \in Maps : ext = MapToZhash(map)
  <2>1. PICK map \in Maps : ext = MapToZhash(map) BY <1>2
  <2>2. PICK keys \in SUBSET Attributes : map \in [keys -> Texts]
    BY ObjectsAssumption
  <2> QED BY <2>1, <2>2 DEF MapToZhash
<1> QED BY <1>1, <1>2 DEF Hashes

\* The hash of a caller with texts of its own is read as it is.
LEMMA FoundIsKnown ==
  ASSUME NEW ext \in Hashes, \A k \in DOMAIN ext : ext[k] # Gone,
         NEW f \in Found(ext)
  PROVE  f = ext
<1>1. /\ f \in [DOMAIN ext -> Texts]
      /\ \A k \in DOMAIN ext : ext[k] \in {f[k], Gone}
  BY DEF Found
<1>2. ext = [k \in DOMAIN ext |-> ext[k]] BY HashesAreFunctions
<1>3. \A k \in DOMAIN ext : f[k] = ext[k] BY <1>1
<1> QED BY <1>1, <1>2, <1>3

LEMMA CalculatedType ==
  ASSUME NEW ext \in Hashes, NEW f \in Found(ext), DOMAIN f = Attributes
  PROVE  Calculated(f) \in Uuids
<1>1. f \in [DOMAIN ext -> Texts] BY DEF Found
<1>2. /\ f["manufacturer"] \in Seq(STRING)
      /\ f["model"] \in Seq(STRING)
      /\ f["serial_no"] \in Seq(STRING)
  BY <1>1, ObjectsAssumption DEF Attributes
<1>3. Identity(f) \in Seq(STRING) BY <1>2 DEF Identity
<1> QED BY <1>3 DEF Calculated, Uuids

\* An fty_uuid_t whose object and text are left alone keeps its text.
LEMMA UntouchedTextIsRight ==
  ASSUME NEW h \in Holders, TextIsRight(h),
         UNCHANGED <<text[h], ptr[h], kind[h], value[ptr[h]]>>
  PROVE  TextIsRight(h)'
BY DEF TextIsRight, Promised, Calculated, Identity

\* Replacing the pointer of an owner leaves those of every fty_uuid_t else alone.
LEMMA ReplaceKeepsTexts ==
  ASSUME NEW h \in Holders, NEW p \in 0 .. New, Replace(h, p),
         OwnersTyped, OneOwner, Bounded, TextInv,
         \A g \in Holders \ {h} : kind'[g] = kind[g],
         kind'[h] = "uuid" => p = New,
         copied' = copied \/ \E g \in Holders : kind[g] # "uuid" /\ copied' = copied \cup {ptr[g]},
         NEW t, text' = [text EXCEPT ![h] = t],
         t = NoText \/ (t \in Texted' /\ TextIsRight(h)')
  PROVE  TextInv'
<1>1. /\ made \in Nat /\ made' \in Nat /\ made <= made'
      /\ ptr' = [ptr EXCEPT ![h] = p]
      /\ p = New => made' = New /\ New \in 1 .. MaxObjects /\ New \in live'
      /\ live \ {ptr[h]} \subseteq live'
  <2>1. made \in Nat /\ New \in Nat \ {0} /\ made <= New BY DEF OwnersTyped, New
  <2>2. p = New => New <= MaxObjects /\ made' = New BY DEF Replace
  <2>3. p # New => made' = made BY DEF Replace
  <2>4. live' = (live \ Destroyed(h)) \cup ({p} \cap {New}) BY DEF Replace
  <2>5. Destroyed(h) \subseteq {ptr[h]} BY DEF Destroyed
  <2>6. made' \in Nat /\ made <= made' BY <2>1, <2>2, <2>3
  <2>7. p = New => New \in 1 .. MaxObjects BY <2>1, <2>2, ObjectsAssumption
  <2>8. live \ {ptr[h]} \subseteq live' /\ (p = New => New \in live') BY <2>4, <2>5
  <2>9. ptr' = [ptr EXCEPT ![h] = p] BY DEF Replace
  <2> QED BY <2>1, <2>2, <2>6, <2>7, <2>8, <2>9
<1>2. /\ value' \in [0 .. MaxObjects -> Uuids]
      /\ \A o \in 0 .. made : value'[o] = value[o]
  <2>1. CASE p = New
    <3>1. Random(p) \in Uuids BY <1>1, <2>1 DEF Random, Uuids
    <3>2. value' = [value EXCEPT ![p] = Random(p)] BY <2>1 DEF Replace
    <3>3. \A o \in 0 .. made : o # p BY <1>1, <2>1 DEF New
    <3>4. value' \in [0 .. MaxObjects -> Uuids] BY <3>1, <3>2 DEF TextInv
    <3>5. \A o \in 0 .. made : o \in 0 .. MaxObjects BY ObjectsAssumption DEF OwnersTyped, Bounded
    <3> QED BY <3>2, <3>3, <3>4, <3>5 DEF TextInv
  <2>2. CASE p # New BY <2>2 DEF Replace, TextInv
  <2> QED BY <2>1, <2>2
<1>3. value'[0] = Incomplete BY <1>1, <1>2 DEF TextInv
<1>4. ASSUME NEW g \in Holders, kind'[g] = "uuid" PROVE ptr'[g] \in live' \ copied'
  <2>1. CASE g = h
    <3>1. p = New /\ ptr'[g] = New /\ New \in live' BY <1>1, <1>4, <2>1 DEF OwnersTyped
    <3>2. New \notin 0 .. made BY <1>1 DEF New
    <3>3. New \notin copied' BY <3>2 DEF Bounded, OwnersTyped
    <3> QED BY <3>1, <3>3
  <2>2. CASE g # h
    <3>1. ptr'[g] = ptr[g] /\ kind[g] = "uuid" BY <1>1, <1>4, <2>2 DEF OwnersTyped
    <3>2. ptr[g] \in live \ copied /\ ptr[g] \in 1 .. made BY <3>1 DEF TextInv, OwnersTyped
    <3>3. \A f \in Holders : ptr[f] = ptr[g] => f = g BY <3>2 DEF OneOwner
    <3>4. ptr[g] # ptr[h] /\ ptr[g] \notin copied' BY <2>2, <3>1, <3>2, <3>3
    <3> QED BY <1>1, <3>1, <3>2, <3>4
  <2> QED BY <2>1, <2>2
<1>5. /\ text' \in [Holders -> Texted' \cup {NoText}]
      /\ text'[h] = t
      /\ \A g \in Holders \ {h} : text'[g] = text[g]
  <2>1. Texted \subseteq Texted' BY <1>1 DEF Texted
  <2> QED BY <2>1 DEF TextInv
<1>6. ASSUME NEW g \in Holders PROVE TextIsRight(g)'
  <2>1. CASE g = h
    <3>1. t = NoText => TextIsRight(h)' BY <1>5 DEF TextIsRight, NoText
    <3> QED BY <2>1, <3>1
  <2>2. CASE g # h
    <3>1. ptr'[g] = ptr[g] /\ ptr[g] \in 0 .. made BY <1>1, <2>2 DEF OwnersTyped
    <3>2. UNCHANGED <<text[g], ptr[g], kind[g], value[ptr[g]]>> BY <1>2, <1>5, <2>2, <3>1
    <3> QED BY <3>2, UntouchedTextIsRight DEF TextInv
  <2> QED BY <2>1, <2>2
<1> QED BY <1>2, <1>3, <1>4, <1>5, <1>6 DEF TextInv

LEMMA NextTextInv ==
  OwnersTyped /\ OneOwner /\ Bounded /\ TextInv /\ [Next]_vars => TextInv'
<1> SUFFICES ASSUME OwnersTyped, OneOwner, Bounded, TextInv, [Next]_vars PROVE TextInv'
  OBVIOUS
<1>1. /\ 0 \in 0 .. New /\ New \in 0 .. New
      /\ \A g \in Holders : ptr[g] \in 0 .. New /\ ptr[g] \in 0 .. made
  BY DEF OwnersTyped, New
<1>2. ASSUME NEW h \in Holders, kind[h] # "uuid"
      PROVE  text[h] = NoText /\ text = [text EXCEPT ![h] = NoText]
  BY <1>2 DEF TextInv, TextIsRight, Texted
<1>3. \A g \in Holders : \A f \in Holders :
        kind[g] = "uuid" /\ ptr[f] = ptr[g] => f = g
  BY DEF TextInv, OwnersTyped, OneOwner
<1>4. ASSUME NEW h \in Holders, Construct(h) PROVE TextInv'
  <2>1. PICK k \in Kinds : \E p \in Initial(k) : kind' = [kind EXCEPT ![h] = k] /\ Replace(h, p)
    BY <1>4 DEF Construct
  <2>2. PICK p \in Initial(k) : kind' = [kind EXCEPT ![h] = k] /\ Replace(h, p) BY <2>1
  <2>3. p \in 0 .. New /\ (k = "uuid" => p = New) BY <1>1, <2>2 DEF Initial
  <2>4. text' = text /\ copied' = copied /\ kind[h] = "none" BY <1>4 DEF Construct
  <2>5. kind'[h] = k /\ \A g \in Holders \ {h} : kind'[g] = kind[g] BY <2>2 DEF OwnersTyped
  <2> QED BY <1>2, <2>2, <2>3, <2>4, <2>5, ReplaceKeepsTexts
<1>5. ASSUME NEW h \in Holders, Destruct(h) PROVE TextInv'
  <2>1. kind' = [kind EXCEPT ![h] = "none"] /\ Replace(h, 0) /\ copied' = copied
    BY <1>5 DEF Destruct
  <2>2. kind'[h] = "none" /\ \A g \in Holders \ {h} : kind'[g] = kind[g] BY <2>1 DEF OwnersTyped
  <2>3. text' = [text EXCEPT ![h] = NoText] BY <1>5 DEF Destruct
  <2> QED BY <1>1, <2>1, <2>2, <2>3, ReplaceKeepsTexts
<1>6. ASSUME NEW h \in Holders, Assign(h) PROVE TextInv'
  <2>1. PICK p \in {0, New} : Replace(h, p) BY <1>6 DEF Assign
  <2>2. kind[h] = "guard" /\ UNCHANGED <<kind, copied, text>> BY <1>6 DEF Assign
  <2> QED BY <1>1, <1>2, <2>1, <2>2, ReplaceKeepsTexts
<1>7. ASSUME NEW h \in Holders, NEW g \in Holders, AssignOwned(h, g) PROVE TextInv'
  BY <1>1, <1>2, <1>7, ReplaceKeepsTexts DEF AssignOwned
<1>8. ASSUME NEW h \in Holders, NEW ext \in Hashes, CreateForOther(h, ext) PROVE TextInv'
  <2>1. Replace(h, New) /\ kind[h] = "uuid" /\ UNCHANGED <<kind, copied>>
    BY <1>8 DEF CreateForOther
  <2>2. text' = [text EXCEPT ![h] = [in |-> New, type |-> "other", ext |-> ext]]
    BY <1>8 DEF CreateForOther, Return
  <2>3. text'[h] = [in |-> New, type |-> "other", ext |-> ext]
    BY <2>2 DEF TextInv
  <2>4. /\ ptr'[h] = New /\ made' = New /\ New \in 0 .. New /\ New \in 0 .. MaxObjects
        /\ value'[New] = Random(New)
    BY <2>1, ObjectsAssumption DEF Replace, OwnersTyped, New, TextInv
  <2>5. text'[h] \in Texted' BY <1>1, <2>3, <2>4 DEF Texted
  <2>6. TextIsRight(h)' BY <2>1, <2>3, <2>4 DEF TextIsRight, Random
  <2> QED BY <1>1, <2>1, <2>2, <2>3, <2>5, <2>6, ReplaceKeepsTexts
<1>9. ASSUME NEW h \in Holders, NEW ext \in Hashes, CreateForDevice(h, ext) PROVE TextInv'
  <2>1. PICK f \in Found(ext) :
          IF DOMAIN f = Attributes
            THEN value' = Set(h, f) /\ Return(h, ptr[h], "device", ext)
            ELSE Return(h, 0, "device", ext) /\ UNCHANGED value
    BY <1>9 DEF CreateForDevice
  <2>2. kind[h] = "uuid" /\ UNCHANGED <<kind, ptr, made, live, copied>>
    BY <1>9 DEF CreateForDevice
  <2>3. /\ ptr[h] \in live \ copied
        /\ ptr[h] \in 1 .. MaxObjects /\ ptr[h] \in 0 .. made
    BY <1>1, <2>2, ObjectsAssumption DEF TextInv, OwnersTyped, Bounded
  <2>4. DOMAIN f = DOMAIN ext BY DEF Found
  <2>5. PICK o \in {0, ptr[h]} :
          /\ text' = [text EXCEPT ![h] = [in |-> o, type |-> "device", ext |-> ext]]
          /\ o = IF DOMAIN ext = Attributes THEN ptr[h] ELSE 0
    BY <2>1, <2>4 DEF Return
  <2>6. /\ text'[h] = [in |-> o, type |-> "device", ext |-> ext]
        /\ \A g \in Holders \ {h} : text'[g] = text[g]
        /\ text' \in [Holders -> Texted' \cup {NoText}]
    <3>1. Texted' = Texted BY <2>2 DEF Texted
    <3>2. [in |-> o, type |-> "device", ext |-> ext] \in Texted BY <1>1, <2>3, <2>5 DEF Texted, OwnersTyped
    <3> QED BY <2>5, <3>1, <3>2 DEF TextInv
  <2>7. \/ value' = value
        \/ value' = [value EXCEPT ![ptr[h]] = Calculated(f)] /\ Calculated(f) \in Uuids
    BY <2>1, CalculatedType DEF Set
  <2>8. /\ value' \in [0 .. MaxObjects -> Uuids]
        /\ value'[0] = Incomplete
        /\ \A i \in 0 .. MaxObjects : i # ptr[h] => value'[i] = value[i]
    <3>1. value \in [0 .. MaxObjects -> Uuids] /\ value[0] = Incomplete BY DEF TextInv
    <3>2. ptr[h] # 0 /\ ptr[h] \in 0 .. MaxObjects BY <2>3
    <3>3. CASE value' = value BY <3>1, <3>3
    <3>4. ASSUME NEW u \in Uuids, value' = [value EXCEPT ![ptr[h]] = u]
          PROVE  /\ value' \in [0 .. MaxObjects -> Uuids]
                 /\ value'[0] = Incomplete
                 /\ \A i \in 0 .. MaxObjects : i # ptr[h] => value'[i] = value[i]
      <4>1. value' \in [0 .. MaxObjects -> Uuids] BY <3>1, <3>4
      <4>2. \A i \in 0 .. MaxObjects : i # ptr[h] => value'[i] = value[i] BY <3>1, <3>4
      <4>3. 0 \in 0 .. MaxObjects BY ObjectsAssumption
      <4> QED BY <3>1, <3>2, <4>1, <4>2, <4>3
    <3> QED BY <2>7, <3>3, <3>4
  <2>9. TextIsRight(h)'
    <3>1. Promised(text'[h]) /\ DOMAIN ext = Attributes => value'[ptr[h]] = Calculated(ext)
      <4> SUFFICES ASSUME Promised(text'[h]), DOMAIN ext = Attributes
                   PROVE  value'[ptr[h]] = Calculated(ext)
        OBVIOUS
      <4>1. \A k \in DOMAIN ext : ext[k] # Gone BY <2>6 DEF Promised
      <4>2. f = ext BY <4>1, FoundIsKnown
      <4>3. value' = [value EXCEPT ![ptr[h]] = Calculated(ext)] BY <2>1, <2>4, <4>2 DEF Set
      <4> QED BY <2>3, <4>3 DEF TextInv
    <3>2. Promised(text[h])' => Promised(text'[h]) BY DEF Promised
    <3> QED BY <2>2, <2>5, <2>6, <3>1, <3>2 DEF TextIsRight, Calculated, Identity
  <2>10. ASSUME NEW g \in Holders, g # h PROVE TextIsRight(g)'
    <3>1. CASE kind[g] = "uuid"
      <4>1. ptr[g] # ptr[h] /\ ptr[g] \in 0 .. MaxObjects
        BY <1>1, <1>3, <2>2, <2>10, <3>1, ObjectsAssumption DEF Bounded, OwnersTyped
      <4>2. UNCHANGED <<text[g], ptr[g], kind[g], value[ptr[g]]>> BY <2>2, <2>6, <2>8, <2>10, <4>1
      <4> QED BY <2>2, <4>2, UntouchedTextIsRight DEF TextInv, OwnersTyped
    <3>2. CASE kind[g] # "uuid"
      <4>1. text'[g] = NoText BY <1>2, <2>6, <2>10, <3>2
      <4> QED BY <4>1 DEF TextIsRight, NoText
    <3> QED BY <3>1, <3>2
  <2> QED BY <2>2, <2>6, <2>8, <2>9, <2>10 DEF TextInv
<1>10. ASSUME NEW h \in Holders, NEW g \in Holders, Copy(h, g) PROVE TextInv'
  <2>1. /\ kind[g] # "uuid" /\ kind[h] # "uuid"
        /\ kind' = [kind EXCEPT ![h] = kind[g]]
        /\ ptr' = [ptr EXCEPT ![h] = ptr[g]]
        /\ copied' = copied \cup {ptr[h], ptr[g]}
        /\ UNCHANGED <<made, live, value, text>>
    BY <1>10 DEF Copy
  <2>2. \A f \in Holders \ {h} : kind'[f] = kind[f] /\ ptr'[f] = ptr[f]
    BY <2>1 DEF OwnersTyped
  <2>3. kind'[h] # "uuid" BY <2>1 DEF OwnersTyped
  <2>4. ASSUME NEW f \in Holders, kind'[f] = "uuid" PROVE ptr'[f] \in live' \ copied'
    <3>1. f # h /\ kind[f] = "uuid" /\ ptr'[f] = ptr[f] BY <2>2, <2>3, <2>4
    <3>2. ptr[f] # ptr[h] /\ ptr[f] # ptr[g] BY <1>3, <2>1, <3>1
    <3> QED BY <2>1, <3>1, <3>2 DEF TextInv
  <2>5. ASSUME NEW f \in Holders PROVE TextIsRight(f)'
    <3>1. CASE f = h
      <4>1. text'[h] = NoText BY <1>2, <2>1
      <4> QED BY <3>1, <4>1 DEF TextIsRight, NoText
    <3>2. CASE f # h
      <4>1. UNCHANGED <<text[f], ptr[f], kind[f], value[ptr[f]]>> BY <2>1, <2>2, <3>2
      <4> QED BY <2>1, <4>1, UntouchedTextIsRight DEF TextInv, OwnersTyped
    <3> QED BY <3>1, <3>2
  <2>6. Texted' = Texted BY <2>1 DEF Texted
  <2> QED BY <2>1, <2>4, <2>5, <2>6 DEF TextInv
<1>11. CASE UNCHANGED vars
  BY <1>11 DEF vars, TextInv, TextIsRight, Texted, Promised, Calculated, Identity
<1> QED BY <1>4, <1>5, <1>6, <1>7, <1>8, <1>9, <1>10, <1>11 DEF Next

LEMMA TextInvMeansTold == OwnersTyped /\ OneOwner /\ TextInv => TextsTellAssetsApart
<1> SUFFICES ASSUME OwnersTyped, OneOwner, TextInv, NEW h \in Holders, text[h].type # "none"
             PROVE  /\ text[h].in \in live \cup {0}
                    /\ \A g \in Holders \ {h} : Promised(text[h]) /\ Promised(text[g]) =>
                         (value[text[h].in] = value[text[g].in] <=> SameAsset(text[h], text[g]))
  BY DEF TextsTellAssetsApart
<1>1. text[h].in \in live \cup {0} BY DEF TextInv, TextIsRight
\* What a promised text is.
<1>2. ASSUME NEW f \in Holders, Promised(text[f])
      PROVE  /\ text[f].type \in {"device", "other"}
             /\ text[f].type = "other" =>
                  value[text[f].in] = [version |-> 4, of |-> ptr[f]]
             /\ text[f].type = "device" /\ DOMAIN text[f].ext = Attributes =>
                  value[text[f].in] = [version |-> 5, of |-> Identity(text[f].ext)]
             /\ text[f].type = "device" /\ DOMAIN text[f].ext # Attributes =>
                  value[text[f].in] = Incomplete
  <2>1. TextIsRight(f) /\ value[0] = Incomplete BY DEF TextInv
  <2>2. text[f].type \in {"device", "other"} BY <1>2 DEF Promised
  <2> QED BY <1>2, <2>1, <2>2 DEF TextIsRight, Random, Calculated
<1>3. ASSUME NEW g \in Holders \ {h}, Promised(text[h]), Promised(text[g])
      PROVE  value[text[h].in] = value[text[g].in] <=> SameAsset(text[h], text[g])
  <2>1. ptr[h] # ptr[g]
    <3>1. kind[h] = "uuid" BY DEF TextInv, TextIsRight
    <3>2. ptr[h] \in 1 .. made \ copied BY <3>1 DEF TextInv, OwnersTyped
    <3> QED BY <1>3, <3>2 DEF OneOwner
  <2> DEFINE read(f) == value[text[f].in]
             full(f) == DOMAIN text[f].ext = Attributes
  <2>2. \A f \in {h, g} :
          /\ text[f].type \in {"device", "other"}
          /\ text[f].type = "other" => read(f) = [version |-> 4, of |-> ptr[f]]
          /\ text[f].type = "device" /\ full(f) =>
               read(f) = [version |-> 5, of |-> Identity(text[f].ext)]
          /\ text[f].type = "device" /\ ~full(f) => read(f) = Incomplete
    BY <1>2, <1>3
  <2>3. CASE text[h].type = "device" /\ text[g].type = "device"
    <3>1. SameAsset(text[h], text[g]) <=>
            /\ full(h) <=> full(g)
            /\ full(h) => Identity(text[h].ext) = Identity(text[g].ext)
      BY <2>3 DEF SameAsset
    <3> HIDE DEF full
    <3>2. CASE full(h) /\ full(g)
      <4>1. read(h) = read(g) <=> Identity(text[h].ext) = Identity(text[g].ext)
        <5>1. /\ read(h) = [version |-> 5, of |-> Identity(text[h].ext)]
              /\ read(g) = [version |-> 5, of |-> Identity(text[g].ext)]
          BY <2>2, <2>3, <3>2
        <5> QED BY <5>1
      <4> QED BY <3>1, <3>2, <4>1
    <3>3. CASE ~(full(h) <=> full(g))
      <4>1. \A f \in {h, g} : read(f).version = 5 <=> full(f) BY <2>2, <2>3 DEF Incomplete
      <4>2. read(h) # read(g) BY <3>3, <4>1
      <4> QED BY <3>1, <3>3, <4>2
    <3>4. CASE ~full(h) /\ ~full(g)
      BY <2>2, <2>3, <3>1, <3>4
    <3> QED BY <3>2, <3>3, <3>4
  <2>4. CASE text[h].type = "other" /\ text[g].type = "other"
    <3>1. read(h).of = ptr[h] /\ read(g).of = ptr[g] BY <2>2, <2>4
    <3> QED BY <2>1, <2>4, <3>1 DEF SameAsset
  <2>5. CASE text[h].type # text[g].type
    <3>1. \A f \in {h, g} : read(f).version = 4 <=> text[f].type = "other"
      <4> HIDE DEF full
      <4> QED BY <2>2 DEF Incomplete
    <3> QED BY <2>2, <2>5, <3>1 DEF SameAsset
  <2> QED BY <2>2, <2>3, <2>4, <2>5
<1> QED BY <1>1, <1>3

LEMMA ObjectsInv == Spec => [](OwnersTyped /\ OneOwner /\ Bounded /\ TextInv)
<1>1. Init => OwnersTyped /\ OneOwner /\ Bounded
  BY ObjectsAssumption DEF Init, OwnersTyped, OneOwner, Bounded
<1>2. Init => TextInv
  <2> SUFFICES ASSUME Init PROVE TextInv
    OBVIOUS
  <2>1. Incomplete \in Uuids /\ 0 \in 0 .. MaxObjects BY ObjectsAssumption DEF Uuids
  <2>2. \A h \in Holders : text[h] = NoText /\ kind[h] = "none" BY DEF Init
  <2> QED BY <2>1, <2>2 DEF Init, TextInv, TextIsRight, NoText
<1> QED BY <1>1, <1>2, NextOwners, NextBounded, NextTextInv, PTL DEF Spec

\* For any assets, any number of fty_uuid_t and any use of other wrappers: the
\* text fty_uuid_create() returned can be read until the fty_uuid_t is used again,
\* and tells assets apart as long, however often the zuuid_t behind it was set or
\* replaced before.
THEOREM TextsStayAndTellAssetsApart == Spec => []TextsTellAssetsApart
BY ObjectsInv, TextInvMeansTold, PTL

-----------------------------------------------------------------------------
\* Types

\* Every variable of CObjects keeps its type, and no ZConfig or fty_uuid_t ever
\* holds a null pointer.
THEOREM ObjectsTypeCorrect == Spec => []TypeOK
<1>1. OwnersTyped /\ Bounded /\ TextInv => TypeOK
  <2> SUFFICES ASSUME OwnersTyped, Bounded, TextInv PROVE TypeOK
    OBVIOUS
  <2>1. made \in 0 .. MaxObjects BY ObjectsAssumption DEF OwnersTyped, Bounded
  <2>2. text \in [Holders -> Texted \cup {NoText}] BY DEF TextInv, TextIsRight
  <2> QED BY <2>1, <2>2 DEF TypeOK, OwnersTyped, Bounded, TextInv, Texted
<1> QED BY <1>1, ObjectsInv, PTL
=============================================================================
