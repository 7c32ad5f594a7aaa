------------------------------ MODULE CObjects ------------------------------
(***************************************************************************)
(* The wrappers of C objects. MlmObjGuard, ZConfig and fty_uuid_t each own *)
(* an object of CZMQ through a raw pointer: an mlm_client_t, a zconfig_t,  *)
(* a zuuid_t. fty_uuid_create() gives an asset its uuid, by the attributes *)
(* in a zhash_t, which MlmUtils makes of a std::map, and returns a pointer *)
(* into the zuuid_t: the caller reads there what is there when it reads.   *)
(*                                                                         *)
(* Objects are numbered as they are made, 0 is the null pointer. A value   *)
(* of an attribute is a sequence of letters: what matters is what          *)
(* concatenates to what.                                                   *)
(***************************************************************************)
EXTENDS Integers, Sequences

CONSTANTS
  Holders,     \* where the process may have a wrapper
  Texts,       \* the values an asset's attributes can have
  Maps,        \* the attributes of some assets
  Gone,        \* the value in a zhash_t that points to freed memory
  MaxObjects   \* bound: objects made in a behaviour

Attributes == {"manufacturer", "model", "serial_no"}

ASSUME ObjectsAssumption ==
  /\ Texts \subseteq Seq(STRING)
  /\ Maps \subseteq UNION {[keys -> Texts] : keys \in SUBSET Attributes}
  /\ Gone \notin Texts
  /\ MaxObjects \in Nat

VARIABLES
  kind,    \* the wrapper at each place, if any
  ptr,     \* its ptr_, m_ptrConfig or uuid
  made,    \* number of objects made so far
  live,    \* those that are not destroyed
  twice,   \* those that were destroyed again
  copied,  \* history: those in a wrapper that was copied from or to
  value,   \* what is read in each zuuid_t; at 0, a constant
  text     \* what fty_uuid_create() last returned with each fty_uuid_t: a
           \* pointer into an object, and for which asset

vars == <<kind, ptr, made, live, twice, copied, value, text>>

Kinds == {"guard", "config", "uuid"}

\* The object that is made next.
New == made + 1

\* zuuid_new() makes a random uuid, of version 4.
Random(o) == [version |-> 4, of |-> o]

Incomplete == [version |-> 15, of |-> "ffffffff-ffff-ffff-ffff-ffffffffffff"]

NoText == [in |-> 0, type |-> "none", ext |-> <<>>]

Init ==
  /\ kind = [h \in Holders |-> "none"]
  /\ ptr = [h \in Holders |-> 0]
  /\ made = 0
  /\ live = {}
  /\ twice = {}
  /\ copied = {}
  /\ value = [o \in 0 .. MaxObjects |-> Incomplete]
  /\ text = [h \in Holders |-> NoText]

-----------------------------------------------------------------------------
\* Owners

\* Mutant: what the pointer pointed to is not destroyed.
NotDestroyed(h) == {}

\* The destructors of CZMQ let a null pointer be.
Destroyed(h) == {ptr[h]} \ {0}

\* What h points to is destroyed, then h points to p, which may be new.
Replace(h, p) ==
  /\ New <= MaxObjects \/ p # New
  /\ ptr' = [ptr EXCEPT ![h] = p]
  /\ made' = IF p = New THEN New ELSE made
  /\ live' = (live \ Destroyed(h)) \cup ({p} \cap {New})
  /\ twice' = twice \cup (Destroyed(h) \ live)
  /\ value' = IF p = New THEN [value EXCEPT ![p] = Random(p)] ELSE value

\* Mutant: what zconfig_load() returns is not checked.
LoadedUnchecked(k) == IF k = "uuid" THEN {New} ELSE {0, New}

\* What a wrapper is constructed with: a guard with any pointer or none; a
\* ZConfig with a file that can be read, or its constructor throws.
Initial(k) == IF k = "guard" THEN {0, New} ELSE {New}

Construct(h) ==
  /\ kind[h] = "none"
  /\ \E k \in Kinds : \E p \in Initial(k) :
       /\ kind' = [kind EXCEPT ![h] = k]
       /\ Replace(h, p)
  /\ UNCHANGED <<copied, text>>

\* The destructors, and fty_uuid_destroy().
Destruct(h) ==
  /\ kind[h] # "none"
  /\ kind' = [kind EXCEPT ![h] = "none"]
  /\ Replace(h, 0)
  /\ text' = [text EXCEPT ![h] = NoText]
  /\ UNCHANGED copied

\* operator=(T*) with a pointer nobody owns, or none.
Assign(h) ==
  /\ kind[h] = "guard"
  /\ \E p \in {0, New} : Replace(h, p)
  /\ UNCHANGED <<kind, copied, text>>

\* operator=(T*) with what a guard's get() returned. If it is the guard's own,
\* what it points to then has just been destroyed.
AssignOwned(h, g) ==
  /\ kind[h] = "guard"
  /\ kind[g] = "guard"
  /\ Replace(h, ptr[g])
  /\ copied' = copied \cup {ptr[g]}
  /\ UNCHANGED <<kind, text>>

\* The compiler's copies destroy nothing: operator=() of a guard or a ZConfig,
\* and the copy constructor of a ZConfig. (That of a guard is deleted.)
Copy(h, g) ==
  /\ kind[g] \in {"guard", "config"}
  /\ \/ kind[h] = kind[g]
     \/ kind[h] = "none" /\ kind[g] = "config"
  /\ kind' = [kind EXCEPT ![h] = kind[g]]
  /\ ptr' = [ptr EXCEPT ![h] = ptr[g]]
  /\ copied' = copied \cup {ptr[h], ptr[g]}
  /\ UNCHANGED <<made, live, twice, value, text>>

-----------------------------------------------------------------------------
\* fty_uuid_create()

\* The hash refers to the texts of the parameter, a copy of the caller's map
\* that is gone when map_to_zhash() returns.
MapToZhash(map) == [k \in DOMAIN map |-> Gone]

\* What callers pass as ext: texts of their own, or a converted map.
Hashes == Maps \cup {MapToZhash(map) : map \in Maps}

\* What zhash_lookup() may find: of freed memory, anything.
Found(ext) == {f \in [DOMAIN ext -> Texts] : \A k \in DOMAIN ext : ext[k] \in {f[k], Gone}}

Identity(f) == f["manufacturer"] \o f["model"] \o f["serial_no"]

\* The SHA1 of the values, one after the other, as a uuid of version 5.
Calculated(f) == [version |-> 5, of |-> Identity(f)]

Return(h, o, type, ext) ==
  text' = [text EXCEPT ![h] = [in |-> o, type |-> type, ext |-> ext]]

\* Mutant: the zuuid_t is not set.
NotSet(h, f) == value

Set(h, f) == [value EXCEPT ![ptr[h]] = Calculated(f)]

\* fty_uuid_calculate(): if all attributes are there, the zuuid_t is set and its
\* text returned, or else a constant.
CreateForDevice(h, ext) ==
  /\ kind[h] = "uuid"
  /\ \E f \in Found(ext) :
       IF DOMAIN f = Attributes
         THEN value' = Set(h, f) /\ Return(h, ptr[h], "device", ext)
         ELSE Return(h, 0, "device", ext) /\ UNCHANGED value
  /\ UNCHANGED <<kind, ptr, made, live, twice, copied>>

\* fty_uuid_generate(): the attributes are looked up, and not used.
CreateForOther(h, ext) ==
  /\ kind[h] = "uuid"
  /\ Replace(h, New)
  /\ Return(h, New, "other", ext)
  /\ UNCHANGED <<kind, copied>>

Next ==
  \/ \E h \in Holders :
       \/ Construct(h)
       \/ Destruct(h)
       \/ Assign(h)
       \/ \E ext \in Hashes : CreateForDevice(h, ext) \/ CreateForOther(h, ext)
  \/ \E h, g \in Holders : AssignOwned(h, g) \/ Copy(h, g)

Spec == Init /\ [][Next]_vars

-----------------------------------------------------------------------------
\* Properties

Uuids ==
  [version : {4}, of : 1 .. MaxObjects] \cup [version : {5}, of : Seq(STRING)] \cup {Incomplete}

\* Every variable has its type; a ZConfig and an fty_uuid_t never hold a null
\* pointer, which their methods do not expect.
TypeOK ==
  /\ kind \in [Holders -> Kinds \cup {"none"}]
  /\ ptr \in [Holders -> 0 .. made]
  /\ \A h \in Holders : kind[h] \in {"config", "uuid"} => ptr[h] # 0
  /\ made \in 0 .. MaxObjects
  /\ live \subseteq 1 .. made
  /\ twice \subseteq 1 .. made
  /\ copied \subseteq 0 .. made
  /\ value \in [0 .. MaxObjects -> Uuids]
  /\ text \in [Holders -> [in : 0 .. made, type : {"device", "other"}, ext : Hashes] \cup {NoText}]

\* Unless the user lets wrappers share an object, it lives as long as one
\* wrapper points to it: the last does not leave it behind, none points to what
\* was destroyed, and it is destroyed once.
OneOwner ==
  \A o \in 1 .. made \ copied :
    /\ \A h, g \in Holders : ptr[h] = o /\ ptr[g] = o => h = g
    /\ o \in live <=> \E h \in Holders : ptr[h] = o
    /\ o \notin twice

\* What the comment of fty_uuid_create() and its code say alike: no attribute is
\* one of map_to_zhash(), and it is not a complete asset that is no device.
Promised(t) ==
  \/ t.type = "device" /\ \A k \in DOMAIN t.ext : t.ext[k] # Gone
  \/ t.type = "other" /\ DOMAIN t.ext # Attributes

SameAsset(t, u) ==
  /\ t.type = "device"
  /\ u.type = "device"
  /\ DOMAIN t.ext = Attributes <=> DOMAIN u.ext = Attributes
  /\ DOMAIN t.ext = Attributes => Identity(t.ext) = Identity(u.ext)

\* Whatever is done meanwhile with other wrappers, and whatever an fty_uuid_t was
\* used for before, the text that fty_uuid_create() returned with it can be read
\* until its next use, and two such texts are equal just if they are for devices
\* whose attributes concatenate to the same, or that both lack some.
TextsTellAssetsApart ==
  \A h \in Holders : text[h].type # "none" =>
    /\ text[h].in \in live \cup {0}
    /\ \A g \in Holders \ {h} : Promised(text[h]) /\ Promised(text[g]) =>
         (value[text[h].in] = value[text[g].in] <=> SameAsset(text[h], text[g]))
=============================================================================
