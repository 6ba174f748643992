------------------------------ MODULE DeviceBanks ------------------------------
(***************************************************************************)
(* Board devices: how BoardData lays out their fields in typed banks of    *)
(* the segment, how a field of an instance is found again, and the host    *)
(* and the sketch that load, store and lock the fields.                    *)
(*                                                                         *)
(* A name is a natural number: only equality and order matter.             *)
(***************************************************************************)
EXTENDS Integers, Sequences, FiniteSets, Functions

CONSTANTS
    Configs,       \* what board_devices may be: sequences of [spec, count]
    Known,         \* the specifications the host and the sketch were generated for
    LongNames,     \* the names of more than 32 characters
    Probes,        \* what is asked for with as_opt: <<device, field>>
    Values,        \* bound: the integers stored
    MaxCount,      \* bound: the instances of a device
    HostThreads,   \* threads of the host
    SketchThreads, \* threads of the sketch
    NoOne          \* the owner of a mutex that is free

Actors == HostThreads \cup SketchThreads

FieldTypes == <<"u8", "u16", "u32", "u64", "s8", "s16", "s32", "s64", "f32", "f64",
                "au8", "au16", "au32", "au64", "as8", "as16", "as32", "as64",
                "af32", "af64", "mutex">>

\* Signed fields live in the bank of the unsigned type of their width.
BankTypes == <<"u8", "u16", "u32", "u64", "f32", "f64",
               "au8", "au16", "au32", "au64", "af32", "af64", "mutex">>
Bank(t) == CASE t = "s8" -> "u8"    [] t = "s16" -> "u16"
             [] t = "s32" -> "u32"  [] t = "s64" -> "u64"
             [] t = "as8" -> "au8"  [] t = "as16" -> "au16"
             [] t = "as32" -> "au32" [] t = "as64" -> "au64"
             [] OTHER -> t
Banks == Range(BankTypes)

VARIABLES
    config,     \* board_devices
    phase,      \* "count", "insert": loops of BoardData(); "ready"; "terminated"
    dev,        \* the device the loop is at
    it,         \* its iterator over the specification
    bases,      \* needed, then bases: an index per bank
    banks,      \* the banks: a function on 0 .. size - 1 each
    deviceMap,  \* device_map
    last,       \* history: what was last stored in a field of an instance
    waits,      \* waits[a]: the mutex thread a is in lock() of, or <<>>
    sketchUp,   \* the sketch has not been killed
    wild        \* an access outside the banks has happened

layout == <<config, phase, dev, it, bases, deviceMap>>
bankVars == <<layout, banks, last, waits, sketchUp, wild>>

-----------------------------------------------------------------------------
(* Specifications. A native one is a sequence of quoted tokens (name,      *)
(* version, fields), a synthetic one has a map of fields.                  *)

IsNative(s) == s.kind = "native"
Name(s) == IF IsNative(s) THEN s.tokens[1] ELSE s.name

\* An iterator: what is left of the fields.
Begin(s) == IF IsNative(s) THEN 3 .. Len(s.tokens) ELSE DOMAIN s.fields

\* The field an iterator may be at, and the next iterator; a map has no order.
At(s, i) == IF IsNative(s)
            THEN {[field |-> s.tokens[p], next |-> i \ {p}] : p \in {q \in i : \A r \in i : q <= r}}
            ELSE {[field |-> [name |-> n, type |-> s.fields[n]], next |-> i \ {n}] : n \in i}

\* What smce_bindgen_host makes of the fields; the length it looks at is not that
\* of the field's name.
BindGenAccepts(s) == \A p \in Begin(s) : s.tokens[p].type \in Range(FieldTypes)

\* The members of the generated class: from names to types.
Class(s) == IF IsNative(s)
            THEN [n \in {s.tokens[p].name : p \in Begin(s)} |->
                     s.tokens[CHOOSE p \in Begin(s) : s.tokens[p].name = n].type]
            ELSE s.fields

-----------------------------------------------------------------------------
(* BoardData()                                                             *)

NoBases == [b \in Banks |-> 0]
NoFields == [n \in {} |-> ""]
NoDevices == [d \in {} |-> [fields |-> NoFields, count |-> 0, bases |-> NoBases]]

BankInit ==
    /\ config \in {c \in Configs :
          \A i \in DOMAIN c : IsNative(c[i].spec) => BindGenAccepts(c[i].spec)}
    /\ phase = "count" /\ dev = 0 /\ it = {}
    /\ bases = NoBases
    /\ banks = [b \in Banks |-> [i \in {} |-> 0]]
    /\ deviceMap = NoDevices
    /\ last = [r \in {} |-> 0]
    /\ waits = [a \in Actors |-> <<>>]
    /\ sketchUp = TRUE
    /\ wild = FALSE

Current == config[dev].spec
Count == config[dev].count

\* Both loops count the elements of a field of every instance.
Needs(t) == [bases EXCEPT ![Bank(t)] = @ + Count]

AtEnd == it = {}
More == dev < Len(config)
StartDevice == dev' = dev + 1 /\ it' = Begin(config[dev + 1].spec)

CountDevice ==
    /\ phase = "count" /\ AtEnd /\ More
    /\ StartDevice
    /\ UNCHANGED <<config, phase, bases, deviceMap, banks, last, waits, sketchUp, wild>>

CountField ==
    /\ phase = "count" /\ ~AtEnd
    /\ \E x \in At(Current, it) : bases' = Needs(x.field.type) /\ it' = x.next
    /\ UNCHANGED <<config, phase, dev, deviceMap, banks, last, waits, sketchUp, wild>>

Zero(b) == IF b = "mutex" THEN NoOne ELSE 0

ResizeBanks ==
    /\ phase = "count" /\ AtEnd /\ ~More
    /\ banks' = [b \in Banks |-> [i \in 0 .. bases[b] - 1 |-> Zero(b)]]
    /\ bases' = NoBases
    /\ phase' = "insert" /\ dev' = 0 /\ it' = {}
    /\ UNCHANGED <<config, deviceMap, last, waits, sketchUp, wild>>

\* emplace() leaves a device of that name alone, also its bases.
InsertDevice ==
    /\ phase = "insert" /\ AtEnd /\ More
    /\ StartDevice
    /\ LET d == config[dev + 1]  n == Name(d.spec) IN
       IF n \in LongNames
       THEN phase' = "terminated" /\ UNCHANGED deviceMap
       ELSE /\ deviceMap' = [m \in DOMAIN deviceMap \cup {n} |->
                  IF m \in DOMAIN deviceMap THEN deviceMap[m]
                  ELSE [fields |-> NoFields, count |-> d.count, bases |-> bases]]
            /\ UNCHANGED phase
    /\ UNCHANGED <<config, bases, banks, last, waits, sketchUp, wild>>

InsertField ==
    /\ phase = "insert" /\ ~AtEnd
    /\ \E x \in At(Current, it) :
          IF x.field.name \in LongNames
          THEN phase' = "terminated" /\ UNCHANGED <<it, bases, deviceMap>>
          ELSE /\ deviceMap' = [deviceMap EXCEPT ![Name(Current)].fields =
                     [m \in DOMAIN @ \cup {x.field.name} |-> IF m \in DOMAIN @ THEN @[m] ELSE x.field.type]]
               /\ bases' = Needs(x.field.type)
               /\ it' = x.next
               /\ UNCHANGED phase
    /\ UNCHANGED <<config, dev, banks, last, waits, sketchUp, wild>>

Constructed ==
    /\ phase = "insert" /\ AtEnd /\ ~More
    /\ phase' = "ready"
    /\ UNCHANGED <<config, dev, it, bases, deviceMap, banks, last, waits, sketchUp, wild>>

-----------------------------------------------------------------------------
(* VirtualDevices, VirtualDeviceField                                      *)

DeviceCount(d) == IF d \in DOMAIN deviceMap THEN deviceMap[d].count ELSE 0

SameBank(d, n) == {m \in DOMAIN deviceMap[d].fields :
                      Bank(deviceMap[d].fields[m]) = Bank(deviceMap[d].fields[n])}

\* A variant of Base: the fields before it are counted in all banks.
Base_AllBefore(d, i, n) ==
    deviceMap[d].bases[Bank(deviceMap[d].fields[n])] + Cardinality(SameBank(d, n)) * i
        + Cardinality({m \in DOMAIN deviceMap[d].fields : m < n})

\* m_base: the fields of one instance stay together in a bank, ordered by name.
Base(d, i, n) ==
    deviceMap[d].bases[Bank(deviceMap[d].fields[n])] + Cardinality(SameBank(d, n)) * i
        + Cardinality({m \in SameBank(d, n) : m < n})

\* A field that is not found leaves m_base as it was, uninitialized.
Found(d, n) == n \in DOMAIN deviceMap[d].fields

\* as_<type>() looks in the bank of the type asked for, unchecked.
Inside(d, i, n, t) == Found(d, n) /\ Base(d, i, n) \in DOMAIN banks[Bank(t)]

Signed == {"s8", "s16", "s32", "s64", "as8", "as16", "as32", "as64"}
\* How many values the integers of a type's width have.
Span(t) == CASE t \in {"u8", "s8", "au8", "as8"} -> 2^8
             [] t \in {"u16", "s16", "au16", "as16"} -> 2^16
             [] t \in {"u32", "s32", "au32", "as32"} -> 2^32
             [] OTHER -> 2^32 * 2^32
Real == {"f32", "f64", "af32", "af64"}

AsUnsigned(t, v) == IF t \in Real THEN v ELSE v % Span(t)

\* A variant of AsSigned: no conversion back.
AsSigned_None(t, u) == u

AsSigned(t, u) == IF t \in Signed /\ u >= Span(t) \div 2 THEN u - Span(t) ELSE u

Up(a) == a \in SketchThreads => sketchUp

\* An object of a generated class: instance i of the device.
Objects(a, s) == IF phase = "ready" /\ Up(a) /\ waits[a] = <<>>
                 THEN 0 .. DeviceCount(Name(s)) - 1 ELSE {}

\* The class knows the fields and their types by itself.
Access(a, s, i, n, P(_, _)) ==
    LET t == Class(s)[n]  d == Name(s) IN
    /\ i \in Objects(a, s)
    /\ IF Inside(d, i, n, t) THEN P(t, Base(d, i, n)) /\ UNCHANGED wild
       ELSE wild' = TRUE /\ UNCHANGED <<banks, last, waits>>
    /\ UNCHANGED <<layout, sketchUp>>

Put(ref, b, k, stored, asked) ==
    /\ banks' = [banks EXCEPT ![b][k] = stored]
    /\ last' = [r \in DOMAIN last \cup {ref} |-> IF r = ref THEN asked ELSE last[r]]

Store(a, s, i, n) == \E v \in Values : Class(s)[n] # "mutex" /\
    LET P(t, k) == Put(<<Name(s), i, n>>, Bank(t), k, AsUnsigned(t, v), v) /\ UNCHANGED waits
    IN Access(a, s, i, n, P)

\* lock() spins without a time limit; try_lock() gives up. Whoever calls lock()
\* owns no other mutex: the caller's duty.
OwnsNone(a) == \A r \in DOMAIN last : last[r] # a
Lock(a, s, i, n) == Class(s)[n] = "mutex" /\ OwnsNone(a) /\
    LET P(t, k) == IF banks[Bank(t)][k] = NoOne
                   THEN Put(<<Name(s), i, n>>, Bank(t), k, a, a) /\ UNCHANGED waits
                   ELSE waits' = [waits EXCEPT ![a] = <<Name(s), i, n, k>>] /\ UNCHANGED <<banks, last>>
    IN Access(a, s, i, n, P)

TryLock(a, s, i, n) == Class(s)[n] = "mutex" /\
    LET P(t, k) == IF banks[Bank(t)][k] = NoOne
                   THEN Put(<<Name(s), i, n>>, Bank(t), k, a, a) /\ UNCHANGED waits
                   ELSE UNCHANGED <<banks, last, waits>>
    IN Access(a, s, i, n, P)

Acquire(a) ==
    /\ waits[a] # <<>> /\ Up(a) /\ banks["mutex"][waits[a][4]] = NoOne
    /\ Put(SubSeq(waits[a], 1, 3), "mutex", waits[a][4], a, a)
    /\ waits' = [waits EXCEPT ![a] = <<>>]
    /\ UNCHANGED <<layout, sketchUp, wild>>

\* Only the owner unlocks: the caller's duty.
Owns(a, s, i, n) == <<Name(s), i, n>> \in DOMAIN last /\ last[<<Name(s), i, n>>] = a

\* A variant of Unlock: the mutex stays locked.
Unlock_Stuck(a, s, i, n) == Class(s)[n] = "mutex" /\ Owns(a, s, i, n) /\
    LET P(t, k) == UNCHANGED <<banks, last, waits>> IN Access(a, s, i, n, P)

Unlock(a, s, i, n) == Class(s)[n] = "mutex" /\ Owns(a, s, i, n) /\
    LET P(t, k) == Put(<<Name(s), i, n>>, Bank(t), k, NoOne, NoOne) /\ UNCHANGED waits
    IN Access(a, s, i, n, P)

\* as_opt_<type>() is null if the device was not found, whatever the field.
DeviceExists(d) == phase = "ready" /\ d \in DOMAIN deviceMap
Probe(a) ==
    /\ Up(a) /\ waits[a] = <<>>
    /\ \E p \in Probes : wild' = (wild \/ (DeviceExists(p[1]) /\ ~Found(p[1], p[2])))
    /\ UNCHANGED <<layout, banks, last, waits, sketchUp>>

\* Board::terminate(): what the sketch locked stays locked.
Kill == sketchUp /\ phase = "ready" /\ sketchUp' = FALSE
        /\ UNCHANGED <<layout, banks, last, waits, wild>>

Construct == CountDevice \/ CountField \/ ResizeBanks \/ InsertDevice \/ InsertField \/ Constructed

BankNext ==
    \/ Construct \/ Kill
    \/ \E a \in Actors :
          \/ Acquire(a) \/ Probe(a)
          \/ \E s \in Known, i \in 0 .. MaxCount - 1 : \E n \in DOMAIN Class(s) :
                Store(a, s, i, n) \/ Lock(a, s, i, n) \/ TryLock(a, s, i, n) \/ Unlock(a, s, i, n)

BankSpec == BankInit /\ [][BankNext]_bankVars

\* The threads run, give back what they locked and are not starved for ever.
BankFairSpec == BankSpec /\ WF_bankVars(Construct)
            /\ \A a \in Actors :
                  /\ SF_bankVars(Acquire(a))
                  /\ \A s \in Known, i \in 0 .. MaxCount - 1 :
                        \A n \in DOMAIN Class(s) : WF_bankVars(Unlock(a, s, i, n))

-----------------------------------------------------------------------------
Refs == UNION {{<<d, i, n>> : i \in 0 .. deviceMap[d].count - 1, n \in DOMAIN deviceMap[d].fields} :
                  d \in DOMAIN deviceMap}
TypeOf(r) == deviceMap[r[1]].fields[r[3]]
Place(r) == <<Bank(TypeOf(r)), Base(r[1], r[2], r[3])>>

BankTypeOK ==
    /\ phase \in {"count", "insert", "ready", "terminated"}
    /\ bases \in [Banks -> Nat]
    /\ DOMAIN banks = Banks /\ DOMAIN waits = Actors
    /\ \A b \in Banks : \A k \in DOMAIN banks[b] :
          IF b = "mutex" THEN banks[b][k] \in Actors \cup {NoOne}
          ELSE b \in {"u8", "au8"} => banks[b][k] \in 0 .. 255

\* The fields of all instances have places of their own, and fill the banks.
BanksAreTiled == phase = "ready" =>
    /\ \A r, q \in Refs : r # q => Place(r) # Place(q)
    /\ {Place(r) : r \in Refs} = UNION {{<<b, k>> : k \in DOMAIN banks[b]} : b \in Banks}

\* x is the value of type t that an integer v converts to.
Converts(t, v, x) ==
    IF t \in Real \cup {"mutex"} THEN x = v
    ELSE /\ (x - v) % Span(t) = 0
         /\ IF t \in Signed THEN x \in -(Span(t) \div 2) .. (Span(t) \div 2) - 1
                            ELSE x \in 0 .. Span(t) - 1

\* A field reads as what was last stored in it, whatever happens to other fields,
\* and a mutex that nobody locked is free.
FieldsKeepTheirValues == phase = "ready" =>
    \A r \in Refs :
        LET t == TypeOf(r)  slot == Base(r[1], r[2], r[3]) IN
        /\ slot \in DOMAIN banks[Bank(t)]
        /\ Converts(t, IF r \in DOMAIN last THEN last[r] ELSE Zero(Bank(t)),
                    AsSigned(t, banks[Bank(t)][slot]))

\* No access is outside the banks.
NoWildAccess == ~wild

(* The inductive invariant.                                                *)

\* The fields that an iterator of s has left behind.
Seen(s, i) == LET gone == Begin(s) \ i
              IN IF IsNative(s) THEN {s.tokens[p].name : p \in gone} ELSE gone

\* Those of the fields ns of s that are in bank b.
InBank(s, ns, b) == {n \in ns : Bank(Class(s)[n]) = b}

\* The sizes of the banks for the first j devices of c, for any j.
Sizes(c) ==
    LET upto[j \in 0 .. Len(c)] ==
          IF j = 0 THEN NoBases
          ELSE LET s == c[j].spec IN
               [b \in Banks |->
                   upto[j - 1][b] + c[j].count * Cardinality(InBank(s, DOMAIN Class(s), b))]
    IN upto

\* What a loop of the constructor has counted of a bank.
Counted(b) == IF dev = 0 THEN 0
              ELSE Sizes(config)[dev - 1][b]
                     + Count * Cardinality(InBank(Current, Seen(Current, it), b))

\* Both loops count the same, and each device begins where the ones before it end.
LayoutInv ==
    /\ config \in Configs
    /\ dev \in 0 .. Len(config) /\ it \subseteq (IF dev = 0 THEN {} ELSE Begin(Current))
    /\ bases = [b \in Banks |-> Counted(b)]
    /\ phase = "count" => deviceMap = NoDevices
    /\ phase \in {"insert", "ready"} =>
         /\ \A b \in Banks : DOMAIN banks[b] = 0 .. Sizes(config)[Len(config)][b] - 1
         /\ DOMAIN deviceMap = {Name(config[j].spec) : j \in 1 .. dev}
         /\ \A j \in 1 .. dev :
              LET s == config[j].spec IN
              deviceMap[Name(s)] =
                 [fields |-> [n \in (IF j = dev THEN Seen(s, it) ELSE DOMAIN Class(s)) |-> Class(s)[n]],
                  count |-> config[j].count, bases |-> Sizes(config)[j - 1]]
    /\ phase = "ready" => dev = Len(config) /\ it = {}

\* What a field holds for the value that was last stored in it.
Stored(t, v) == IF t = "mutex" THEN v ELSE AsUnsigned(t, v)

\* Nothing is stored before the banks are laid out; after that each slot holds what
\* was last stored in its field, and who waits, waits for a mutex that is there.
SlotsInv ==
    /\ phase # "ready" => /\ DOMAIN last = {} /\ \A a \in Actors : waits[a] = <<>>
                          /\ \A b \in Banks : \A k \in DOMAIN banks[b] : banks[b][k] = Zero(b)
    /\ phase = "ready" =>
         /\ DOMAIN last \subseteq Refs
         /\ \A r \in DOMAIN last : last[r] \in IF TypeOf(r) = "mutex" THEN Actors \cup {NoOne} ELSE Int
         /\ \A r \in Refs :
              LET v == IF r \in DOMAIN last THEN last[r] ELSE Zero(Bank(TypeOf(r)))
              IN banks[Bank(TypeOf(r))][Base(r[1], r[2], r[3])] = Stored(TypeOf(r), v)
         /\ \A a \in Actors : waits[a] = <<>> \/ \E r \in Refs :
              TypeOf(r) = "mutex" /\ waits[a] = <<r[1], r[2], r[3], Base(r[1], r[2], r[3])>>

\* The layout that the constructor of BoardData computes and the look-ups of both
\* processes mean the same places.
DevicesInv == BankTypeOK /\ LayoutInv /\ SlotsInv /\ BanksAreTiled /\ NoWildAccess

\* What is expected of a board's devices: a native specification is one that BindGen
\* takes; devices, and the fields of a device, have different names.
Legal(configs) ==
    \A c \in configs :
        /\ Len(c) \in Nat
        /\ \A i, j \in 1 .. Len(c) : Name(c[i].spec) = Name(c[j].spec) => i = j
        /\ \A j \in 1 .. Len(c) :
             LET s == c[j].spec IN
             /\ c[j].count \in Nat
             /\ DOMAIN Class(s) \subseteq Nat /\ IsFiniteSet(Begin(s))
             /\ \A n \in DOMAIN Class(s) : Class(s)[n] \in Range(FieldTypes)
             /\ IsNative(s) => /\ Begin(s) \subseteq Nat
                               /\ \A p, q \in Begin(s) : s.tokens[p].name = s.tokens[q].name => p = q

\* Both sides were generated for the devices of the board, and as_opt asks them for
\* fields that they have.
Matching(configs, known, probes) ==
    \A c \in configs : \A j \in 1 .. Len(c) :
        LET s == c[j].spec IN
        /\ \A k \in known : Name(k) = Name(s) => Class(k) = Class(s)
        /\ \A p \in probes : p[1] = Name(s) => p[2] \in DOMAIN Class(s)

\* A thread that waits for a mutex gets it, unless the sketch died owning it.
Orphaned(a) == waits[a] # <<>> /\ ~sketchUp /\ banks["mutex"][waits[a][4]] \in SketchThreads
LocksReturn == \A a \in HostThreads :
    waits[a] # <<>> ~> waits[a] = <<>> \/ Orphaned(a)

\* A specification that BindGen took does not terminate the host.
AcceptedIsConstructed == phase # "terminated"
===============================================================================
