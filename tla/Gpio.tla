--------------------------------- MODULE Gpio ---------------------------------
(***************************************************************************)
(* The GPIO pins of a board: how BoardData lays them out from a            *)
(* configuration, how both processes find them, and how the Arduino        *)
(* functions of the sketch check a pin before they use it.  The host reads *)
(* and writes a pin through its drivers without a check.  A sketch call    *)
(* checks the pin in one step and uses it in a later one.                  *)
(***************************************************************************)
EXTENDS Integers, Sequences, Bisection

CONSTANTS
    Confs,       \* bound: the configurations (pins and gpio_drivers)
    Numbers,     \* bound: the pin numbers that are asked for
    AnalogValues,\* bound: what the host writes to an analog driver
    ByteValues,  \* bound: what the sketch passes to analogWrite
    HostDirects  \* whether the host sets directions too

Words == 0 .. 2^16 - 1   \* std::uint16_t

\* A GpioDrivers has optional drivers, here sequences of at most one set of
\* what the board may do with the pin.
Abilities == {"read", "write"}
Drivers == [pin : Nat, digital : Seq(SUBSET Abilities), analog : Seq(SUBSET Abilities)]

\* bound: a std::size_t has 30 bits and an int one less
ASSUME GpioAssumption ==
    /\ Confs \subseteq [pins : Seq(Words), drivers : Seq(Drivers)]
    /\ AnalogValues \subseteq Words /\ ByteValues \subseteq 0..255
    /\ \A n \in Numbers : n \in Int /\ -536870912 <= n /\ n < 536870912
    /\ HostDirects \in BOOLEAN

VARIABLES
    conf,   \* the configuration the board was prepared with
    pins,   \* BoardData::pins
    call,   \* the Arduino call of the sketch that is past its checks
    ret,    \* what the last Arduino call came to
    meant   \* history: meant[i], the last write to pin i: by which driver, and what

vars == <<conf, pins, call, ret, meant>>

PinRecords == [id : Words, digital : SUBSET Abilities, analog : SUBSET Abilities,
               value : Words, direction : {"in", "out"}, driver : {"gpio"}]

TypeOK ==
    /\ conf \in Confs
    /\ pins \in Seq(PinRecords)
    /\ call \in [at : {"none", "access"}, kind : {"digital", "analog"}, how : Abilities,
                 pin : 0 .. Len(pins), value : Words]
    /\ ret \in {"nothing", "missing", "unable", "locked", "direction", "done"}
    /\ meant \in [DOMAIN pins -> {"digital", "analog"} \X Words]
-----------------------------------------------------------------------------
(* BoardData::BoardData                                                    *)

Order_AsListed(ids) == ids      \* a variant of Order: the pins are not sorted

\* std::sort: the same numbers, none before a smaller one.
Sorts(p, ids) == /\ \A i \in DOMAIN ids : \E j \in DOMAIN ids : p[j] = i
                 /\ \A i, j \in DOMAIN ids : i < j => ids[p[i]] <= ids[p[j]]
Order(ids) ==
    LET p == CHOOSE p \in [DOMAIN ids -> DOMAIN ids] : Sorts(p, ids)
    IN [i \in DOMAIN ids |-> ids[p[i]]]

Blank(id) == [id |-> id, digital |-> {}, analog |-> {}, value |-> 0, direction |-> "in",
              driver |-> "gpio"]

\* An optional driver that is given replaces what an earlier one allowed.
Given(old, new) == IF new = <<>> THEN old ELSE new[1]

\* One gpio_driver of the configuration: that of an unknown pin is skipped.
Drive(ps, d) ==
    LET at == {i \in DOMAIN ps : ps[i].id = d.pin}
        first == CHOOSE i \in at : \A j \in at : i <= j
    IN IF at = {} THEN ps
       ELSE [ps EXCEPT ![first].digital = Given(@, d.digital),
                       ![first].analog = Given(@, d.analog)]

Pins(c) ==
    LET ids == Order(c.pins)
        after[n \in 0..Len(c.drivers)] ==
            IF n = 0 THEN [i \in DOMAIN ids |-> Blank(ids[i])]
                     ELSE Drive(after[n - 1], c.drivers[n])
    IN after[Len(c.drivers)]

Idle == [at |-> "none", kind |-> "digital", how |-> "read", pin |-> 0, value |-> 0]

Init ==
    /\ conf \in Confs
    /\ pins = Pins(conf)
    /\ call = Idle
    /\ ret = "nothing"
    /\ meant = [i \in DOMAIN pins |-> <<"digital", 0>>]
-----------------------------------------------------------------------------
(* BoardView: a pin is its index, and 0 is the one that was not found.     *)

\* The int of the Arduino functions becomes a std::size_t: below zero it is huge.
AsSize(n) == n % 1073741824

Find(n) ==
    LET i == LowerBound([j \in DOMAIN pins |-> pins[j].id], AsSize(n))
    IN IF i \in DOMAIN pins /\ pins[i].id = AsSize(n) THEN i ELSE 0

Exists(i) == i \in DOMAIN pins
CanRead(i, kind) == Exists(i) /\ "read" \in pins[i][kind]
CanWrite(i, kind) == Exists(i) /\ "write" \in pins[i][kind]
Locked(i) == ~Exists(i) \/ pins[i].driver # "gpio"
Direction(i) == IF Exists(i) /\ ~Locked(i) THEN pins[i].direction ELSE "in"

ReadAnalog(i) == IF Exists(i) THEN pins[i].value ELSE 0

\* A variant of ReadDigital: the value is cut to a byte on its way.
ReadDigital_Byte(i) == IF Exists(i) /\ pins[i].value % 256 # 0 THEN 1 ELSE 0

ReadDigital(i) == IF Exists(i) /\ pins[i].value # 0 THEN 1 ELSE 0

\* What write() of a driver stores.
Level(kind, v) == IF kind = "analog" THEN v ELSE IF v # 0 THEN 255 ELSE 0

WriteDriver(i, kind, v) ==
    IF Exists(i)
    THEN /\ pins' = [pins EXCEPT ![i].value = Level(kind, v)]
         /\ meant' = [meant EXCEPT ![i] = <<kind, v>>]
    ELSE UNCHANGED <<pins, meant>>

\* A variant of SetDirection: INPUT and OUTPUT are taken for one another.
SetDirection_Swapped(i, d) ==
    pins' = IF Exists(i) /\ ~Locked(i)
            THEN [pins EXCEPT ![i].direction = IF d = "in" THEN "out" ELSE "in"] ELSE pins

SetDirection(i, d) ==
    pins' = IF Exists(i) /\ ~Locked(i) THEN [pins EXCEPT ![i].direction = d] ELSE pins
-----------------------------------------------------------------------------
(* The host, through its BoardView                                         *)

HostWrites(n, kind, v) ==
    /\ v \in IF kind = "analog" THEN AnalogValues ELSE {0, 1}
    /\ WriteDriver(Find(n), kind, v)
    /\ UNCHANGED <<conf, call, ret>>

HostSetsDirection(n, d) ==
    /\ HostDirects
    /\ SetDirection(Find(n), d)
    /\ UNCHANGED <<conf, call, ret, meant>>
-----------------------------------------------------------------------------
(* The sketch, through the Arduino functions                               *)

PinMode(n, d) ==
    /\ call = Idle
    /\ ret' = IF ~Exists(Find(n)) THEN "missing"
              ELSE IF Locked(Find(n)) THEN "locked" ELSE "done"
    /\ SetDirection(Find(n), d)
    /\ UNCHANGED <<conf, call, meant>>

Needed(how) == IF how = "read" THEN "in" ELSE "out"

\* A variant of Refusal: the direction is not asked.
Refusal_AnyDirection(i, kind, how) ==
    CASE ~Exists(i) -> "missing"
      [] how = "read" /\ ~CanRead(i, kind) -> "unable"
      [] how = "write" /\ ~CanWrite(i, kind) -> "unable"
      [] Locked(i) -> "locked"
      [] OTHER -> "done"

\* The checks of the four functions, in their order.
Refusal(i, kind, how) ==
    CASE ~Exists(i) -> "missing"
      [] how = "read" /\ ~CanRead(i, kind) -> "unable"
      [] how = "write" /\ ~CanWrite(i, kind) -> "unable"
      [] Locked(i) -> "locked"
      [] Direction(i) # Needed(how) -> "direction"
      [] OTHER -> "done"

\* digitalRead, analogRead, digitalWrite and analogWrite.  A call that is refused
\* returns at once, a read with 0.
Calls(n, kind, how, v) ==
    /\ call = Idle
    /\ LET r == Refusal(Find(n), kind, how)
       IN /\ ret' = IF r = "done" THEN "nothing" ELSE r
          /\ call' = IF r = "done"
                     THEN [at |-> "access", kind |-> kind, how |-> how, pin |-> Find(n), value |-> v]
                     ELSE Idle
    /\ UNCHANGED <<conf, pins, meant>>

Reads(n, kind) == Calls(n, kind, "read", 0)

Writes(n, kind, v) ==
    /\ v \in IF kind = "analog" THEN ByteValues ELSE {0, 1}
    /\ Calls(n, kind, "write", v)

Accesses ==
    /\ call.at = "access"
    /\ call' = Idle
    /\ ret' = "done"
    /\ IF call.how = "write" THEN WriteDriver(call.pin, call.kind, call.value)
       ELSE UNCHANGED <<pins, meant>>
    /\ UNCHANGED conf
-----------------------------------------------------------------------------
Host ==
    \/ \E n \in Numbers, kind \in {"digital", "analog"}, v \in AnalogValues \cup {0, 1} :
           HostWrites(n, kind, v)
    \/ \E n \in Numbers, d \in {"in", "out"} : HostSetsDirection(n, d)

SketchCalls ==
    \/ \E n \in Numbers, d \in {"in", "out"} : PinMode(n, d)
    \/ \E n \in Numbers, kind \in {"digital", "analog"} : Reads(n, kind)
    \/ \E n \in Numbers, kind \in {"digital", "analog"}, v \in ByteValues \cup {0, 1} :
           Writes(n, kind, v)
    \/ Accesses

Next == Host \/ SketchCalls

Spec == Init /\ [][Next]_vars
-----------------------------------------------------------------------------
(* What it is for                                                          *)

\* What the last driver given for a pin allows, or nothing.
Configured(n, kind) ==
    LET given == {j \in DOMAIN conf.drivers : /\ conf.drivers[j].pin = n
                                              /\ conf.drivers[j][kind] # <<>>}
    IN IF given = {} THEN {}
       ELSE conf.drivers[CHOOSE j \in given : \A k \in given : k <= j][kind][1]

\* Whatever the order the pins and drivers are configured in, and however often,
\* a pin is found by its number with the drivers that were given last, and no
\* other number finds a pin.
PinsAreAsConfigured ==
    \A n \in Numbers :
        LET i == Find(n)
            listed == \E j \in DOMAIN conf.pins : conf.pins[j] = n
        IN /\ Exists(i) <=> listed
           /\ listed => /\ pins[i].digital = Configured(n, "digital")
                        /\ pins[i].analog = Configured(n, "analog")

\* The numbers and the drivers of the pins are for good what the constructor made them.
LaidOut ==
    /\ DOMAIN pins = DOMAIN Pins(conf)
    /\ \A i \in DOMAIN pins : pins[i] = [Pins(conf)[i] EXCEPT !.value = pins[i].value,
                                                              !.direction = pins[i].direction]

\* A call past its checks has found its pin, whose driver lets the board do what it
\* is about to do; a digital level is 0 or 1.
CallInv ==
    /\ call.at = "access" =>
         /\ \E n \in Numbers : call.pin = Find(n) /\ Exists(call.pin)
         /\ call.how \in pins[call.pin][call.kind]
         /\ ~HostDirects => pins[call.pin].direction = Needed(call.how)
         /\ call.kind = "digital" => call.value \in {0, 1}
    /\ \A i \in DOMAIN pins : meant[i][1] = "digital" => meant[i][2] \in {0, 1}

\* Pins are what was configured, and calls refer to pins that exist.
PinsInv == TypeOK /\ LaidOut /\ CallInv /\ PinsAreAsConfigured

\* A level crosses from one driver to the other: whoever wrote the pin, its
\* digital driver reads HIGH exactly for what is not zero, all 16 bits of it, and
\* its analog driver reads the value or full scale.
LevelsCarry ==
    \A i \in DOMAIN pins :
        /\ (ReadDigital(i) = 1) <=> (meant[i][2] # 0)
        /\ ReadAnalog(i) = IF meant[i][1] = "analog" THEN meant[i][2] ELSE 255 * meant[i][2]

\* As long as the host leaves the directions alone, the sketch changes only the
\* value of a pin that is an output and whose configuration lets the board write
\* it, also when the host wrote the pin between the check and the access.
SketchDrivesOutputs ==
    [][\A i \in DOMAIN pins :
         (call' # call /\ pins'[i].value # pins[i].value)
           => /\ pins[i].direction = "out"
              /\ "write" \in Configured(pins[i].id, call.kind)]_vars
=============================================================================
