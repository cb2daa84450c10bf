-------------------------------- MODULE Device --------------------------------
(***************************************************************************)
(* The device registry and its open instances (kernel/dev/device.c), and   *)
(* the serial driver that publishes the console in it (dev/serial_drv.c).  *)
(*                                                                         *)
(* A driver registers under its name in the first free slot.  Opening a    *)
(* name makes an instance, a heap object that records the slot and the     *)
(* slot's seed; every later use of the instance goes through them.  The    *)
(* drivers' hooks do nothing but refuse or accept an open.  A caller uses  *)
(* an instance only until it has closed it.                                *)
(*                                                                         *)
(* A definition marked Mutant is no part of the model (see Scheduler).     *)
(***************************************************************************)
EXTENDS Integers, FiniteSets

CONSTANTS
    DeviceSlots,    \* 0 .. DEV_MAX_DEVICES - 1
    Drivers,        \* the void_device_t structures of the drivers
    NameOf,         \* the name each driver registers under
    Serial,         \* the serial driver's
    Insts,          \* heap addresses a dev_instance_t can have
    RefLimit        \* 2^8: `ref' is a uint8_t

NoName == "null"

ASSUME DeviceAssumption ==
    /\ IsFiniteSet(DeviceSlots) /\ DeviceSlots \subseteq Nat /\ DeviceSlots # {}
    /\ Serial \in Drivers /\ \A d \in Drivers : NameOf[d] # NoName
    \* The kernel opens far fewer instances than the count can hold.
    /\ RefLimit \in Nat /\ IsFiniteSet(Insts) /\ Cardinality(Insts) < RefLimit

VARIABLES
    slot,       \* g_dev_reg.devices
    inst,       \* the instances
    console     \* g_console_inst

devVars == <<slot, inst, console>>

NoInst == "null"
Names == {NameOf[d] : d \in Drivers}

EmptySlot == [driver |-> Serial, name |-> NoName, inuse |-> FALSE, ref |-> 0]
FreedInst == [driver |-> NoName]

\* dev_init gives each slot its seed; nothing changes it afterwards.
Magic(k) == (k + 256) % 65536

\* The entry a name leads to: names in the table are distinct.
dev_lookup(n) == {k \in DeviceSlots : slot[k].inuse /\ slot[k].name = n}

dev_entry_live(k) == slot[k].inuse /\ slot[k].name # NoName

\* dev_inst_valid: what every access through an instance re-checks.
dev_inst_valid(i) ==
    /\ inst[i] # FreedInst
    /\ dev_entry_live(inst[i].idx)
    /\ slot[inst[i].idx].ref # 0
    /\ inst[i].birth = Magic(inst[i].idx)

-----------------------------------------------------------------------------
\* The slot dev_register fills, in a table st: none when the name is taken or
\* the table is full.
FreeSlot(st, n) ==
    {k \in DeviceSlots :
        /\ ~st[k].inuse
        /\ \A j \in DeviceSlots : j < k => st[j].inuse
        /\ \A j \in DeviceSlots : ~(st[j].inuse /\ st[j].name = n)}

Published(st, k, d) ==
    [st EXCEPT ![k] = [driver |-> d, name |-> NameOf[d], inuse |-> TRUE, ref |-> 0]]

dev_register(d) ==
    /\ \E k \in FreeSlot(slot, NameOf[d]) : slot' = Published(slot, k, d)
    /\ UNCHANGED <<inst, console>>

\* Mutant: open references do not keep a device registered.
UnregisterBusy(n) ==
    /\ \E k \in dev_lookup(n) :
          slot' = [slot EXCEPT ![k].name = NoName, ![k].inuse = FALSE, ![k].ref = 0]
    /\ UNCHANGED <<inst, console>>

\* Refused while the device has open references; the ops stay in the slot.
dev_unregister(n) ==
    /\ \E k \in dev_lookup(n) :
          /\ slot[k].ref = 0
          /\ slot' = [slot EXCEPT ![k].name = NoName, ![k].inuse = FALSE, ![k].ref = 0]
    /\ UNCHANGED <<inst, console>>

NewInst(st, k) == [driver |-> st[k].driver, idx |-> k, birth |-> Magic(k)]

\* An open that neither the driver nor kmalloc refuses, into the heap object i.
dev_open(n, i) ==
    /\ inst[i] = FreedInst
    /\ \E k \in dev_lookup(n) :
          /\ dev_entry_live(k)
          /\ slot' = [slot EXCEPT ![k].ref = (@ + 1) % RefLimit]
          /\ inst' = [inst EXCEPT ![i] = NewInst(slot, k)]
    /\ UNCHANGED console

\* dev_close makes dev_inst_valid's checks.  The console is never closed.
dev_close(i) ==
    /\ dev_inst_valid(i) /\ i # console
    /\ slot' = [slot EXCEPT ![inst[i].idx].ref = (@ - 1) % RefLimit]
    /\ inst' = [inst EXCEPT ![i] = FreedInst]
    /\ UNCHANGED console

\* Boot: dev_init empties the table, and serial_drv_register, before any other
\* driver, publishes the serial device and opens the kernel's instance of it;
\* g_console_inst stays null if that open fails.
serial_drv_register ==
    LET empty == [k \in DeviceSlots |-> EmptySlot]
        first == CHOOSE k \in FreeSlot(empty, NameOf[Serial]) : TRUE
        boot == Published(empty, first, Serial)
        closed == [i \in Insts |-> FreedInst]
    IN  \/ slot = boot /\ inst = closed /\ console = NoInst
        \/ \E i \in Insts :
              /\ slot = [boot EXCEPT ![first].ref = 1]
              /\ inst = [closed EXCEPT ![i] = NewInst(boot, first)]
              /\ console = i

DevNext ==
    \/ \E d \in Drivers : dev_register(d)
    \/ \E n \in Names : dev_unregister(n) \/ \E i \in Insts : dev_open(n, i)
    \/ \E i \in Insts : dev_close(i)

-----------------------------------------------------------------------------
(***************************************************************************)
(* "an open handle is never invalidated under its owner" (device.h), and   *)
(* a read, write or ioctl through it reaches the driver that was opened,   *)
(* whatever was registered and unregistered since.                         *)
(***************************************************************************)
HandlesReachTheirDriver ==
    \A i \in Insts : inst[i] # FreedInst =>
        dev_inst_valid(i) /\ slot[inst[i].idx].driver = inst[i].driver
=============================================================================
