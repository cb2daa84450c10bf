-------------------------------- MODULE MCTty --------------------------------
\* The console of Tty with two other drivers that want the same name.
EXTENDS Tty

MCDrivers == {"uart", "disk_a", "disk_b"}
MCNameOf == [d \in MCDrivers |-> IF d = "uart" THEN "serial" ELSE "disk"]
MCInsts == {"i1", "i2"}
MCSlots == {0, 1}
=============================================================================
