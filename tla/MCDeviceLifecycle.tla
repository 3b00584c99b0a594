------------------------- MODULE MCDeviceLifecycle -------------------------
(* A small instance of DeviceLifecycle for TLC: two files.                 *)
EXTENDS DeviceLifecycle, TLC

CONSTANTS f1, f2, none

TwoFiles == {f1, f2}
Symmetry == Permutations(TwoFiles)

(* What tells states apart: the command is of no use when nobody is about  *)
(* one, and most of the converter is not when it is not attached.          *)
Commanding == \E f \in TwoFiles : pc[f] \in {"send", "wait"}
Converting ==
    IF Attached THEN adc ELSE [command |-> adc.command, sampling |-> adc.sampling]

View == <<core, device, counts, io_mutex, pc, opened, transfers, history, Converting,
          IF Commanding THEN request ELSE "ID">>
=============================================================================
