---------------------------- MODULE MCKernelCore ----------------------------
(* Instantiation of KernelCore for TLC: three terminals, a PCB pool       *)
(* smaller than MAX_PROCESSES = 8 so that the pool fills, the shell, one   *)
(* other program and one name the file system does not hold.              *)
EXTENDS KernelCore

CONSTANTS shell, prog, badelf, missing

MCFiles == {shell, prog, missing}
MCFilesBadElf == {shell, prog, badelf, missing}
MCFileType == [f \in Files |-> IF f = missing THEN -1 ELSE 2]
MCMagicOk == [f \in Files |-> IF f = badelf THEN {FALSE} ELSE {TRUE}]
====
