------------------------------ MODULE MCKuPir ------------------------------
(* Small instances of the motion-sensor driver.                             *)
EXTENDS KuPir, TLC

CONSTANTS reader, other

(* A program that uses a descriptor alone, as test.c does: it reads, and    *)
(* flushes, what the sensor reports.                                        *)
ReadsOnly == {reader} \X {"KU_OPEN", "read"}
SensorOnly == ReadsOnly \cup {<<reader, "KU_FLUSH">>}

(* And another program that opens a descriptor of its own.                  *)
TwoPrograms == ReadsOnly \cup {<<other, "KU_OPEN">>}

(* A program that uses a descriptor which another one opens, and rmmod.     *)
Unloading ==
  ({reader} \X {"read", "write", "KU_CLOSE"}) \cup {<<other, "KU_OPEN">>, <<Rmmod, "exit">>}

(* A program that flushes its descriptor, and another one that writes into  *)
(* it: beside the handler, a second producer.                               *)
TwoProducers == ({reader} \X {"KU_OPEN", "KU_FLUSH"}) \cup {<<other, "write">>}

(* A sensor that is not missed even if its interrupt is only ever enabled   *)
(* for moments.                                                             *)
SpecRestless == Spec /\ SF_vars(ku_pir_isr)

(* Nodes differ by their contents only.                                     *)
NodeSymmetry == Permutations(Nodes)

(* What the interrupt gate depends on: not the contents of entries, nor what *)
(* was delivered of them, nor the clock.                                     *)
GateView == <<fd_list, ku_pir_volume, next, prev, allocated, gate, pc>>

(* The lists are not explored beyond what is claimed of them.               *)
Claimed == ~contended

(* Two producers, where the search is kept to one write into a descriptor   *)
(* that was opened before, with all flushes and interrupts while it appends *)
(* its entry, and nobody killed.                                            *)
Flushing == pc[reader] # Idle /\ pc[reader].op = "KU_FLUSH"
OneWrite ==
  /\ Claimed
  /\ \A p \in Procs : pc[p].at # "dead" /\ (pc[p] = Idle \/ pc[p].op # "dead")
  /\ allocated # {} => pc[other] # Idle
  /\ pc[other] # Idle => fd_list[1] = 1 /\ (pc[reader] = Idle \/ Flushing)
  /\ Flushing \/ pc[Isr] # Idle => pc[other].at \in {"add", "add2", "add3", "inc"}
=============================================================================
