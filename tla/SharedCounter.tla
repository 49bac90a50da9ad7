---------------------------- MODULE SharedCounter ----------------------------
(***************************************************************************)
(* The counter of ch1: ch1_mod.c increments global_value and exports it,   *)
(* ch1_mod2.c reads it.  Nothing locks it: an increment is a load and a    *)
(* store.  The kernel, external, lets no module go that another one uses.  *)
(***************************************************************************)
EXTENDS Integers

CONSTANTS
  Callers,   \* threads that call the ioctls
  MaxValue   \* a bound: no increment begins when so many have begun

ASSUME CounterAssumption == MaxValue \in Nat

VARIABLES
  ch1Modules,    \* which of the modules are loaded: "absent" before the first
  global_value,
  callerPc,      \* callerPc[t]: where t is, and what it loaded
  begun, done,   \* history: increments begun, and finished
  seen,          \* history: what ch1_mod2 read last
  collided       \* history: two increments overlapped

counterVars == <<ch1Modules, global_value, callerPc, begun, done, seen, collided>>

AtRest == [at |-> "idle", loaded |-> 0]

CounterStart(modules) ==
  /\ ch1Modules = modules
  /\ global_value = 0
  /\ callerPc = [t \in Callers |-> AtRest]
  /\ begun = 0 /\ done = 0 /\ seen = 0
  /\ collided = FALSE

CounterInit == CounterStart({"ch1_mod"})

-----------------------------------------------------------------------------
InIoctl == {t \in Callers : callerPc[t].at = "store"}

(* CH1_IOCTL_WRITE: the load and the store of ++global_value.               *)
Load(t) ==
  /\ "ch1_mod" \in ch1Modules
  /\ callerPc[t].at = "idle" /\ begun < MaxValue
  /\ callerPc' = [callerPc EXCEPT ![t] = [at |-> "store", loaded |-> global_value]]
  /\ begun' = begun + 1
  /\ collided' = (collided \/ InIoctl # {})
  /\ UNCHANGED <<ch1Modules, global_value, done, seen>>

(* A mutant of Store: it is the old value that is kept.                     *)
StoreOld(t) ==
  /\ "ch1_mod" \in ch1Modules
  /\ callerPc[t].at = "store"
  /\ global_value' = callerPc[t].loaded
  /\ callerPc' = [callerPc EXCEPT ![t] = AtRest]
  /\ done' = done + 1
  /\ UNCHANGED <<ch1Modules, begun, seen, collided>>

Store(t) ==
  /\ "ch1_mod" \in ch1Modules
  /\ callerPc[t].at = "store"
  /\ global_value' = callerPc[t].loaded + 1
  /\ callerPc' = [callerPc EXCEPT ![t] = AtRest]
  /\ done' = done + 1
  /\ UNCHANGED <<ch1Modules, begun, seen, collided>>

(* CH1_IOCTL_READ, which both modules have; that of ch1_mod2 is followed.   *)
ReadGlobal ==
  /\ "ch1_mod2" \in ch1Modules
  /\ seen' = global_value
  /\ UNCHANGED <<ch1Modules, global_value, callerPc, begun, done, collided>>

(* insmod and rmmod.  A reloaded ch1_mod starts from 0, and whatever was in *)
(* a call of the old one is gone with it.                                   *)
LoadModules ==
  /\ \/ /\ ch1Modules = {"ch1_mod"} /\ ch1Modules' = {"ch1_mod", "ch1_mod2"}
        /\ UNCHANGED <<global_value, callerPc, begun, done, seen, collided>>
     \/ /\ ch1Modules = {} /\ ch1Modules' = {"ch1_mod"}
        /\ global_value' = 0 /\ begun' = 0 /\ done' = 0 /\ seen' = 0
        /\ callerPc' = [t \in Callers |-> AtRest]
        /\ collided' = FALSE
UnloadModules ==
  /\ \/ ch1Modules = {"ch1_mod", "ch1_mod2"} /\ ch1Modules' = {"ch1_mod"}
     \/ ch1Modules = {"ch1_mod"} /\ ch1Modules' = {}
  /\ UNCHANGED <<global_value, callerPc, begun, done, seen, collided>>

CounterNext ==
  \/ \E t \in Callers : Load(t) \/ Store(t)
  \/ ReadGlobal \/ LoadModules \/ UnloadModules

CounterSpec == CounterInit /\ [][CounterNext]_counterVars

-----------------------------------------------------------------------------
CounterTypeOK ==
  /\ ch1Modules \subseteq {"ch1_mod", "ch1_mod2", "absent"}
  /\ global_value \in 0..MaxValue /\ seen \in 0..MaxValue
  /\ begun \in 0..MaxValue /\ done \in 0..begun

(* No increment is lost, and the other module has seen none that was not    *)
(* made, unless two of them overlapped.                                     *)
CounterExact == ~collided => seen <= global_value /\ global_value = done
=============================================================================
