----------------------------- MODULE SimpleSpin ------------------------------
(***************************************************************************)
(* The locked buffer of week4/multi/simple_spin.c: one message, of the two *)
(* fields of struct str_st, that a write stores and a read takes and       *)
(* clears, both under my_lock.  A copy to or from user memory can fault    *)
(* after either field or before both, and no caller hears of it: the ioctl *)
(* returns 0.  The device is there before its buffer is and after it.      *)
(***************************************************************************)
EXTENDS Integers

CONSTANTS
  SpinThreads,  \* threads that call the ioctl
  SpinWrites,   \* a bound: so many messages are written, which are 1, 2, ...
  NoThread      \* whoever holds a free lock

ASSUME SpinAssumption == SpinWrites \in Nat /\ NoThread \notin SpinThreads

VARIABLES
  spinModule,   \* "absent"; "adding", "allocated", "loaded", "freed", "unloaded",
                \* the stages of init and exit; "broken": init has crashed
  kern_buf,     \* the buffer's fields
  spinLock,     \* who holds my_lock
  spinPc,       \* spinPc[t]: where t is, and the message it writes
  spinUser,     \* spinUser[t]: the structure that t's last read filled
  spinSent,     \* messages written so far
  spinSpoilt    \* history: messages whose copy from or to the user faulted, or
                \* that were written while the buffer was not there or not
                \* initialised

spinVars == <<spinModule, kern_buf, spinLock, spinPc, spinUser, spinSent, spinSpoilt>>

SpinJunk == -1  \* what is in memory that nobody initialised
Both(x) == [str |-> x, len |-> x]
SpinIdle == [at |-> "idle", msg |-> 0]

SpinStart(module) ==
  /\ spinModule = module
  /\ kern_buf = Both(SpinJunk)
  /\ spinLock = NoThread
  /\ spinPc = [t \in SpinThreads |-> SpinIdle]
  /\ spinUser = [t \in SpinThreads |-> Both(0)]
  /\ spinSent = 0
  /\ spinSpoilt = {}

SpinInit == SpinStart("adding")

-----------------------------------------------------------------------------
SpinAt(t, label) == spinModule \notin {"absent", "unloaded"} /\ spinPc[t].at = label
SpinGoto(t, label) == spinPc' = [spinPc EXCEPT ![t].at = label]

(* Nothing is allocated before kmalloc, and after one that failed; init and *)
(* exit fill and free the buffer without a lock.                            *)
NoBuffer == spinModule \in {"adding", "broken"}
Usable == spinModule \in {"allocated", "loaded"}
Spoilt(t) == IF spinModule = "loaded" THEN {} ELSE {spinPc[t].msg}

SpinBegin(t) ==
  /\ SpinAt(t, "idle")
  /\ \/ /\ SpinGoto(t, "read")
        /\ spinUser' = [spinUser EXCEPT ![t] = Both(0)]
        /\ UNCHANGED spinSent
     \/ /\ spinSent < SpinWrites
        /\ spinSent' = spinSent + 1
        /\ spinPc' = [spinPc EXCEPT ![t] = [at |-> "write", msg |-> spinSent + 1]]
        /\ UNCHANGED spinUser
  /\ UNCHANGED <<spinModule, kern_buf, spinLock, spinSpoilt>>

(* A mutant of SpinAcquire: a write takes no lock.                          *)
WriteUnlocked(t) ==
  /\ \/ /\ SpinAt(t, "read") /\ spinLock = NoThread
        /\ spinLock' = t
        /\ SpinGoto(t, "read_str")
     \/ /\ SpinAt(t, "write")
        /\ SpinGoto(t, "write_str") /\ UNCHANGED spinLock
  /\ UNCHANGED <<spinModule, kern_buf, spinUser, spinSent, spinSpoilt>>

SpinAcquire(t) ==
  /\ spinLock = NoThread
  /\ \/ SpinAt(t, "read") /\ SpinGoto(t, "read_str")
     \/ SpinAt(t, "write") /\ SpinGoto(t, "write_str")
  /\ spinLock' = t
  /\ UNCHANGED <<spinModule, kern_buf, spinUser, spinSent, spinSpoilt>>

(* A copy to or from NULL, or the memset behind it, is an oops under the    *)
(* lock.                                                                    *)
SpinOops(t) ==
  /\ NoBuffer
  /\ SpinAt(t, "read_str") \/ SpinAt(t, "write_str")
  /\ SpinGoto(t, "oops")
  /\ UNCHANGED <<spinModule, kern_buf, spinLock, spinUser, spinSent, spinSpoilt>>

(* copy_to_user, a field at a time, to its end or to a fault.               *)
CopyToUser(t) ==
  /\ ~NoBuffer
  /\ \/ /\ SpinAt(t, "read_str") /\ SpinGoto(t, "read_len")
        /\ spinUser' = [spinUser EXCEPT ![t].str = kern_buf.str]
        /\ UNCHANGED spinSpoilt
     \/ /\ SpinAt(t, "read_len") /\ SpinGoto(t, "clear")
        /\ spinUser' = [spinUser EXCEPT ![t].len = kern_buf.len]
        /\ UNCHANGED spinSpoilt
     \/ /\ SpinAt(t, "read_str") \/ SpinAt(t, "read_len")
        /\ SpinGoto(t, "clear")
        /\ spinSpoilt' = spinSpoilt \cup
                         ({spinUser[t].str, kern_buf.str, kern_buf.len} \ {0, SpinJunk})
        /\ UNCHANGED spinUser
  /\ UNCHANGED <<spinModule, kern_buf, spinLock, spinSent>>

(* A mutant of Clear: what a faulted copy could not deliver is kept.        *)
ClearDelivered(t) ==
  /\ SpinAt(t, "clear") /\ SpinGoto(t, "unlock")
  /\ kern_buf' = IF spinUser[t].len = 0 THEN kern_buf ELSE Both(0)
  /\ UNCHANGED <<spinModule, spinLock, spinUser, spinSent, spinSpoilt>>

Clear(t) ==
  /\ SpinAt(t, "clear") /\ SpinGoto(t, "unlock")
  /\ kern_buf' = IF Usable THEN Both(0) ELSE kern_buf
  /\ UNCHANGED <<spinModule, spinLock, spinUser, spinSent, spinSpoilt>>

(* copy_from_user; a fault zeroes the rest of the buffer.                   *)
CopyFromUser(t) ==
  /\ ~NoBuffer
  /\ LET m == spinPc[t].msg
     IN  \/ /\ SpinAt(t, "write_str") /\ SpinGoto(t, "write_len")
            /\ kern_buf' = IF Usable THEN [kern_buf EXCEPT !.str = m] ELSE kern_buf
            /\ spinSpoilt' = spinSpoilt \cup Spoilt(t)
         \/ /\ SpinAt(t, "write_len") /\ SpinGoto(t, "unlock")
            /\ kern_buf' = IF Usable THEN [kern_buf EXCEPT !.len = m] ELSE kern_buf
            /\ spinSpoilt' = spinSpoilt \cup Spoilt(t)
         \/ /\ SpinAt(t, "write_str") /\ SpinGoto(t, "unlock")
            /\ kern_buf' = IF Usable THEN Both(0) ELSE kern_buf
            /\ spinSpoilt' = spinSpoilt \cup {m}
         \/ /\ SpinAt(t, "write_len") /\ SpinGoto(t, "unlock")
            /\ kern_buf' = IF Usable THEN [kern_buf EXCEPT !.len = 0] ELSE kern_buf
            /\ spinSpoilt' = spinSpoilt \cup {m}
  /\ UNCHANGED <<spinModule, spinLock, spinUser, spinSent>>

SpinUnlock(t) ==
  /\ SpinAt(t, "unlock")
  /\ spinLock' = NoThread
  /\ spinPc' = [spinPc EXCEPT ![t] = SpinIdle]
  /\ UNCHANGED <<spinModule, kern_buf, spinUser, spinSent, spinSpoilt>>

(* init after cdev_add: kmalloc, whose result nobody looks at, then memset. *)
SpinLoad ==
  /\ \/ /\ spinModule = "adding"
        /\ spinModule' \in {"allocated", "broken"} /\ UNCHANGED kern_buf
     \/ /\ spinModule = "allocated"
        /\ spinModule' = "loaded" /\ kern_buf' = Both(0)
  /\ UNCHANGED <<spinLock, spinPc, spinUser, spinSent, spinSpoilt>>

(* exit, which no call in flight holds up: kfree, then the code is gone.    *)
SpinExit ==
  /\ \/ /\ spinModule = "loaded"
        /\ spinModule' = "freed" /\ kern_buf' = Both(SpinJunk)
     \/ spinModule = "freed" /\ spinModule' = "unloaded" /\ UNCHANGED kern_buf
  /\ UNCHANGED <<spinLock, spinPc, spinUser, spinSent, spinSpoilt>>

SpinNext ==
  \/ \E t \in SpinThreads : \/ SpinBegin(t) \/ SpinAcquire(t) \/ SpinOops(t)
                            \/ CopyToUser(t) \/ Clear(t) \/ CopyFromUser(t)
                            \/ SpinUnlock(t)
  \/ SpinLoad \/ SpinExit

SpinSpec == SpinInit /\ [][SpinNext]_spinVars

-----------------------------------------------------------------------------
SpinTypeOK ==
  /\ spinModule \in {"absent", "adding", "allocated", "loaded", "freed",
                     "unloaded", "broken"}
  /\ kern_buf \in [{"str", "len"} -> SpinJunk .. SpinWrites]
  /\ spinLock \in SpinThreads \cup {NoThread}
  /\ spinUser \in [SpinThreads -> [{"str", "len"} -> SpinJunk .. SpinWrites]]
  /\ spinSent \in 0..SpinWrites /\ spinSpoilt \subseteq 1..SpinWrites

(* A read delivers the two fields of one write, or of none; unless the      *)
(* a copy of it faulted, or its write ran beside init or exit, or the read  *)
(* saw memory that is not initialised yet or not allocated any more.        *)
SpinWhole ==
  \A t \in SpinThreads :
    LET got == spinUser[t]
    IN  spinPc[t].at \in {"clear", "unlock", "idle"} =>
          \/ got.str = got.len
          \/ {got.str, got.len} \cap (spinSpoilt \cup {SpinJunk}) # {}

(* A message is read once, and not again if the copy to its reader faults:  *)
(* no two threads have the same.                                            *)
SpinReadOnce ==
  \A t, u \in SpinThreads :
    t # u /\ spinUser[t].str = spinUser[u].str => spinUser[t].str \in {0, SpinJunk}
=============================================================================
