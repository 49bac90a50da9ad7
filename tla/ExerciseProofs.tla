--------------------------- MODULE ExerciseProofs ----------------------------
(***************************************************************************)
(* Theorems about exercises of one driver each: the counter of ch1, the    *)
(* locked buffer of week4, the blocking producer and consumer of week7,    *)
(* the humidity sensor's loop of week10 and the stepping motor of week11.  *)
(***************************************************************************)
EXTENDS SharedCounter, SimpleSpin, SimpleBlock, Dht11, StepMotor, Induction,
        FiniteSetTheorems, TLAPS

(***************************************************************************)
(* The counter of ch1.                                                     *)
(***************************************************************************)
CounterTypes ==
  /\ global_value \in Nat /\ done \in Nat /\ begun \in Nat /\ seen \in Nat
  /\ callerPc \in [Callers -> [at : {"idle", "store"}, loaded : Nat]]
  /\ collided \in BOOLEAN

(* Without an overlap the one caller between load and store has loaded what *)
(* the counter still is.                                                    *)
CounterIInv ==
  /\ CounterTypes
  /\ ~collided => /\ seen <= global_value /\ global_value = done
                  /\ \A t \in InIoctl : callerPc[t].loaded = global_value
                  /\ \A t, u \in InIoctl : t = u

LEMMA CounterInitial == CounterInit => CounterIInv
<1> SUFFICES ASSUME CounterInit PROVE CounterIInv
  OBVIOUS
<1>1. CounterTypes
  BY DEF CounterInit, CounterStart, CounterTypes, AtRest
<1>2. InIoctl = {}
  BY DEF CounterInit, CounterStart, InIoctl, AtRest
<1> QED
  BY <1>1, <1>2 DEF CounterInit, CounterStart, CounterIInv

LEMMA CounterInductive == CounterIInv /\ [CounterNext]_counterVars => CounterIInv'
<1> SUFFICES ASSUME CounterIInv, [CounterNext]_counterVars PROVE CounterIInv'
  OBVIOUS
<1> USE DEF CounterIInv, CounterTypes, InIoctl
<1>1. ASSUME NEW t \in Callers, Load(t) PROVE CounterIInv'
  <2>1. CounterTypes'
    BY <1>1 DEF Load
  <2>2. CASE collided'
    BY <2>1, <2>2
  <2>3. CASE ~collided'
    <3>1. ~collided /\ InIoctl = {}
      BY <1>1, <2>3 DEF Load
    <3>2. InIoctl' = {t} /\ callerPc'[t].loaded = global_value
      BY <1>1, <3>1 DEF Load
    <3> QED
      BY <1>1, <2>1, <3>1, <3>2 DEF Load
  <2> QED
    BY <2>2, <2>3
<1>2. ASSUME NEW t \in Callers, Store(t) PROVE CounterIInv'
  <2>1. CounterTypes'
    BY <1>2 DEF Store, AtRest
  <2>2. CASE collided
    BY <1>2, <2>1, <2>2 DEF Store
  <2>3. CASE ~collided
    <3>1. t \in InIoctl /\ callerPc[t].loaded = global_value
      BY <1>2, <2>3 DEF Store
    <3>2. InIoctl' = {}
      BY <1>2, <2>3, <3>1 DEF Store, AtRest
    <3> QED
      BY <1>2, <2>1, <2>3, <3>1, <3>2 DEF Store
  <2> QED
    BY <2>2, <2>3
<1>3. ASSUME ReadGlobal PROVE CounterIInv'
  BY <1>3 DEF ReadGlobal
<1>4. ASSUME LoadModules PROVE CounterIInv'
  <2>1. CASE UNCHANGED <<global_value, callerPc, begun, done, seen, collided>>
    BY <2>1
  <2>2. CASE /\ global_value' = 0 /\ begun' = 0 /\ done' = 0 /\ seen' = 0
             /\ callerPc' = [t \in Callers |-> AtRest] /\ collided' = FALSE
    <3>1. CounterTypes'
      BY <2>2 DEF AtRest
    <3>2. InIoctl' = {}
      BY <2>2 DEF AtRest
    <3> QED
      BY <2>2, <3>1, <3>2
  <2> QED
    BY <1>4, <2>1, <2>2 DEF LoadModules
<1>5. ASSUME UnloadModules PROVE CounterIInv'
  BY <1>5 DEF UnloadModules
<1>6. CASE UNCHANGED counterVars
  BY <1>6 DEF counterVars
<1> QED
  BY <1>1, <1>2, <1>3, <1>4, <1>5, <1>6 DEF CounterNext

(* While no two increments of ch1_mod.c overlap, none is lost, and ch1_mod2 *)
(* never reads more than was counted.                                       *)
THEOREM CountsExactly == CounterSpec => []CounterExact
<1>1. CounterIInv => CounterExact
  BY DEF CounterIInv, CounterExact
<1> QED
  BY <1>1, CounterInitial, CounterInductive, PTL DEF CounterSpec

(***************************************************************************)
(* The locked buffer of week4.                                             *)
(***************************************************************************)
SpinLabels == {"idle", "read", "write", "read_str", "read_len", "clear",
               "write_str", "write_len", "unlock", "oops"}
SpinValues == {SpinJunk} \cup (0 .. spinSent)

SpinTypes ==
  /\ spinModule \in {"adding", "allocated", "loaded", "freed", "unloaded", "broken"}
  /\ kern_buf \in [str : SpinValues, len : SpinValues]
  /\ spinUser \in [SpinThreads -> [str : SpinValues, len : SpinValues]]
  /\ spinPc \in [SpinThreads -> [at : SpinLabels, msg : 0 .. spinSent]]
  /\ spinLock \in SpinThreads \cup {NoThread}
  /\ spinSent \in Nat

(* Who has the lock is in its critical section, or died there.              *)
SpinLocked ==
  \A t \in SpinThreads : spinLock = t <=> spinPc[t].at \notin {"idle", "read", "write"}

(* Two fields that are of one message, or a spoilt one among them.          *)
Tainted == spinSpoilt \cup {SpinJunk}
OfOne(x, y) == x = y \/ x \in Tainted \/ y \in Tainted
Blank == Tainted \cup {0}

(* The buffer is whole but for the thread that is between the two fields of *)
(* a write; what it holds before the memset of init is spoilt.              *)
SpinBuffer ==
  /\ ~Usable => kern_buf = Both(SpinJunk)
  /\ spinModule = "allocated" => kern_buf.str \in Blank /\ kern_buf.len \in Blank
  /\ (\A t \in SpinThreads : spinPc[t].at # "write_len") => OfOne(kern_buf.str, kern_buf.len)
  /\ \A t \in SpinThreads :
       spinPc[t].at = "write_len" =>
         /\ Usable => \/ kern_buf.str = spinPc[t].msg
                      \/ kern_buf.str = 0 /\ spinPc[t].msg \in spinSpoilt
         /\ spinModule = "allocated" => spinPc[t].msg \in spinSpoilt

(* Nobody is past the first access to a buffer that was never allocated.    *)
SpinBefore ==
  NoBuffer => \A t \in SpinThreads :
                spinPc[t].at \in {"idle", "read", "write", "read_str", "write_str", "oops"}

(* The reader between the two fields will complete them from the buffer.    *)
SpinReaders ==
  \A t \in SpinThreads :
    /\ spinPc[t].at \in {"read", "read_str"} => spinUser[t] = Both(0)
    /\ spinPc[t].at = "read_len" =>
         /\ OfOne(spinUser[t].str, kern_buf.len) /\ spinUser[t].len = 0
         /\ spinModule = "allocated" => spinUser[t].str \in Blank
    /\ spinPc[t].at # "read_len" => OfOne(spinUser[t].str, spinUser[t].len)

(* A message is in one place: with the thread that is to write it, in the   *)
(* buffer, or with the one reader that took it.                             *)
ToWrite(t) == spinPc[t].at \in {"write", "write_str"}
Nothing == {0, SpinJunk}
SpinUnique ==
  /\ \A t \in SpinThreads :
       ToWrite(t) =>
         /\ spinPc[t].msg \notin Nothing /\ kern_buf.str # spinPc[t].msg
         /\ \A u \in SpinThreads : /\ spinUser[u].str # spinPc[t].msg
                                   /\ ToWrite(u) /\ u # t => spinPc[u].msg # spinPc[t].msg
  /\ \A t \in SpinThreads :
       spinUser[t].str \notin Nothing /\ spinUser[t].str = kern_buf.str =>
         spinPc[t].at \in {"read_len", "clear"}
  /\ \A t, u \in SpinThreads :
       t # u /\ spinUser[t].str = spinUser[u].str => spinUser[t].str \in Nothing

SpinIInv == SpinTypes /\ SpinLocked /\ SpinBuffer /\ SpinBefore /\ SpinReaders /\ SpinUnique

LEMMA JunkFacts == SpinJunk \in Int /\ SpinJunk \notin Nat /\ SpinJunk # 0
BY DEF SpinJunk

LEMMA BothFields == \A x : Both(x).str = x /\ Both(x).len = x
BY DEF Both

LEMMA ZeroFirst == \A n \in Nat : 0 \in 0 .. n
OBVIOUS

LEMMA SpinInitial == SpinInit => SpinIInv
<1> SUFFICES ASSUME SpinInit PROVE SpinIInv
  OBVIOUS
<1>1. /\ spinModule = "adding" /\ kern_buf = Both(SpinJunk) /\ spinLock = NoThread
      /\ spinPc = [t \in SpinThreads |-> SpinIdle] /\ spinUser = [t \in SpinThreads |-> Both(0)]
      /\ spinSent = 0 /\ spinSpoilt = {}
  BY DEF SpinInit, SpinStart
<1>2. \A t \in SpinThreads : spinPc[t].at = "idle" /\ spinPc[t].msg = 0 /\ spinUser[t] = Both(0)
  BY <1>1 DEF SpinIdle
<1>3. SpinTypes
  <2>1. Both(SpinJunk) \in [str : SpinValues, len : SpinValues]
        /\ Both(0) \in [str : SpinValues, len : SpinValues]
    BY <1>1 DEF Both, SpinValues
  <2>2. SpinIdle \in [at : SpinLabels, msg : 0 .. spinSent]
    BY <1>1 DEF SpinIdle, SpinLabels
  <2>3. spinSent \in Nat
    BY <1>1
  <2> QED
    BY <1>1, <2>1, <2>2, <2>3 DEF SpinTypes
<1>4. SpinLocked
  BY <1>1, <1>2, SpinAssumption DEF SpinLocked
<1>5. SpinBuffer
  <2>1. kern_buf.str = kern_buf.len
    BY <1>1, BothFields
  <2> QED
    BY <1>1, <1>2, <2>1 DEF SpinBuffer, Usable, OfOne
<1>6. SpinBefore /\ SpinReaders /\ SpinUnique
  BY <1>1, <1>2, BothFields DEF SpinBefore, SpinReaders, OfOne, SpinUnique, ToWrite, Nothing
<1> QED
  BY <1>3, <1>4, <1>5, <1>6 DEF SpinIInv

(* A thread moves: the others stay where they are.                          *)
LEMMA SpinMoved ==
  ASSUME SpinTypes, NEW t \in SpinThreads, NEW l, SpinGoto(t, l)
  PROVE  /\ spinPc'[t].at = l /\ spinPc'[t].msg = spinPc[t].msg
         /\ \A u \in SpinThreads : u # t => spinPc'[u] = spinPc[u]
         /\ l \in SpinLabels => spinPc' \in [SpinThreads -> [at : SpinLabels, msg : 0 .. spinSent]]
BY DEF SpinTypes, SpinGoto

(* Nothing moves but threads, and none becomes a writer.                    *)
LEMMA UniqueKept ==
  ASSUME SpinUnique, spinUser' = spinUser, kern_buf' = kern_buf,
         \A u \in SpinThreads : ToWrite(u)' => ToWrite(u) /\ spinPc'[u].msg = spinPc[u].msg,
         \A u \in SpinThreads : spinPc[u].at \in {"read_len", "clear"} => spinPc'[u].at = spinPc[u].at
  PROVE  SpinUnique'
<1>1. ASSUME NEW u \in SpinThreads, ToWrite(u)'
      PROVE  /\ spinPc'[u].msg \notin Nothing /\ kern_buf'.str # spinPc'[u].msg
             /\ \A v \in SpinThreads : /\ spinUser'[v].str # spinPc'[u].msg
                                       /\ ToWrite(v)' /\ v # u => spinPc'[v].msg # spinPc'[u].msg
  BY <1>1 DEF SpinUnique
<1>2. ASSUME NEW u \in SpinThreads, spinUser'[u].str \notin Nothing, spinUser'[u].str = kern_buf'.str
      PROVE  spinPc'[u].at \in {"read_len", "clear"}
  BY <1>2 DEF SpinUnique
<1>3. ASSUME NEW u \in SpinThreads, NEW v \in SpinThreads, u # v, spinUser'[u].str = spinUser'[v].str
      PROVE  spinUser'[u].str \in Nothing
  BY <1>3 DEF SpinUnique
<1> QED
  BY <1>1, <1>2, <1>3 DEF SpinUnique, Nothing

LEMMA SpinBeginKeeps ==
  ASSUME SpinIInv, NEW t \in SpinThreads, SpinBegin(t)
  PROVE  SpinIInv'
<1> USE DEF SpinIInv
<1>1. spinPc[t].at = "idle" /\ UNCHANGED <<spinModule, kern_buf, spinLock, spinSpoilt>>
  BY DEF SpinBegin, SpinAt
<1>2. CASE SpinGoto(t, "read") /\ spinUser' = [spinUser EXCEPT ![t] = Both(0)] /\ UNCHANGED spinSent
  <2>1. /\ spinPc'[t].at = "read" /\ \A u \in SpinThreads : u # t => spinPc'[u] = spinPc[u]
        /\ spinPc' \in [SpinThreads -> [at : SpinLabels, msg : 0 .. spinSent]]
    BY <1>2, SpinMoved DEF SpinLabels
  <2>2. spinUser'[t] = Both(0) /\ \A u \in SpinThreads : u # t => spinUser'[u] = spinUser[u]
    BY <1>2 DEF SpinTypes
  <2>3. SpinTypes'
    <3>1. Both(0) \in [str : SpinValues, len : SpinValues]
      BY DEF SpinTypes, SpinValues, Both
    <3> QED
      BY <1>1, <1>2, <2>1, <3>1 DEF SpinTypes, SpinValues
  <2>4. SpinLocked' /\ SpinBefore'
    BY <1>1, <2>1 DEF SpinLocked, SpinBefore, NoBuffer
  <2>5. SpinBuffer'
    BY <1>1, <2>1 DEF SpinBuffer, Usable, OfOne, Tainted, Blank
  <2>6. SpinReaders'
    <3>1. spinUser'[t].str = spinUser'[t].len
      BY <2>2, BothFields
    <3> QED
      BY <1>1, <2>1, <2>2, <3>1 DEF SpinReaders, OfOne, Tainted, Blank
  <2>7. SpinUnique'
    <3>1. spinUser'[t].str = 0 /\ 0 \in Nothing
      BY <2>2, BothFields DEF Nothing
    <3>2. \A u \in SpinThreads : ToWrite(u)' => ToWrite(u) /\ spinPc'[u] = spinPc[u]
      BY <2>1 DEF ToWrite
    <3>3. ASSUME NEW u \in SpinThreads, ToWrite(u)'
          PROVE  /\ spinPc'[u].msg \notin Nothing /\ kern_buf'.str # spinPc'[u].msg
                 /\ \A v \in SpinThreads : /\ spinUser'[v].str # spinPc'[u].msg
                                           /\ ToWrite(v)' /\ v # u => spinPc'[v].msg # spinPc'[u].msg
      <4>1. ToWrite(u) /\ spinPc'[u].msg = spinPc[u].msg
        BY <3>2, <3>3
      <4>2. /\ spinPc[u].msg \notin Nothing /\ kern_buf.str # spinPc[u].msg
            /\ \A v \in SpinThreads : /\ spinUser[v].str # spinPc[u].msg
                                      /\ ToWrite(v) /\ v # u => spinPc[v].msg # spinPc[u].msg
        BY <4>1 DEF SpinUnique
      <4>3. \A v \in SpinThreads : spinUser'[v].str # spinPc[u].msg
        BY <2>2, <3>1, <4>2
      <4>4. \A v \in SpinThreads : ToWrite(v)' /\ v # u => spinPc'[v].msg # spinPc[u].msg
        BY <3>2, <4>2
      <4> QED
        BY <1>1, <4>1, <4>2, <4>3, <4>4
    <3>4. ASSUME NEW u \in SpinThreads, spinUser'[u].str \notin Nothing, spinUser'[u].str = kern_buf'.str
          PROVE  spinPc'[u].at \in {"read_len", "clear"}
      BY <1>1, <2>1, <2>2, <3>1, <3>4 DEF SpinUnique
    <3>5. ASSUME NEW u \in SpinThreads, NEW v \in SpinThreads, u # v, spinUser'[u].str = spinUser'[v].str
          PROVE  spinUser'[u].str \in Nothing
      BY <2>2, <3>1, <3>5 DEF SpinUnique
    <3> QED
      BY <3>3, <3>4, <3>5 DEF SpinUnique, Nothing
  <2> QED
    BY <2>3, <2>4, <2>5, <2>6, <2>7
<1>3. CASE /\ spinSent' = spinSent + 1 /\ UNCHANGED spinUser
           /\ spinPc' = [spinPc EXCEPT ![t] = [at |-> "write", msg |-> spinSent + 1]]
  <2>1. /\ spinPc'[t].at = "write" /\ spinPc'[t].msg = spinSent + 1
        /\ \A u \in SpinThreads : u # t => spinPc'[u] = spinPc[u]
    BY <1>3 DEF SpinTypes
  <2>2. SpinTypes'
    <3>1. spinSent \in Nat /\ spinSent' \in Nat /\ spinSent + 1 \in 0 .. spinSent'
          /\ SpinValues \subseteq SpinValues' /\ 0 .. spinSent \subseteq 0 .. spinSent'
      BY <1>3, JunkFacts DEF SpinTypes, SpinValues
    <3>2. spinPc' \in [SpinThreads -> [at : SpinLabels, msg : 0 .. spinSent']]
      <4>1. [at |-> "write", msg |-> spinSent + 1] \in [at : SpinLabels, msg : 0 .. spinSent']
        BY <3>1 DEF SpinLabels
      <4>2. \A u \in SpinThreads : spinPc[u] \in [at : SpinLabels, msg : 0 .. spinSent']
        BY <3>1 DEF SpinTypes
      <4> QED
        BY <1>3, <4>1, <4>2 DEF SpinTypes
    <3>3. \A r \in [str : SpinValues, len : SpinValues] : r \in [str : SpinValues', len : SpinValues']
      BY <3>1
    <3> HIDE DEF SpinIInv
    <3> QED
      BY <1>1, <1>3, <3>1, <3>2, <3>3 DEF SpinTypes, SpinIInv
  <2>3. SpinLocked' /\ SpinBefore'
    BY <1>1, <2>1 DEF SpinLocked, SpinBefore, NoBuffer
  <2>4. SpinBuffer'
    BY <1>1, <2>1 DEF SpinBuffer, Usable, OfOne, Tainted, Blank
  <2>5. SpinReaders'
    BY <1>1, <1>3, <2>1 DEF SpinReaders, OfOne, Tainted, Blank
  <2>6. SpinUnique'
    <3>1. /\ spinSent \in Nat /\ spinSent + 1 \notin Nothing /\ spinSent + 1 \notin SpinValues
          /\ \A u \in SpinThreads : spinPc[u].msg # spinSent + 1
      <4>1. spinSent \in Nat /\ \A u \in SpinThreads : spinPc[u].msg \in 0 .. spinSent
        BY DEF SpinTypes
      <4>2. spinSent + 1 \notin 0 .. spinSent /\ spinSent + 1 # SpinJunk /\ spinSent + 1 # 0
        BY <4>1, JunkFacts
      <4> QED
        BY <4>1, <4>2 DEF SpinValues, Nothing
    <3>2. kern_buf.str \in SpinValues /\ \A u \in SpinThreads : spinUser[u].str \in SpinValues
      BY DEF SpinTypes
    <3>3. ASSUME NEW u \in SpinThreads, ToWrite(u)', u # t
          PROVE  /\ ToWrite(u) /\ spinPc'[u].msg = spinPc[u].msg
      BY <2>1, <3>3 DEF ToWrite
    <3> HIDE DEF SpinIInv
    <3>4. SpinUnique
      BY DEF SpinIInv
    <3>5. \A u \in SpinThreads : spinUser[u].str # spinSent + 1
      BY <3>1, <3>2
    <3>6. kern_buf.str # spinSent + 1
      BY <3>1, <3>2
    <3>7. ASSUME NEW u \in SpinThreads, ToWrite(u)'
          PROVE  /\ spinPc'[u].msg \notin Nothing /\ kern_buf'.str # spinPc'[u].msg
                 /\ \A v \in SpinThreads : /\ spinUser'[v].str # spinPc'[u].msg
                                           /\ ToWrite(v)' /\ v # u => spinPc'[v].msg # spinPc'[u].msg
      <4>1. CASE u = t
        BY <1>1, <1>3, <2>1, <3>1, <3>3, <3>5, <3>6, <4>1
      <4>2. CASE u # t
        <5>1. ToWrite(u) /\ spinPc'[u].msg = spinPc[u].msg
          BY <3>3, <3>7, <4>2
        <5>2. ASSUME NEW v \in SpinThreads, ToWrite(v)', v # u
              PROVE  spinPc'[v].msg # spinPc'[u].msg
          <6>1. CASE v = t
            BY <2>1, <3>1, <5>1, <6>1
          <6>2. CASE v # t
            BY <3>3, <3>4, <5>1, <5>2, <6>2 DEF SpinUnique
          <6> QED
            BY <6>1, <6>2
        <5> QED
          BY <1>1, <1>3, <3>4, <5>1, <5>2 DEF SpinUnique
      <4> QED
        BY <4>1, <4>2
    <3>8. ASSUME NEW u \in SpinThreads, spinUser'[u].str \notin Nothing, spinUser'[u].str = kern_buf'.str
          PROVE  spinPc'[u].at \in {"read_len", "clear"}
      BY <1>1, <1>3, <2>1, <3>4, <3>8 DEF SpinUnique
    <3>9. \A u, v \in SpinThreads : u # v /\ spinUser'[u].str = spinUser'[v].str => spinUser'[u].str \in Nothing
      BY <1>3, <3>4 DEF SpinUnique
    <3> QED
      BY <3>7, <3>8, <3>9 DEF SpinUnique, Nothing
  <2> QED
    BY <2>2, <2>3, <2>4, <2>5, <2>6
<1> QED
  BY <1>2, <1>3 DEF SpinBegin

LEMMA SpinAcquireKeeps ==
  ASSUME SpinIInv, NEW t \in SpinThreads, SpinAcquire(t) \/ SpinOops(t)
  PROVE  SpinIInv'
<1> USE DEF SpinIInv
<1>1. UNCHANGED <<spinModule, kern_buf, spinUser, spinSent, spinSpoilt>>
  BY DEF SpinAcquire, SpinOops
<1>2. PICK l \in {"read_str", "write_str", "oops"} :
        /\ SpinGoto(t, l)
        /\ \/ spinPc[t].at = "read" /\ l = "read_str" /\ spinLock = NoThread /\ spinLock' = t
           \/ spinPc[t].at = "write" /\ l = "write_str" /\ spinLock = NoThread /\ spinLock' = t
           \/ spinPc[t].at \in {"read_str", "write_str"} /\ l = "oops" /\ spinLock' = spinLock
  BY DEF SpinAcquire, SpinOops, SpinAt
<1>3. /\ spinPc'[t].at = l /\ spinPc'[t].msg = spinPc[t].msg
      /\ \A u \in SpinThreads : u # t => spinPc'[u] = spinPc[u]
      /\ spinPc' \in [SpinThreads -> [at : SpinLabels, msg : 0 .. spinSent]]
  <2>1. l \in SpinLabels
    BY DEF SpinLabels
  <2> QED
    BY <1>2, <2>1, SpinMoved
<1>4. SpinTypes'
  BY <1>1, <1>2, <1>3 DEF SpinTypes, SpinValues
<1>5. SpinLocked'
  BY <1>2, <1>3, SpinAssumption DEF SpinLocked
<1>6. SpinBefore'
  BY <1>1, <1>2, <1>3 DEF SpinBefore, NoBuffer
<1>7. SpinBuffer'
  BY <1>1, <1>2, <1>3 DEF SpinBuffer, Usable, OfOne, Tainted, Blank
<1>8. SpinReaders'
  BY <1>1, <1>2, <1>3 DEF SpinReaders, OfOne, Tainted, Blank
<1>9. SpinUnique'
  <2>1. \A u \in SpinThreads : ToWrite(u)' => ToWrite(u) /\ spinPc'[u].msg = spinPc[u].msg
    BY <1>2, <1>3 DEF ToWrite
  <2>2. \A u \in SpinThreads : spinPc[u].at \in {"read_len", "clear"} => spinPc'[u].at = spinPc[u].at
    BY <1>2, <1>3
  <2> QED
    BY <1>1, <2>1, <2>2, UniqueKept
<1> QED
  BY <1>4, <1>5, <1>6, <1>7, <1>8, <1>9

(* The lock keeps all other threads out of the critical section.            *)
LEMMA SpinAlone ==
  ASSUME SpinIInv, NEW t \in SpinThreads, spinPc[t].at \notin {"idle", "read", "write"}
  PROVE  /\ spinLock = t
         /\ \A u \in SpinThreads : u # t => spinPc[u].at \in {"idle", "read", "write"}
BY DEF SpinIInv, SpinLocked

LEMMA CopyToUserKeeps ==
  ASSUME SpinIInv, NEW t \in SpinThreads, CopyToUser(t)
  PROVE  SpinIInv'
<1> USE DEF SpinIInv
<1>1. UNCHANGED <<spinModule, kern_buf, spinLock, spinSent>> /\ ~NoBuffer
  BY DEF CopyToUser
<1>2. /\ spinPc[t].at \in {"read_str", "read_len"} /\ spinLock = t
      /\ \A u \in SpinThreads : u # t => spinPc[u].at \in {"idle", "read", "write"}
  BY SpinAlone DEF CopyToUser, SpinAt
<1>3. PICK l \in {"read_len", "clear"} :
        /\ SpinGoto(t, l)
        /\ \/ /\ spinPc[t].at = "read_str" /\ l = "read_len" /\ UNCHANGED spinSpoilt
              /\ spinUser' = [spinUser EXCEPT ![t].str = kern_buf.str]
           \/ /\ spinPc[t].at = "read_len" /\ l = "clear" /\ UNCHANGED spinSpoilt
              /\ spinUser' = [spinUser EXCEPT ![t].len = kern_buf.len]
           \/ /\ l = "clear" /\ UNCHANGED spinUser
              /\ spinSpoilt' = spinSpoilt \cup
                         ({spinUser[t].str, kern_buf.str, kern_buf.len} \ {0, SpinJunk})
  BY DEF CopyToUser, SpinAt
<1>4. /\ spinPc'[t].at = l /\ spinPc'[t].msg = spinPc[t].msg
      /\ \A u \in SpinThreads : u # t => spinPc'[u] = spinPc[u]
      /\ spinPc' \in [SpinThreads -> [at : SpinLabels, msg : 0 .. spinSent]]
  <2>1. l \in SpinLabels
    BY DEF SpinLabels
  <2> QED
    BY <1>3, <2>1, SpinMoved
<1>5. /\ spinUser' \in [SpinThreads -> [str : SpinValues, len : SpinValues]]
      /\ \A u \in SpinThreads : u # t => spinUser'[u] = spinUser[u]
      /\ spinUser'[t].str = IF l = "read_len" THEN kern_buf.str ELSE spinUser[t].str
      /\ l = "read_len" => spinUser'[t].len = spinUser[t].len
      /\ \/ spinPc[t].at = "read_len" /\ l = "clear" /\ spinUser'[t].len = kern_buf.len
         \/ spinUser'[t].len = spinUser[t].len
  <2>1. spinUser[t] \in [str : SpinValues, len : SpinValues] /\ spinUser[t] = spinUser[t]
    BY DEF SpinTypes
  <2>2. kern_buf.str \in SpinValues /\ kern_buf.len \in SpinValues
    BY DEF SpinTypes
  <2>3. CASE l = "read_len" /\ spinUser' = [spinUser EXCEPT ![t].str = kern_buf.str]
    BY <2>1, <2>2, <2>3 DEF SpinTypes
  <2>4. CASE /\ spinPc[t].at = "read_len" /\ l = "clear"
             /\ spinUser' = [spinUser EXCEPT ![t].len = kern_buf.len]
    BY <2>1, <2>2, <2>4 DEF SpinTypes
  <2>5. CASE l = "clear" /\ UNCHANGED spinUser
    BY <2>5 DEF SpinTypes
  <2> QED
    BY <1>3, <2>3, <2>4, <2>5
<1>6. Tainted \subseteq Tainted' /\ Blank \subseteq Blank' /\ spinSpoilt \subseteq spinSpoilt'
  BY <1>3 DEF Tainted, Blank
<1>7. SpinTypes'
  BY <1>1, <1>4, <1>5 DEF SpinTypes, SpinValues
<1>8. SpinLocked' /\ SpinBefore'
  BY <1>1, <1>2, <1>4 DEF SpinLocked, SpinBefore, NoBuffer
<1>9. SpinBuffer'
  BY <1>1, <1>2, <1>4, <1>6 DEF SpinBuffer, Usable, OfOne
<1>10. SpinReaders'
  <2>1. ASSUME NEW u \in SpinThreads, u # t
        PROVE  /\ spinPc'[u].at \in {"read", "read_str"} => spinUser'[u] = Both(0)
               /\ spinPc'[u].at # "read_len" /\ OfOne(spinUser[u].str, spinUser[u].len)'
    BY <1>2, <1>4, <1>5, <1>6, <2>1 DEF SpinReaders, OfOne
  <2>2. CASE l = "read_len"
    <3>1. spinPc[t].at = "read_str" /\ spinUser[t] = Both(0)
      BY <1>3, <2>2 DEF SpinReaders
    <3>2. OfOne(kern_buf.str, kern_buf.len)
      BY <1>2, <3>1 DEF SpinBuffer
    <3>3. spinUser'[t].str = kern_buf.str /\ spinUser'[t].len = 0
      BY <1>5, <2>2, <3>1, BothFields
    <3>4. OfOne(spinUser[t].str, kern_buf.len)'
      BY <1>1, <1>6, <3>2, <3>3 DEF OfOne
    <3>5. spinModule' = "allocated" => spinUser'[t].str \in Blank'
      BY <1>1, <1>6, <3>3 DEF SpinBuffer
    <3> QED
      BY <1>4, <2>1, <2>2, <3>3, <3>4, <3>5 DEF SpinReaders
  <2>3. CASE l = "clear"
    <3>1. OfOne(spinUser[t].str, spinUser[t].len)'
      <4>1. CASE spinPc[t].at = "read_len" /\ spinUser'[t].len = kern_buf.len
        BY <1>5, <1>6, <2>3, <4>1 DEF SpinReaders, OfOne
      <4>2. CASE /\ spinUser' = spinUser
                 /\ spinSpoilt' = spinSpoilt \cup
                         ({spinUser[t].str, kern_buf.str, kern_buf.len} \ {0, SpinJunk})
        <5>1. spinUser[t].len = 0 \/ spinUser[t] = Both(0)
          BY <1>2 DEF SpinReaders
        <5>2. spinUser[t].len = 0
          BY <5>1, BothFields
        <5>3. spinUser[t].str = 0 \/ spinUser[t].str \in Tainted'
          BY <4>2 DEF Tainted
        <5> QED
          BY <4>2, <5>2, <5>3 DEF OfOne
      <4> QED
        BY <1>3, <1>5, <2>3, <4>1, <4>2
    <3> QED
      BY <1>4, <2>1, <2>3, <3>1 DEF SpinReaders
  <2> QED
    BY <2>2, <2>3
<1>11. SpinUnique'
  <2>1. \A u \in SpinThreads : ToWrite(u)' => ToWrite(u) /\ u # t /\ spinPc'[u] = spinPc[u]
    BY <1>2, <1>4 DEF ToWrite
  <2>2. \A u \in SpinThreads : u # t /\ spinUser[u].str = kern_buf.str => spinUser[u].str \in Nothing
    BY <1>2 DEF SpinUnique
  <2>3. \A u \in SpinThreads : spinUser'[u].str = spinUser[u].str \/ (u = t /\ spinUser'[u].str = kern_buf.str)
    BY <1>5
  <2>4. ASSUME NEW u \in SpinThreads, ToWrite(u)'
        PROVE  /\ spinPc'[u].msg \notin Nothing /\ kern_buf'.str # spinPc'[u].msg
               /\ \A v \in SpinThreads : /\ spinUser'[v].str # spinPc'[u].msg
                                         /\ ToWrite(v)' /\ v # u => spinPc'[v].msg # spinPc'[u].msg
    BY <1>1, <2>1, <2>3, <2>4 DEF SpinUnique
  <2>5. ASSUME NEW u \in SpinThreads, spinUser'[u].str \notin Nothing, spinUser'[u].str = kern_buf'.str
        PROVE  spinPc'[u].at \in {"read_len", "clear"}
    BY <1>1, <1>4, <1>5, <2>2, <2>5
  <2>6. ASSUME NEW u \in SpinThreads, NEW v \in SpinThreads, u # v, spinUser'[u].str = spinUser'[v].str
        PROVE  spinUser'[u].str \in Nothing
    BY <2>2, <2>3, <2>6 DEF SpinUnique
  <2> QED
    BY <2>4, <2>5, <2>6 DEF SpinUnique, Nothing
<1> QED
  BY <1>7, <1>8, <1>9, <1>10, <1>11

LEMMA ClearKeeps ==
  ASSUME SpinIInv, NEW t \in SpinThreads, Clear(t)
  PROVE  SpinIInv'
<1> USE DEF SpinIInv
<1>1. /\ UNCHANGED <<spinModule, spinLock, spinUser, spinSent, spinSpoilt>>
      /\ spinPc[t].at = "clear" /\ SpinGoto(t, "unlock")
  BY DEF Clear, SpinAt
<1>2. \A u \in SpinThreads : u # t => spinPc[u].at \in {"idle", "read", "write"}
  BY <1>1, SpinAlone
<1>3. kern_buf' = IF Usable THEN Both(0) ELSE Both(SpinJunk)
  BY DEF Clear, SpinBuffer
<1>4. /\ spinPc'[t].at = "unlock" /\ spinPc'[t].msg = spinPc[t].msg
      /\ \A u \in SpinThreads : u # t => spinPc'[u] = spinPc[u]
      /\ spinPc' \in [SpinThreads -> [at : SpinLabels, msg : 0 .. spinSent]]
  BY <1>1, SpinMoved DEF SpinLabels
<1>5. kern_buf'.str = kern_buf'.len /\ kern_buf'.str \in Nothing /\ kern_buf'.str \in Blank
  BY <1>3, BothFields DEF Nothing, Blank, Tainted
<1>6. SpinTypes'
  <2>1. kern_buf' \in [str : SpinValues, len : SpinValues]
    BY <1>3 DEF Both, SpinValues, SpinTypes
  <2> QED
    BY <1>1, <1>4, <2>1 DEF SpinTypes, SpinValues
<1>7. SpinLocked' /\ SpinBefore'
  BY <1>1, <1>4 DEF SpinLocked, SpinBefore, NoBuffer
<1>8. SpinBuffer'
  BY <1>1, <1>2, <1>3, <1>4, <1>5 DEF SpinBuffer, Usable, OfOne, Blank, Tainted
<1>9. SpinReaders'
  BY <1>1, <1>2, <1>4 DEF SpinReaders, OfOne, Blank, Tainted
<1>10. SpinUnique'
  <2>1. \A u \in SpinThreads : ToWrite(u)' => ToWrite(u) /\ spinPc'[u] = spinPc[u]
    BY <1>1, <1>4 DEF ToWrite
  <2> QED
    BY <1>1, <1>5, <2>1 DEF SpinUnique, Nothing
<1> QED
  BY <1>6, <1>7, <1>8, <1>9, <1>10

LEMMA CopyFromUserKeeps ==
  ASSUME SpinIInv, NEW t \in SpinThreads, CopyFromUser(t)
  PROVE  SpinIInv'
<1> USE DEF SpinIInv
<1> DEFINE m == spinPc[t].msg
<1>1. UNCHANGED <<spinModule, spinLock, spinUser, spinSent>> /\ ~NoBuffer
  BY DEF CopyFromUser
<1>2. /\ spinPc[t].at \in {"write_str", "write_len"} /\ spinLock = t
      /\ \A u \in SpinThreads : u # t => spinPc[u].at \in {"idle", "read", "write"}
  BY SpinAlone DEF CopyFromUser, SpinAt
<1>3. PICK l \in {"write_len", "unlock"} :
        /\ SpinGoto(t, l)
        /\ ~Usable => kern_buf' = kern_buf
        /\ \/ /\ spinPc[t].at = "write_str" /\ l = "write_len"
              /\ Usable => kern_buf' = [kern_buf EXCEPT !.str = m]
              /\ spinSpoilt' = spinSpoilt \cup Spoilt(t)
           \/ /\ spinPc[t].at = "write_len" /\ l = "unlock"
              /\ Usable => kern_buf' = [kern_buf EXCEPT !.len = m]
              /\ spinSpoilt' = spinSpoilt \cup Spoilt(t)
           \/ /\ spinPc[t].at = "write_str" /\ l = "unlock"
              /\ Usable => kern_buf' = Both(0)
              /\ spinSpoilt' = spinSpoilt \cup {m}
           \/ /\ spinPc[t].at = "write_len" /\ l = "unlock"
              /\ Usable => kern_buf' = [kern_buf EXCEPT !.len = 0]
              /\ spinSpoilt' = spinSpoilt \cup {m}
  BY DEF CopyFromUser, SpinAt
<1>4. /\ spinPc'[t].at = l /\ spinPc'[t].msg = m
      /\ \A u \in SpinThreads : u # t => spinPc'[u] = spinPc[u]
      /\ spinPc' \in [SpinThreads -> [at : SpinLabels, msg : 0 .. spinSent]]
  <2>1. l \in SpinLabels
    BY DEF SpinLabels
  <2> QED
    BY <1>3, <2>1, SpinMoved
<1>5. /\ kern_buf \in [str : SpinValues, len : SpinValues] /\ m \in SpinValues /\ 0 \in SpinValues
      /\ spinSent \in Nat
  <2>1. kern_buf \in [str : SpinValues, len : SpinValues] /\ m \in 0 .. spinSent /\ spinSent \in Nat
    BY DEF SpinTypes
  <2> QED
    BY <2>1, ZeroFirst DEF SpinValues
<1>6. kern_buf' \in [str : SpinValues, len : SpinValues]
  <2>1. Both(0) \in [str : SpinValues, len : SpinValues]
    BY <1>5 DEF Both
  <2>2. \A x \in SpinValues : /\ [kern_buf EXCEPT !.str = x] \in [str : SpinValues, len : SpinValues]
                              /\ [kern_buf EXCEPT !.len = x] \in [str : SpinValues, len : SpinValues]
    BY <1>5
  <2> QED
    BY <1>3, <1>5, <2>1, <2>2
<1>7. /\ Tainted \subseteq Tainted' /\ spinSpoilt \subseteq spinSpoilt' /\ Blank \subseteq Blank'
      /\ spinModule # "loaded" => m \in spinSpoilt'
  BY <1>3 DEF Tainted, Blank, Spoilt
<1>8. SpinTypes'
  BY <1>1, <1>4, <1>6 DEF SpinTypes, SpinValues
<1>9. SpinLocked' /\ SpinBefore'
  BY <1>1, <1>2, <1>3, <1>4 DEF SpinLocked, SpinBefore, NoBuffer
<1>10. Usable => \/ kern_buf'.str = kern_buf.str /\ kern_buf'.len = m /\ spinPc[t].at = "write_len" /\ l = "unlock"
                 \/ kern_buf'.str = kern_buf.str /\ kern_buf'.len = 0 /\ spinPc[t].at = "write_len" /\ l = "unlock"
                    /\ m \in spinSpoilt'
                 \/ kern_buf'.str = m /\ kern_buf'.len = kern_buf.len /\ l = "write_len"
                    /\ spinPc[t].at = "write_str"
                 \/ kern_buf'.str = 0 /\ kern_buf'.len = 0 /\ l = "unlock"
  BY <1>3, <1>5, BothFields
<1>11. SpinBuffer'
  <2>1. ~Usable' => kern_buf' = Both(SpinJunk)
    BY <1>1, <1>3 DEF SpinBuffer, Usable
  <2>2. spinModule' = "allocated" => kern_buf'.str \in Blank' /\ kern_buf'.len \in Blank'
    <3> SUFFICES ASSUME spinModule = "allocated" PROVE kern_buf'.str \in Blank' /\ kern_buf'.len \in Blank'
      BY <1>1
    <3>1. Usable /\ m \in Blank' /\ 0 \in Blank'
      BY <1>7 DEF Usable, Blank, Tainted
    <3>2. kern_buf.str \in Blank' /\ kern_buf.len \in Blank'
      BY <1>7 DEF SpinBuffer
    <3> QED
      BY <1>10, <3>1, <3>2
  <2>3. CASE l = "unlock"
    <3>1. OfOne(kern_buf.str, kern_buf.len)'
      <4>1. CASE ~Usable
        <5>1. kern_buf' = Both(SpinJunk)
          BY <1>3, <4>1 DEF SpinBuffer
        <5>2. kern_buf'.str = kern_buf'.len
          BY <5>1, BothFields
        <5> QED
          BY <5>2 DEF OfOne
      <4>2. CASE Usable /\ spinPc[t].at = "write_str"
        BY <1>10, <2>3, <4>2 DEF OfOne
      <4>3. CASE Usable /\ spinPc[t].at = "write_len"
        <5>1. kern_buf.str = m \/ (kern_buf.str = 0 /\ m \in spinSpoilt)
          BY <4>3 DEF SpinBuffer
        <5> QED
          BY <1>7, <1>10, <2>3, <4>3, <5>1 DEF OfOne, Tainted
      <4> QED
        BY <1>2, <4>1, <4>2, <4>3
    <3>2. \A u \in SpinThreads : spinPc'[u].at # "write_len"
      BY <1>2, <1>4, <2>3
    <3> QED
      BY <2>1, <2>2, <3>1, <3>2 DEF SpinBuffer
  <2>4. CASE l = "write_len"
    <3>1. spinPc[t].at = "write_str"
      BY <1>3, <2>4
    <3>2. Usable => kern_buf'.str = m
      BY <1>10, <2>4, <3>1
    <3>3. spinModule' = "allocated" => m \in spinSpoilt'
      BY <1>1, <1>7
    <3>4. \A u \in SpinThreads : spinPc'[u].at = "write_len" => u = t
      BY <1>2, <1>4
    <3>5. Usable' = Usable
      BY <1>1 DEF Usable
    <3> QED
      BY <1>4, <2>1, <2>2, <2>4, <3>2, <3>3, <3>4, <3>5 DEF SpinBuffer
  <2> QED
    BY <2>3, <2>4
<1>12. SpinReaders'
  <2>1. ASSUME NEW u \in SpinThreads
        PROVE  /\ spinPc'[u].at \in {"read", "read_str"} => spinUser'[u] = Both(0)
               /\ spinPc'[u].at # "read_len" /\ OfOne(spinUser[u].str, spinUser[u].len)'
    <3>1. OfOne(spinUser[u].str, spinUser[u].len) /\ spinPc[u].at # "read_len"
      BY <1>2 DEF SpinReaders
    <3>2. OfOne(spinUser[u].str, spinUser[u].len)'
      BY <1>1, <1>7, <3>1 DEF OfOne
    <3> QED
      BY <1>1, <1>2, <1>4, <3>2 DEF SpinReaders
  <2> QED
    BY <2>1 DEF SpinReaders
<1>13. SpinUnique'
  <2>1. \A u \in SpinThreads : ToWrite(u)' => ToWrite(u) /\ u # t /\ spinPc'[u] = spinPc[u]
    BY <1>2, <1>4 DEF ToWrite
  <2>2. kern_buf'.str = kern_buf.str \/ kern_buf'.str = 0
        \/ (kern_buf'.str = m /\ spinPc[t].at = "write_str")
    BY <1>3, <1>10
  <2>3. ASSUME NEW u \in SpinThreads, ToWrite(u)'
        PROVE  /\ spinPc'[u].msg \notin Nothing /\ kern_buf'.str # spinPc'[u].msg
               /\ \A v \in SpinThreads : /\ spinUser'[v].str # spinPc'[u].msg
                                         /\ ToWrite(v)' /\ v # u => spinPc'[v].msg # spinPc'[u].msg
    <3>1. ToWrite(u) /\ u # t /\ spinPc'[u] = spinPc[u]
      BY <2>1, <2>3
    <3>2. spinPc[t].at = "write_str" => m # spinPc[u].msg
      BY <3>1 DEF SpinUnique, ToWrite
    <3>3. spinPc[u].msg # 0 /\ kern_buf.str # spinPc[u].msg
      BY <3>1 DEF SpinUnique, Nothing
    <3>4. kern_buf'.str # spinPc[u].msg
      BY <2>2, <3>2, <3>3
    <3> QED
      BY <1>1, <2>1, <3>1, <3>4 DEF SpinUnique
  <2>4. ASSUME NEW u \in SpinThreads, spinUser'[u].str \notin Nothing, spinUser'[u].str = kern_buf'.str
        PROVE  FALSE
    <3>1. spinUser[u].str = kern_buf'.str /\ spinUser[u].str \notin Nothing
      BY <1>1, <2>4
    <3>2. spinUser[u].str # kern_buf.str
      BY <1>2, <3>1 DEF SpinUnique
    <3>3. spinPc[t].at = "write_str" => spinUser[u].str # m
      BY DEF SpinUnique, ToWrite
    <3> QED
      BY <2>2, <3>1, <3>2, <3>3 DEF Nothing
  <2>5. \A u, v \in SpinThreads : u # v /\ spinUser'[u].str = spinUser'[v].str => spinUser'[u].str \in Nothing
    BY <1>1 DEF SpinUnique
  <2> QED
    BY <2>3, <2>4, <2>5 DEF SpinUnique, Nothing
<1> QED
  BY <1>8, <1>9, <1>11, <1>12, <1>13

LEMMA SpinUnlockKeeps ==
  ASSUME SpinIInv, NEW t \in SpinThreads, SpinUnlock(t)
  PROVE  SpinIInv'
<1> USE DEF SpinIInv
<1>1. /\ UNCHANGED <<spinModule, kern_buf, spinUser, spinSent, spinSpoilt>>
      /\ spinPc[t].at = "unlock" /\ spinLock' = NoThread
  BY DEF SpinUnlock, SpinAt
<1>2. \A u \in SpinThreads : u # t => spinPc[u].at \in {"idle", "read", "write"}
  BY <1>1, SpinAlone
<1>3. /\ spinPc'[t].at = "idle" /\ \A u \in SpinThreads : u # t => spinPc'[u] = spinPc[u]
      /\ spinPc' \in [SpinThreads -> [at : SpinLabels, msg : 0 .. spinSent]]
  <2>1. SpinIdle.at = "idle" /\ SpinIdle \in [at : SpinLabels, msg : 0 .. spinSent]
    <3>1. 0 \in 0 .. spinSent
      BY ZeroFirst DEF SpinTypes
    <3> QED
      BY <3>1 DEF SpinIdle, SpinLabels
  <2> QED
    BY <2>1 DEF SpinUnlock, SpinTypes
<1>4. SpinTypes'
  BY <1>1, <1>3 DEF SpinTypes, SpinValues
<1>5. SpinLocked' /\ SpinBefore'
  BY <1>1, <1>2, <1>3, SpinAssumption DEF SpinLocked, SpinBefore, NoBuffer
<1>6. SpinBuffer'
  BY <1>1, <1>2, <1>3 DEF SpinBuffer, Usable, OfOne, Blank, Tainted
<1>7. SpinReaders'
  BY <1>1, <1>2, <1>3 DEF SpinReaders, OfOne, Blank, Tainted
<1>8. SpinUnique'
  <2>1. \A u \in SpinThreads : ToWrite(u)' => ToWrite(u) /\ spinPc'[u].msg = spinPc[u].msg
    BY <1>3 DEF ToWrite
  <2>2. \A u \in SpinThreads : spinPc[u].at \in {"read_len", "clear"} => spinPc'[u].at = spinPc[u].at
    BY <1>1, <1>3
  <2> QED
    BY <1>1, <2>1, <2>2, UniqueKept
<1> QED
  BY <1>4, <1>5, <1>6, <1>7, <1>8

(* init and exit, with calls under way.                                     *)
LEMMA SpinModuleKeeps ==
  ASSUME SpinIInv, SpinLoad \/ SpinExit
  PROVE  SpinIInv'
<1> USE DEF SpinIInv
<1>1. UNCHANGED <<spinLock, spinPc, spinUser, spinSent, spinSpoilt>>
  BY DEF SpinLoad, SpinExit
<1>2. \/ spinModule = "adding" /\ spinModule' \in {"allocated", "broken"} /\ kern_buf' = kern_buf
      \/ spinModule = "allocated" /\ spinModule' = "loaded" /\ kern_buf' = Both(0)
      \/ spinModule = "loaded" /\ spinModule' = "freed" /\ kern_buf' = Both(SpinJunk)
      \/ spinModule = "freed" /\ spinModule' = "unloaded" /\ kern_buf' = kern_buf
  BY DEF SpinLoad, SpinExit
<1>3. kern_buf' = Both(0) \/ kern_buf' = Both(SpinJunk)
  BY <1>2 DEF SpinBuffer, Usable
<1>4. kern_buf'.str = kern_buf'.len /\ kern_buf'.str \in Nothing /\ kern_buf'.str \in Blank
  BY <1>3, BothFields DEF Nothing, Blank, Tainted
<1>5. SpinTypes'
  <2>1. kern_buf' \in [str : SpinValues, len : SpinValues]
    BY <1>3 DEF Both, SpinValues, SpinTypes
  <2> QED
    BY <1>1, <1>2, <2>1 DEF SpinTypes, SpinValues
<1>6. SpinLocked'
  BY <1>1 DEF SpinLocked
<1>7. SpinBefore'
  BY <1>1, <1>2 DEF SpinBefore, NoBuffer
<1>8. SpinBuffer'
  <2>1. ASSUME NEW t \in SpinThreads, spinPc[t].at = "write_len"
        PROVE  /\ Usable' => kern_buf'.str = 0 /\ spinPc[t].msg \in spinSpoilt
               /\ spinModule' # "allocated"
    <3>1. spinModule # "adding"
      BY <2>1 DEF SpinBefore, NoBuffer
    <3>2. Usable' => spinModule = "allocated" /\ kern_buf' = Both(0)
      BY <1>2, <3>1 DEF Usable
    <3> QED
      BY <1>2, <2>1, <3>1, <3>2, BothFields DEF SpinBuffer
  <2>2. ~Usable' => kern_buf' = Both(SpinJunk)
    BY <1>2 DEF Usable, SpinBuffer
  <2> QED
    BY <1>1, <1>4, <2>1, <2>2 DEF SpinBuffer, OfOne, Blank, Tainted
<1>9. SpinReaders'
  <2>1. ASSUME NEW t \in SpinThreads, spinPc[t].at = "read_len"
        PROVE  OfOne(spinUser[t].str, kern_buf.len)' /\ spinModule' # "allocated"
    <3>1. spinModule # "adding"
      BY <2>1 DEF SpinBefore, NoBuffer
    <3>2. CASE kern_buf' = Both(SpinJunk)
      BY <1>2, <3>1, <3>2, BothFields DEF OfOne, Tainted
    <3>3. CASE spinModule = "allocated" /\ spinModule' = "loaded" /\ kern_buf' = Both(0)
      <4>1. spinUser[t].str \in Blank
        BY <2>1, <3>3 DEF SpinReaders
      <4> QED
        BY <1>1, <3>3, <4>1, BothFields DEF OfOne, Blank, Tainted
    <3> QED
      BY <1>2, <3>1, <3>2, <3>3 DEF SpinBuffer, Usable
  <2> QED
    BY <1>1, <2>1 DEF SpinReaders, OfOne, Tainted
<1>10. SpinUnique'
  BY <1>1, <1>4 DEF SpinUnique, ToWrite, Nothing
<1> QED
  BY <1>5, <1>6, <1>7, <1>8, <1>9, <1>10

LEMMA SpinInductive == SpinIInv /\ [SpinNext]_spinVars => SpinIInv'
<1>1. SpinIInv /\ UNCHANGED spinVars => SpinIInv'
  <2> SUFFICES ASSUME SpinIInv, UNCHANGED spinVars PROVE SpinIInv'
    OBVIOUS
  <2> USE DEF spinVars, SpinIInv
  <2>1. SpinTypes' /\ SpinLocked' /\ SpinBefore'
    BY DEF SpinTypes, SpinValues, SpinLocked, SpinBefore, NoBuffer
  <2>2. SpinBuffer'
    BY DEF SpinBuffer, OfOne, Tainted, Blank, Usable
  <2>3. SpinReaders'
    BY DEF SpinReaders, OfOne, Tainted, Blank
  <2>4. SpinUnique'
    BY UniqueKept DEF ToWrite
  <2> QED
    BY <2>1, <2>2, <2>3, <2>4
<1> QED
  BY <1>1, SpinBeginKeeps, SpinAcquireKeeps, CopyToUserKeeps, ClearKeeps, CopyFromUserKeeps,
     SpinUnlockKeeps, SpinModuleKeeps DEF SpinNext

(* A read of week4's buffer never delivers the fields of two messages,     *)
(* however its calls, their faults, and init and exit interleave: unless   *)
(* one of them faulted or ran beside init or exit (simple_spin.c:28-50).   *)
THEOREM SpinReadsWhole == SpinSpec => []SpinWhole
<1>1. SpinIInv => SpinWhole
  <2> SUFFICES ASSUME SpinIInv, NEW t \in SpinThreads,
                      spinPc[t].at \in {"clear", "unlock", "idle"}
               PROVE  \/ spinUser[t].str = spinUser[t].len
                      \/ {spinUser[t].str, spinUser[t].len} \cap (spinSpoilt \cup {SpinJunk}) # {}
    BY DEF SpinWhole
  <2>1. OfOne(spinUser[t].str, spinUser[t].len)
    BY DEF SpinIInv, SpinReaders
  <2> QED
    BY <2>1 DEF OfOne, Tainted
<1> QED
  BY <1>1, SpinInitial, SpinInductive, PTL DEF SpinSpec

(* No two threads read the same message: the buffer is cleared before the  *)
(* lock is released, whether or not the copy to the user succeeded.        *)
THEOREM SpinReadsOnce == SpinSpec => []SpinReadOnce
<1>1. SpinIInv => SpinReadOnce
  BY DEF SpinIInv, SpinUnique, SpinReadOnce, Nothing
<1> QED
  BY <1>1, SpinInitial, SpinInductive, PTL DEF SpinSpec

(***************************************************************************)
(* The blocking producer and consumer of week7, for any finite set of      *)
(* readers, any writers and any number of data.                            *)
(***************************************************************************)
(* The readers behind their test each have a datum, unless their tests      *)
(* overlapped.  A reader that passes a test sees a datum, so those behind   *)
(* it can owe at most one less than they are.                               *)
BlockIInv == BlockTypeOK /\ BlockDebt

LEMMA PastTestFinite ==
  /\ IsFiniteSet(PastTest) /\ Cardinality(PastTest) \in Nat
  /\ IsFiniteSet(Consumers) /\ Cardinality(Consumers) \in Nat
  /\ Cardinality(PastTest) <= Cardinality(Consumers)
  /\ Cardinality(Consumers) >= 1
  BY BlockAssumption, FS_Subset, FS_CardinalityType, FS_EmptySet DEF PastTest

(* PastTest gains the reader that passes and loses the one that consumes.   *)
LEMMA PastTestGrows ==
  ASSUME NEW r \in Consumers, blockPc[r] # "lock", PastTest' = PastTest \cup {r}
  PROVE  Cardinality(PastTest') = Cardinality(PastTest) + 1
  BY PastTestFinite, FS_AddElement DEF PastTest

LEMMA PastTestShrinks ==
  ASSUME NEW r \in Consumers, blockPc[r] = "lock", PastTest' = PastTest \ {r}
  PROVE  Cardinality(PastTest') = Cardinality(PastTest) - 1
<1>1. r \in PastTest
  BY DEF PastTest
<1> QED
  BY <1>1, PastTestFinite, FS_RemoveElement

(* A step of Pass, whichever of the three ways to it.                       *)
LEMMA PassKeepsDebt ==
  ASSUME BlockIInv, NEW r \in Consumers, blockPc[r] # "lock", Pass(r), UNCHANGED my_data
  PROVE  BlockDebt'
<1>1. PastTest' = PastTest \cup {r}
  BY DEF BlockIInv, BlockTypeOK, Pass, BlockGoto, PastTest, BlockThreads
<1>2. Cardinality(PastTest') = Cardinality(PastTest) + 1
  BY <1>1, PastTestGrows
<1>3. Cardinality(PastTest) + 1 <= Cardinality(Consumers)
  <2>1. PastTest' \subseteq Consumers
    BY <1>1 DEF PastTest
  <2> QED
    BY <1>2, <2>1, PastTestFinite, FS_Subset
<1>4. my_data > 0 /\ my_data \in Int /\ my_data' = my_data
  BY DEF Pass, BlockIInv, BlockTypeOK
<1>5. CASE overlapped'
  BY <1>2, <1>3, <1>4, <1>5, PastTestFinite DEF BlockDebt
<1>6. CASE ~overlapped'
  <2>1. Cardinality(PastTest) = 0
    BY <1>6, FS_EmptySet DEF Pass
  <2> QED
    BY <1>2, <1>4, <1>6, <2>1 DEF BlockDebt
<1> QED
  BY <1>5, <1>6

(* A step that moves nobody over the bounds of PastTest keeps it.           *)
LEMMA SameKeepsDebt ==
  ASSUME BlockIInv, PastTest' = PastTest, my_data' \in Int, my_data' >= my_data,
         UNCHANGED overlapped
  PROVE  BlockDebt'
  BY PastTestFinite DEF BlockIInv, BlockTypeOK, BlockDebt

LEMMA BlockInitial == BlockInit => BlockIInv
<1> SUFFICES ASSUME NEW d \in {"simple_block", "ch4"}, BlockStart(d) PROVE BlockIInv
  BY DEF BlockInit
<1>1. BlockTypeOK
  <2>1. blockDriver \in {"simple_block", "ch4", "none"}
        /\ blockModule \in {"adding", "loaded", "unloaded"}
    BY DEF BlockStart
  <2>2. blockPc \in [BlockThreads -> {"idle", "asleep", "woken", "lock", "wake", "oops"}]
    BY DEF BlockStart
  <2>3. my_data \in Int
    BY DEF BlockStart
  <2>4. overlapped \in BOOLEAN
    BY DEF BlockStart
  <2> QED
    BY <2>1, <2>2, <2>3, <2>4 DEF BlockTypeOK
<1>2. PastTest = {}
  BY DEF BlockStart, PastTest, BlockThreads
<1>3. Cardinality(PastTest) = 0 /\ my_data = 0 /\ ~overlapped
  BY <1>2, FS_EmptySet DEF BlockStart
<1> QED
  BY <1>1, <1>3 DEF BlockIInv, BlockDebt

LEMMA BlockInductive == BlockIInv /\ [BlockNext]_blockVars => BlockIInv'
<1> SUFFICES ASSUME BlockIInv, [BlockNext]_blockVars PROVE BlockIInv'
  OBVIOUS
<1>1. BlockTypeOK /\ Consumers \subseteq BlockThreads /\ Producers \subseteq BlockThreads
      /\ Consumers \cap Producers = {}
  BY BlockAssumption DEF BlockIInv, BlockThreads
<1>2. BlockTypeOK'
  <2> USE <1>1 DEF BlockTypeOK, BlockGoto
  <2>1. ASSUME NEW r \in Consumers, Read(r) \/ Woken(r) \/ Timeout(r) \/ Consume(r)
        PROVE  BlockTypeOK'
    <3>1. CASE Pass(r)
      <4>1. UNCHANGED <<blockDriver, blockModule, my_data>>
        BY <2>1, <3>1 DEF Read, Woken, Timeout, Consume, BlockAt, Pass
      <4>2. overlapped' \in BOOLEAN
        BY <3>1 DEF Pass
      <4> QED
        BY <3>1, <4>1, <4>2 DEF Pass
    <3>2. CASE ~Pass(r)
      BY <2>1, <3>2 DEF Read, Woken, Timeout, Consume
    <3> QED
      BY <3>1, <3>2
  <2>2. ASSUME NEW w \in Producers, Produce(w) \/ WakeUp(w) PROVE BlockTypeOK'
    <3>1. CASE Produce(w)
      BY <2>2, <3>1 DEF Produce
    <3>2. CASE WakeUp(w)
      <4>1. blockPc' \in [BlockThreads -> {"idle", "asleep", "woken", "lock", "wake", "oops"}]
        BY <3>2 DEF WakeUp
      <4> QED
        BY <3>2, <4>1 DEF WakeUp
    <3> QED
      BY <2>2, <3>1, <3>2
  <2>3. CASE BlockLoaded \/ BlockExit \/ UNCHANGED blockVars
    BY <2>3 DEF BlockLoaded, BlockExit, blockVars
  <2> QED
    BY <2>1, <2>2, <2>3 DEF BlockNext
<1>3. BlockDebt'
  <2>1. ASSUME NEW r \in Consumers, Read(r) \/ Woken(r) \/ Timeout(r) PROVE BlockDebt'
    <3>1. blockPc[r] # "lock" /\ UNCHANGED my_data
      BY <2>1 DEF Read, Woken, Timeout, BlockAt
    <3>2. CASE Pass(r)
      BY <3>1, <3>2, PassKeepsDebt
    <3>3. CASE ~Pass(r)
      <4>1. UNCHANGED overlapped /\ \E l \in {"oops", "asleep", "idle"} : BlockGoto(r, l)
        BY <2>1, <3>3 DEF Read, Woken, Timeout
      <4>2. PastTest' = PastTest
        BY <1>1, <3>1, <4>1 DEF PastTest, BlockGoto, BlockTypeOK
      <4> QED
        BY <1>1, <3>1, <4>1, <4>2, SameKeepsDebt DEF BlockTypeOK
    <3> QED
      BY <3>2, <3>3
  <2>2. ASSUME NEW r \in Consumers, Consume(r) PROVE BlockDebt'
    <3>1. blockPc[r] = "lock" /\ PastTest' = PastTest \ {r}
      BY <1>1, <2>2 DEF Consume, BlockAt, BlockGoto, PastTest, BlockTypeOK
    <3>2. Cardinality(PastTest') = Cardinality(PastTest) - 1
      BY <3>1, PastTestShrinks
    <3> QED
      BY <1>1, <2>2, <3>2, PastTestFinite DEF Consume, BlockIInv, BlockDebt, BlockTypeOK
  <2>3. ASSUME NEW w \in Producers, Produce(w) \/ WakeUp(w) PROVE BlockDebt'
    <3>1. w \notin Consumers
      BY <1>1
    <3>2. PastTest' = PastTest
      BY <1>1, <2>3, <3>1 DEF Produce, WakeUp, BlockGoto, BlockAt, PastTest, BlockTypeOK
    <3> QED
      BY <1>1, <2>3, <3>2, SameKeepsDebt DEF Produce, WakeUp, BlockTypeOK
  <2>4. CASE BlockLoaded \/ BlockExit \/ UNCHANGED blockVars
    <3>1. PastTest' = PastTest
      BY <2>4 DEF BlockLoaded, BlockExit, blockVars, PastTest
    <3> QED
      BY <1>1, <2>4, <3>1, SameKeepsDebt DEF BlockLoaded, BlockExit, blockVars, BlockTypeOK
  <2> QED
    BY <2>1, <2>2, <2>3, <2>4 DEF BlockNext
<1> QED
  BY <1>2, <1>3 DEF BlockIInv

(* The variables of simple_block.c keep their types.                        *)
THEOREM BlockTypeCorrect == BlockSpec => []BlockTypeOK
<1>1. BlockIInv => BlockTypeOK
  BY DEF BlockIInv
<1> QED
  BY <1>1, BlockInitial, BlockInductive, PTL DEF BlockSpec

(* However many read and write, my_data falls below zero only if two reads  *)
(* overlapped between test and decrement, and by less than there are        *)
(* readers.                                                                 *)
THEOREM DebtBounded == BlockSpec => []BlockDebt
<1>1. BlockIInv => BlockDebt
  BY DEF BlockIInv
<1> QED
  BY <1>1, BlockInitial, BlockInductive, PTL DEF BlockSpec

(***************************************************************************)
(* No lost wake-up.  A datum that a sleeper does not see came after the    *)
(* sleeper's test, so its writer has its wake_up still to come.  Before    *)
(* the end of init nobody sleeps: a wake_up that dies in a wait queue that *)
(* is not set up yet leaves nobody behind.                                 *)
(***************************************************************************)
NoneWaits == blockModule = "adding" =>
               \A r \in Consumers : blockPc[r] \notin {"asleep", "woken"}

WakeIInv == BlockTypeOK /\ NoneWaits /\ BlockSleepersWoken

LEMMA WakeInductive == WakeIInv /\ BlockTypeOK' /\ [BlockNext]_blockVars => WakeIInv'
<1> SUFFICES ASSUME WakeIInv, BlockTypeOK', [BlockNext]_blockVars
             PROVE  NoneWaits' /\ BlockSleepersWoken'
  BY DEF WakeIInv
<1>1. Consumers \subseteq BlockThreads /\ Producers \subseteq BlockThreads
      /\ Consumers \cap Producers = {}
  BY BlockAssumption DEF BlockThreads
<1> USE <1>1 DEF WakeIInv, BlockTypeOK, NoneWaits, BlockSleepersWoken, BlockAt, BlockGoto
<1>2. ASSUME NEW r \in Consumers, Read(r) \/ Woken(r) \/ Timeout(r) \/ Consume(r)
      PROVE  NoneWaits' /\ BlockSleepersWoken'
  <2>1. UNCHANGED blockModule /\ \A t \in BlockThreads \ {r} : blockPc'[t] = blockPc[t]
    BY <1>2 DEF Read, Woken, Timeout, Consume, Pass
  <2>2. /\ my_data' <= my_data
        /\ blockPc'[r] = "asleep" => my_data' <= 0 /\ blockModule # "adding"
        /\ blockPc'[r] # "woken"
    BY <1>2 DEF Read, Woken, Timeout, Consume, Pass
  <2>3. NoneWaits'
    BY <2>1, <2>2
  <2>4. BlockSleepersWoken'
    <3> SUFFICES ASSUME my_data' > 0, NEW s \in Consumers, blockPc'[s] = "asleep"
                 PROVE  \E w \in Producers : blockPc'[w] = "wake"
      OBVIOUS
    <3>1. s # r /\ blockPc[s] = "asleep" /\ my_data > 0
      BY <2>1, <2>2
    <3>2. PICK w \in Producers : blockPc[w] = "wake"
      BY <3>1
    <3>3. blockPc'[w] = "wake"
      BY <2>1, <3>2
    <3> QED
      BY <3>3
  <2> QED
    BY <2>3, <2>4
<1>3. ASSUME NEW w \in Producers, Produce(w) PROVE NoneWaits' /\ BlockSleepersWoken'
  <2>1. blockPc'[w] = "wake" /\ \A r \in Consumers : blockPc'[r] = blockPc[r]
    BY <1>3 DEF Produce
  <2> QED
    BY <1>3, <2>1 DEF Produce
<1>4. ASSUME NEW w \in Producers, WakeUp(w) PROVE NoneWaits' /\ BlockSleepersWoken'
  <2>1. \A r \in Consumers : /\ blockPc'[r] # "asleep"
                             /\ blockPc'[r] = "woken" => blockPc[r] \in {"asleep", "woken"}
    BY <1>4 DEF WakeUp
  <2> QED
    BY <1>4, <2>1 DEF WakeUp
<1>5. CASE BlockLoaded \/ BlockExit \/ UNCHANGED blockVars
  BY <1>5 DEF BlockLoaded, BlockExit, blockVars
<1> QED
  BY <1>2, <1>3, <1>4, <1>5 DEF BlockNext

(* No wake-up is lost, for any readers and writers: while there are data    *)
(* and a reader sleeps, a writer is on its way to wake it.                  *)
THEOREM NoLostWakeUp == BlockSpec => []BlockSleepersWoken
<1>1. BlockInit => WakeIInv
  <2>1. BlockInit => BlockTypeOK
    BY BlockInitial DEF BlockIInv
  <2>2. BlockInit => NoneWaits /\ BlockSleepersWoken
    BY DEF BlockInit, BlockStart, NoneWaits, BlockSleepersWoken, BlockThreads
  <2> QED
    BY <2>1, <2>2 DEF WakeIInv
<1>2. WakeIInv => BlockSleepersWoken
  BY DEF WakeIInv
<1> QED
  BY <1>1, <1>2, WakeInductive, BlockTypeCorrect, PTL DEF BlockSpec

(***************************************************************************)
(* The loop of dht11_read, for frames of any size and any number of        *)
(* disturbances.                                                           *)
(***************************************************************************)
DhtTypes ==
  /\ pulse \in Nat /\ dhtI \in Nat /\ dhtJ \in Nat
  /\ disturbed \in [misread : Nat, lost : Nat, noise : Nat]

(* j counts the even turns from the fourth on; and without noise the loop   *)
(* makes no more turns than there were pulses.                              *)
DhtIInv ==
  /\ DhtTypes
  /\ IF dhtI < 4 THEN dhtJ = 0 ELSE 2 * dhtJ <= dhtI - 3
  /\ disturbed.noise = 0 => ~split /\ dhtI <= pulse
  /\ DhtInBounds

LEMMA BitsNat == Bits \in Nat
  BY DhtAssumption DEF Bits

(* What a store does to j, and what it cannot do.                           *)
LEMMA StoredCounts ==
  ASSUME DhtIInv, NEW bit, Stored(bit), dhtI' = dhtI + 1
  PROVE  /\ dhtJ' \in Nat
         /\ IF dhtI' < 4 THEN dhtJ' = 0 ELSE 2 * dhtJ' <= dhtI' - 3
<1>1. dhtI \in Nat /\ dhtJ \in Nat
  BY DEF DhtIInv, DhtTypes
<1>2. CASE IsBit(dhtI)
  <2>1. dhtJ' = dhtJ + 1 /\ dhtI >= 4 /\ dhtI % 2 = 0
    BY <1>2 DEF Stored, IsBit
  <2>2. 2 * dhtJ <= dhtI - 3
    BY <1>1, <2>1 DEF DhtIInv
  <2> QED
    BY <1>1, <2>1, <2>2
<1>3. CASE ~IsBit(dhtI)
  <2>1. dhtJ' = dhtJ
    BY <1>3 DEF Stored
  <2> QED
    BY <1>1, <2>1 DEF DhtIInv
<1> QED
  BY <1>2, <1>3

LEMMA StoredInBounds ==
  ASSUME DhtIInv, NEW bit, Stored(bit), dhtI < 4 + 2 * Bits
  PROVE  overrun' => overrun
<1>1. dhtI \in Nat /\ dhtJ \in Nat
  BY DEF DhtIInv, DhtTypes
<1>2. CASE IsBit(dhtI)
  <2>1. dhtI >= 4 /\ dhtI % 2 = 0 /\ overrun' = (overrun \/ dhtJ >= Bits)
    BY <1>2 DEF Stored, IsBit
  <2>2. 2 * dhtJ <= dhtI - 3
    BY <1>1, <2>1 DEF DhtIInv
  <2>3. ~(dhtJ >= Bits)
    BY <1>1, <2>1, <2>2, BitsNat
  <2> QED
    BY <2>1, <2>3
<1>3. CASE ~IsBit(dhtI)
  BY <1>3 DEF Stored
<1> QED
  BY <1>2, <1>3

LEMMA DhtInitial == DhtInit => DhtIInv
  BY DEF DhtInit, DhtStart, DhtIInv, DhtTypes, Undisturbed, DhtInBounds

(* A turn for a pulse of the frame, with or without one that was lost.      *)
LEMMA TurnKeepsBounds ==
  ASSUME DhtIInv, NEW bit, Stored(bit), ~Idle255, UNCHANGED split,
         dhtI' = dhtI + 1, pulse' \in Nat, pulse' > pulse,
         disturbed' \in [misread : Nat, lost : Nat, noise : Nat],
         disturbed'.noise = disturbed.noise
  PROVE  DhtIInv'
<1>1. dhtI \in Nat /\ pulse \in Nat /\ pulse < 4 + 2 * Bits /\ disturbed.noise \in Nat
  BY BitsNat DEF DhtIInv, DhtTypes, Idle255
<1>2. DhtTypes' /\ IF dhtI' < 4 THEN dhtJ' = 0 ELSE 2 * dhtJ' <= dhtI' - 3
  BY <1>1, StoredCounts DEF DhtTypes
<1>3. disturbed'.noise = 0 => ~split' /\ dhtI' <= pulse'
  BY <1>1 DEF DhtIInv
<1>4. DhtInBounds'
  <2>1. CASE disturbed.noise > 0
    BY <2>1 DEF DhtInBounds
  <2>2. CASE disturbed.noise = 0
    <3>1. dhtI < 4 + 2 * Bits
      BY <1>1, <2>2, BitsNat DEF DhtIInv
    <3> QED
      BY <3>1, StoredInBounds DEF DhtIInv, DhtInBounds
  <2> QED
    BY <1>1, <2>1, <2>2
<1> QED
  BY <1>2, <1>3, <1>4 DEF DhtIInv

LEMMA DhtInductive == DhtIInv /\ [DhtNext]_dhtVars => DhtIInv'
<1> SUFFICES ASSUME DhtIInv, [DhtNext]_dhtVars PROVE DhtIInv'
  OBVIOUS
<1>1. DhtTypes
  BY DEF DhtIInv
<1>2. ASSUME DhtWake PROVE DhtIInv'
  BY <1>2 DEF DhtWake, DhtIInv, DhtTypes, Undisturbed, DhtInBounds
<1>3. ASSUME DhtPulse PROVE DhtIInv'
  <2>1. PICK bit : Stored(bit)
    BY <1>3 DEF DhtPulse
  <2>2. /\ disturbed' \in [misread : Nat, lost : Nat, noise : Nat]
        /\ disturbed'.noise = disturbed.noise
    BY <1>1, <1>3 DEF DhtPulse, Disturb, DhtTypes
  <2>3. ~Idle255 /\ UNCHANGED split /\ dhtI' = dhtI + 1 /\ pulse' \in Nat /\ pulse' > pulse
    BY <1>1, <1>3 DEF DhtPulse, DhtTypes
  <2> QED
    BY <2>1, <2>2, <2>3, TurnKeepsBounds
<1>4. ASSUME DhtLose PROVE DhtIInv'
  <2>1. PICK bit : Stored(bit)
    BY <1>4 DEF DhtLose
  <2>2. /\ disturbed' \in [misread : Nat, lost : Nat, noise : Nat]
        /\ disturbed'.noise = disturbed.noise
    BY <1>1, <1>4 DEF DhtLose, Disturb, DhtTypes
  <2>3. ~Idle255 /\ UNCHANGED split /\ dhtI' = dhtI + 1 /\ pulse' \in Nat /\ pulse' > pulse
    BY <1>1, <1>4, BitsNat DEF DhtLose, DhtTypes
  <2> QED
    BY <2>1, <2>2, <2>3, TurnKeepsBounds
<1>5. ASSUME DhtNoise PROVE DhtIInv'
  <2>1. PICK bit : Stored(bit)
    BY <1>5 DEF DhtNoise
  <2>2. disturbed' \in [misread : Nat, lost : Nat, noise : Nat] /\ disturbed'.noise > 0
    <3>1. CASE split
      BY <1>1, <1>5, <3>1 DEF DhtNoise, DhtIInv, DhtTypes
    <3>2. CASE ~split
      BY <1>1, <1>5, <3>2 DEF DhtNoise, Disturb, DhtTypes
    <3> QED
      BY <3>1, <3>2
  <2>3. dhtI' = dhtI + 1 /\ UNCHANGED pulse
    BY <1>5 DEF DhtNoise
  <2> QED
    BY <1>1, <2>1, <2>2, <2>3, StoredCounts DEF DhtIInv, DhtTypes, DhtInBounds
<1>6. CASE DhtDone \/ UNCHANGED dhtVars
  BY <1>6 DEF DhtDone, dhtVars, DhtIInv, DhtTypes, DhtInBounds
<1> QED
  BY <1>2, <1>3, <1>4, <1>5, <1>6 DEF DhtNext

(* MAX_TIMING is one turn of the loop more than a frame has pulses, yet     *)
(* without noise dht11_read stores within dht11_data, however many pulses   *)
(* it misses or misreads.                                                   *)
THEOREM StoresInBounds == DhtSpec => []DhtInBounds
<1>1. DhtIInv => DhtInBounds
  BY DEF DhtIInv
<1> QED
  BY <1>1, DhtInitial, DhtInductive, PTL DEF DhtSpec

(***************************************************************************)
(* What dht11_read shows.  The recursive functions of the model first.     *)
(***************************************************************************)
LEMMA DhtNumbers == /\ Bits \in Nat /\ Bits > 0 /\ Width \in Nat /\ Width > 0
                    /\ Bytes \in Nat /\ Bytes > 1 /\ Bits = Bytes * Width
<1>1. /\ Width \in Nat /\ Width > 0 /\ Bytes \in Nat /\ Bytes > 1
  BY DhtAssumption
<1> QED
  BY <1>1 DEF Bits

LEMMA Pow2Values ==
  /\ \A n \in 0..Width : Pow2[n] \in Nat \ {0}
  /\ Pow2[0] = 1
  /\ \A n \in 1..Width : Pow2[n] = 2 * Pow2[n - 1]
<1> DEFINE T == Nat \ {0}
           step == [x \in T \X (1..Width) |-> 2 * x[1]]
           Body(f) == [n \in 0..Width |-> IF n = 0 THEN 1 ELSE 2 * f[n - 1]]
<1>1. Width \in Nat
  BY DhtNumbers
<1>2. step \in [T \X (1..Width) -> T] /\ 1 \in T
  OBVIOUS
<1>3. PICK f : IsIteration(Width, T, 1, step, f)
  <2> HIDE DEF step, T
  <2> QED
    BY <1>1, <1>2, IterationExists
<1>4. ASSUME NEW n \in 1..Width PROVE f[n] = 2 * f[n - 1]
  <2>1. n - 1 \in 0..Width
    BY <1>1
  <2>2. f[n - 1] \in T /\ f[n] = step[<<f[n - 1], n>>]
    BY <1>3, <2>1 DEF IsIteration
  <2> QED
    BY <2>2
<1>5. f = Body(f)
  BY <1>1, <1>3, <1>4 DEF IsIteration
<1>6. Pow2 = CHOOSE g : g = Body(g)
  BY DEF Pow2
<1> HIDE DEF Body
<1>7. Pow2 = Body(Pow2)
  BY <1>5, <1>6
<1>8. \A n \in 0..Width : Pow2[n] = IF n = 0 THEN 1 ELSE 2 * Pow2[n - 1]
  BY <1>7 DEF Body
<1>9. Pow2[0] = 1 /\ \A n \in 1..Width : Pow2[n] = 2 * Pow2[n - 1]
  BY <1>1, <1>8
<1>10. \A n \in 0..Width : Pow2[n] \in T
  <2> DEFINE S == {n \in Nat : n <= Width => Pow2[n] \in T}
  <2>1. 0 \in S
    BY <1>9
  <2>2. ASSUME NEW n \in S \cap Nat PROVE n + 1 \in S
    <3> SUFFICES ASSUME n + 1 <= Width PROVE Pow2[n + 1] \in T
      OBVIOUS
    <3>1. n <= Width /\ n + 1 \in 1..Width /\ (n + 1) - 1 = n
      BY <1>1
    <3>2. Pow2[n + 1] = 2 * Pow2[n] /\ Pow2[n] \in T
      BY <1>9, <3>1
    <3> QED
      BY <3>2
  <2>3. Nat \subseteq S
    <3> HIDE DEF S
    <3> QED
      BY <2>1, <2>2, SetInduction
  <2> QED
    BY <1>1, <2>3
<1> QED
  BY <1>9, <1>10

(* Sums of the first bytes.                                                 *)
LEMMA SumsValues ==
  ASSUME NEW data \in [1..Bytes -> Nat]
  PROVE  /\ Sums(data) \in [0..(Bytes - 1) -> Nat]
         /\ Sums(data)[0] = 0
         /\ \A k \in 1..(Bytes - 1) : Sums(data)[k] = Sums(data)[k - 1] + data[k]
<1> DEFINE N == Bytes - 1
           step == [x \in Nat \X (1..N) |-> x[1] + data[x[2]]]
           Body(f) == [k \in 0..N |-> IF k = 0 THEN 0 ELSE f[k - 1] + data[k]]
<1>1. N \in Nat /\ \A k \in 1..N : data[k] \in Nat
  BY DhtNumbers
<1>2. step \in [Nat \X (1..N) -> Nat]
  BY <1>1
<1>3. PICK f : IsIteration(N, Nat, 0, step, f)
  <2>1. 0 \in Nat
    OBVIOUS
  <2> HIDE DEF step, N
  <2> QED
    BY <1>1, <1>2, <2>1, IterationExists
<1>4. ASSUME NEW k \in 1..N PROVE f[k] = f[k - 1] + data[k]
  <2>1. k - 1 \in 0..N
    BY <1>1
  <2>2. f[k - 1] \in Nat /\ f[k] = step[<<f[k - 1], k>>]
    BY <1>3, <2>1 DEF IsIteration
  <2>3. <<f[k - 1], k>> \in Nat \X (1..N)
    BY <2>2
  <2>4. step[<<f[k - 1], k>>] = f[k - 1] + data[k]
    <3> HIDE DEF N
    <3> QED
      BY <2>3
  <2> QED
    BY <2>2, <2>4
<1>5. f = Body(f)
  <2>1. f \in [0..N -> Nat] /\ f[0] = 0
    BY <1>3 DEF IsIteration
  <2>2. f = [k \in 0..N |-> f[k]]
    BY <2>1
  <2>3. ASSUME NEW k \in 0..N PROVE f[k] = IF k = 0 THEN 0 ELSE f[k - 1] + data[k]
    <3>1. k = 0 \/ k \in 1..N
      BY <1>1
    <3> HIDE DEF N
    <3> QED
      BY <1>4, <2>1, <3>1
  <2> QED
    BY <2>2, <2>3
<1>6. Sums(data) = CHOOSE g : g = Body(g)
  BY DEF Sums
<1> HIDE DEF Body
<1>7. Sums(data) = Body(Sums(data))
  BY <1>5, <1>6
<1>8. \A k \in 0..N : Sums(data)[k] = IF k = 0 THEN 0 ELSE Sums(data)[k - 1] + data[k]
  BY <1>7 DEF Body
<1>9. /\ Sums(data)[0] = 0
      /\ \A k \in 1..N : Sums(data)[k] = Sums(data)[k - 1] + data[k]
  BY <1>1, <1>8
<1>10. \A k \in 0..N : Sums(data)[k] \in Nat
  <2> DEFINE S == {k \in Nat : k <= N => Sums(data)[k] \in Nat}
  <2>1. 0 \in S
    BY <1>9
  <2>2. ASSUME NEW k \in S \cap Nat PROVE k + 1 \in S
    <3> SUFFICES ASSUME k + 1 <= N PROVE Sums(data)[k + 1] \in Nat
      OBVIOUS
    <3>1. k <= N /\ k + 1 \in 1..N /\ (k + 1) - 1 = k
      BY <1>1
    <3>2. Sums(data)[k + 1] = Sums(data)[k] + data[k + 1] /\ Sums(data)[k] \in Nat
      BY <1>9, <3>1
    <3> QED
      BY <1>1, <3>1, <3>2
  <2>3. Nat \subseteq S
    <3> HIDE DEF S
    <3> QED
      BY <2>1, <2>2, SetInduction
  <2> QED
    BY <1>1, <2>3
<1>11. Sums(data) \in [0..N -> Nat]
  BY <1>7, <1>10 DEF Body
<1> QED
  BY <1>9, <1>11

(* Bytes that differ in one place only have sums that differ by as much.    *)
LEMMA SumsDiffer ==
  ASSUME NEW a \in [1..Bytes -> Nat], NEW b \in [1..Bytes -> Nat],
         NEW c \in 1..Bytes, \A k \in (1..Bytes) \ {c} : a[k] = b[k]
  PROVE  Sums(a)[Bytes - 1] = Sums(b)[Bytes - 1] + (IF c < Bytes THEN a[c] - b[c] ELSE 0)
<1>1. PICK e \in Int : e = a[c] - b[c]
  OBVIOUS
<1>2. a[c] = b[c] + e
  BY <1>1
<1>3. PICK N \in Nat : N = Bytes - 1
  BY DhtNumbers
<1>4. PICK f : f = Sums(a)
  OBVIOUS
<1>5. PICK g : g = Sums(b)
  OBVIOUS
<1>6. f \in [0..N -> Nat] /\ f[0] = 0 /\ \A k \in 1..N : f[k] = f[k - 1] + a[k]
  BY <1>3, <1>4, SumsValues
<1>7. g \in [0..N -> Nat] /\ g[0] = 0 /\ \A k \in 1..N : g[k] = g[k - 1] + b[k]
  BY <1>3, <1>5, SumsValues
<1>8. 1..N \subseteq 1..Bytes /\ Bytes = N + 1 /\ c \in Nat /\ c > 0
  BY <1>3, DhtNumbers
<1> DEFINE S == {k \in Nat : k <= N => f[k] = g[k] + (IF c <= k THEN e ELSE 0)}
<1>9. 0 \in S
  BY <1>6, <1>7, <1>8
<1>10. ASSUME NEW k \in S \cap Nat PROVE k + 1 \in S
  <2> SUFFICES ASSUME k + 1 <= N PROVE f[k + 1] = g[k + 1] + (IF c <= k + 1 THEN e ELSE 0)
    OBVIOUS
  <2>1. k <= N /\ k + 1 \in 1..N /\ (k + 1) - 1 = k /\ k + 1 \in 1..Bytes /\ k \in 0..N
    BY <1>3, <1>8
  <2>2. f[k + 1] = f[k] + a[k + 1] /\ g[k + 1] = g[k] + b[k + 1]
    BY <1>6, <1>7, <2>1
  <2>3. f[k] = g[k] + (IF c <= k THEN e ELSE 0)
    BY <2>1
  <2>4. f[k] \in Nat /\ g[k] \in Nat /\ a[k + 1] \in Nat /\ b[k + 1] \in Nat
    <3>1. f[k] \in Nat /\ g[k] \in Nat
      BY <1>6, <1>7, <2>1
    <3>2. a[k + 1] \in Nat /\ b[k + 1] \in Nat
      BY <2>1
    <3> QED
      BY <3>1, <3>2
  <2>5. CASE c = k + 1
    BY <1>2, <2>2, <2>3, <2>4, <2>5
  <2>6. CASE c # k + 1
    <3>1. a[k + 1] = b[k + 1] /\ (c <= k + 1 <=> c <= k)
      BY <1>8, <2>1, <2>6
    <3> QED
      BY <2>2, <2>3, <2>4, <3>1
  <2> QED
    BY <2>5, <2>6
<1>11. N \in S
  <2> HIDE DEF S
  <2>1. Nat \subseteq S
    BY <1>9, <1>10, SetInduction
  <2> QED
    BY <1>3, <2>1
<1>12. c <= N <=> c < Bytes
  BY <1>3, <1>8
<1> QED
  BY <1>1, <1>3, <1>4, <1>5, <1>11, <1>12

(***************************************************************************)
(* Quotients and remainders.                                               *)
(***************************************************************************)
LEMMA Halves ==
  ASSUME NEW x \in Nat, NEW p \in Nat \ {0}
  PROVE  x \div p = 2 * (x \div (2 * p)) + ((x \div p) % 2)
OBVIOUS

(* A multiple of p that is nearer to 0 than p is 0.                         *)
LEMMA SmallMultiple ==
  ASSUME NEW p \in Nat \ {0}, NEW q \in Int, p * q < p, -p < p * q
  PROVE  q = 0
<1>1. CASE q >= 1
  <2>1. p * q >= p
    <3>1. PICK d \in Nat : q = d + 1
      BY <1>1
    <3>2. p * q = p * d + p /\ p * d \in Nat
      BY <3>1
    <3> QED
      BY <3>2
  <2> QED
    BY <2>1
<1>2. CASE q <= -1
  <2>1. PICK d \in Nat : q = -(d + 1)
    BY <1>2
  <2>2. p * q = -(p * d) - p /\ p * d \in Nat
    BY <2>1
  <2> QED
    BY <2>2
<1> QED
  BY <1>1, <1>2

LEMMA Divided ==
  ASSUME NEW x \in Nat, NEW p \in Nat \ {0}
  PROVE  x = p * (x \div p) + (x % p) /\ x \div p \in Nat /\ x % p \in Nat
<1>1. x = p * (x \div p) + (x % p)
  OBVIOUS
<1>2. x \div p \in Nat /\ x % p \in Nat
  OBVIOUS
<1> QED
  BY <1>1, <1>2

LEMMA NearRemainders ==
  ASSUME NEW p \in Nat \ {0}, NEW x \in Nat, NEW y \in Nat,
         x % p = y % p, x - y < p, y - x < p
  PROVE  x = y
<1>1. /\ x = p * (x \div p) + (x % p) /\ x \div p \in Nat /\ x % p \in Nat
      /\ y = p * (y \div p) + (y % p) /\ y \div p \in Nat /\ y % p \in Nat
  BY Divided
<1>2. PICK u, v, r : u = x \div p /\ v = y \div p /\ r = x % p
  OBVIOUS
<1>3. u \in Nat /\ v \in Nat /\ r \in Nat /\ x = p * u + r /\ y = p * v + r
  BY <1>1, <1>2
<1>4. PICK q : q = u - v
  OBVIOUS
<1>5. q \in Int /\ x - y = p * q
  BY <1>3, <1>4
<1>6. q = 0
  BY <1>5, SmallMultiple
<1> QED
  BY <1>5, <1>6

(* How many of the first j bits of a frame are byte k's.                    *)
Came(k, j) == IF k - 1 < j \div Width THEN Width
              ELSE IF k - 1 = j \div Width THEN j % Width ELSE 0

LEMMA Quotient ==
  ASSUME NEW j \in Nat
  PROVE  /\ j = Width * (j \div Width) + (j % Width)
         /\ j \div Width \in Nat /\ j % Width \in 0..(Width - 1)
BY DhtNumbers

LEMMA QuotientIs ==
  ASSUME NEW j \in Nat, NEW q \in Nat, NEW r \in 0..(Width - 1), j = Width * q + r
  PROVE  j \div Width = q /\ j % Width = r
BY DhtNumbers

LEMMA CameEnds ==
  /\ \A j \in Nat : \A k \in 1..Bytes : Came(k, j) \in 0..Width
  /\ \A k \in 1..Bytes : Came(k, 0) = 0 /\ Came(k, Bits) = Width
<1>1. ASSUME NEW j \in Nat, NEW k \in 1..Bytes PROVE Came(k, j) \in 0..Width
  BY Quotient, DhtNumbers DEF Came
<1>2. 0 \div Width = 0 /\ 0 % Width = 0
  BY QuotientIs, DhtNumbers
<1>3. Bits \div Width = Bytes
  <2>1. Bits = Width * Bytes + 0
    BY DhtNumbers
  <2> QED
    BY <2>1, QuotientIs, DhtNumbers
<1>4. ASSUME NEW k \in 1..Bytes PROVE Came(k, 0) = 0 /\ Came(k, Bits) = Width
  BY <1>2, <1>3, DhtNumbers DEF Came
<1> QED
  BY <1>1, <1>4

(* The next bit is one of byte j div Width, counted from 0.                 *)
LEMMA CameNext ==
  ASSUME NEW j \in Nat, j < Bits, NEW c, c = (j \div Width) + 1
  PROVE  /\ c \in 1..Bytes
         /\ Came(c, j) = j % Width /\ Came(c, j) \in 0..(Width - 1)
         /\ Came(c, j + 1) = Came(c, j) + 1
         /\ \A k \in (1..Bytes) \ {c} : Came(k, j + 1) = Came(k, j)
<1>1. PICK q, r : q = j \div Width /\ r = j % Width
  OBVIOUS
<1>2. q \in Nat /\ r \in 0..(Width - 1) /\ j = Width * q + r /\ c = q + 1
  BY <1>1, Quotient
<1>3. q < Bytes
  <2> SUFFICES ASSUME q >= Bytes PROVE FALSE
    BY <1>2, DhtNumbers
  <2>1. PICK d \in Nat : q = Bytes + d
    BY <1>2, DhtNumbers
  <2>2. Width * q = Bits + Width * d /\ Width * d \in Nat
    BY <2>1, DhtNumbers
  <2> QED
    BY <1>2, <2>2, DhtNumbers
<1>4. c \in 1..Bytes
  BY <1>2, <1>3, DhtNumbers
<1>5. Came(c, j) = r
  BY <1>1, <1>2 DEF Came
<1>6. CASE r + 1 < Width
  <2>1. (j + 1) \div Width = q /\ (j + 1) % Width = r + 1
    <3>1. j + 1 = Width * q + (r + 1) /\ r + 1 \in 0..(Width - 1) /\ j + 1 \in Nat
      BY <1>2, <1>6, DhtNumbers
    <3> QED
      BY <1>2, <3>1, QuotientIs
  <2>2. Came(c, j + 1) = r + 1
    BY <1>2, <2>1 DEF Came
  <2>3. \A k \in (1..Bytes) \ {c} : Came(k, j + 1) = Came(k, j)
    BY <1>1, <1>2, <2>1, DhtNumbers DEF Came
  <2> QED
    BY <1>1, <1>2, <1>4, <1>5, <2>2, <2>3
<1>7. CASE r + 1 = Width
  <2>1. (j + 1) \div Width = q + 1 /\ (j + 1) % Width = 0
    <3>1. Width * (q + 1) = Width * q + Width
      BY <1>2, DhtNumbers
    <3>2. j + 1 = Width * (q + 1) + 0 /\ 0 \in 0..(Width - 1) /\ j + 1 \in Nat /\ q + 1 \in Nat
      BY <1>2, <1>7, <3>1, DhtNumbers
    <3> QED
      BY <3>2, QuotientIs
  <2>2. Came(c, j + 1) = r + 1
    BY <1>2, <1>7, <2>1 DEF Came
  <2>3. \A k \in (1..Bytes) \ {c} : Came(k, j + 1) = Came(k, j)
    BY <1>1, <1>2, <2>1, DhtNumbers DEF Came
  <2> QED
    BY <1>1, <1>2, <1>4, <1>5, <2>2, <2>3
<1> QED
  BY <1>2, <1>6, <1>7, DhtNumbers

(* The first n bits of a byte.                                              *)
Share(x, n) == x \div Pow2[Width - n]

LEMMA ShareEnds ==
  ASSUME NEW x \in Byte
  PROVE  x \in Nat /\ Share(x, 0) = 0 /\ Share(x, Width) = x
<1>1. PICK p : p = Pow2[Width]
  OBVIOUS
<1>2. p \in Nat \ {0} /\ Pow2[0] = 1
  BY <1>1, Pow2Values, DhtNumbers
<1>3. x \in Nat /\ x < p
  BY <1>1, <1>2 DEF Byte
<1>4. Width - 0 = Width /\ Width - Width = 0
  BY DhtNumbers
<1>5. x \div p = 0
  BY <1>2, <1>3
<1>6. x \div 1 = x
  BY <1>3
<1> QED
  BY <1>1, <1>2, <1>3, <1>4, <1>5, <1>6 DEF Share

LEMMA ShareNext ==
  ASSUME NEW x \in Nat, NEW n \in 0..(Width - 1)
  PROVE  /\ Share(x, n) \in Nat
         /\ (x \div Pow2[Width - 1 - n]) % 2 \in {0, 1}
         /\ Share(x, n + 1) = 2 * Share(x, n) + ((x \div Pow2[Width - 1 - n]) % 2)
<1>1. PICK p : p = Pow2[Width - 1 - n]
  OBVIOUS
<1>2. Width - 1 - n \in 0..Width /\ Width - n \in 1..Width /\ (Width - n) - 1 = Width - 1 - n
      /\ Width - (n + 1) = Width - 1 - n
  BY DhtNumbers
<1>3. p \in Nat \ {0} /\ Pow2[Width - n] = 2 * p
  BY <1>1, <1>2, Pow2Values
<1>4. x \div p = 2 * (x \div (2 * p)) + ((x \div p) % 2)
  BY <1>3, Halves
<1>5. x \div (2 * p) \in Nat /\ x \div p \in Nat
  <2>1. 2 * p \in Nat \ {0}
    BY <1>3
  <2> QED
    BY <1>3, <2>1, Divided
<1>6. (x \div p) % 2 \in {0, 1}
  BY <1>5
<1> QED
  BY <1>1, <1>2, <1>3, <1>4, <1>5, <1>6 DEF Share

(***************************************************************************)
(* How far byte k is from what its bits should give, when j bits of the    *)
(* frame s have been stored in d: all are right, or one byte is off.       *)
(***************************************************************************)
Off(s, d, j, k) == d[k] - Share(s[k], Came(k, j))

Faithful(s, d, j) == \A k \in 1..Bytes : Off(s, d, j, k) = 0

OneOff(s, d, j) ==
  \E c \in 1..Bytes :
    /\ Off(s, d, j, c) # 0
    /\ Off(s, d, j, c) < Pow2[Came(c, j)] /\ -Off(s, d, j, c) < Pow2[Came(c, j)]
    /\ \A k \in (1..Bytes) \ {c} : Off(s, d, j, k) = 0

(* The byte of bit j, the bit itself, and the data with a bit stored.       *)
ByteOf(j) == (j \div Width) + 1
BitOf(s, j) == (s[ByteOf(j)] \div Pow2[Width - 1 - (j % Width)]) % 2
With(d, j, bit) == [d EXCEPT ![ByteOf(j)] = 2 * @ + bit]

(* A bit that is stored doubles what its byte is off by.                    *)
LEMMA OffNext ==
  ASSUME NEW s \in [1..Bytes -> Byte], NEW d \in [1..Bytes -> Nat],
         NEW j \in Nat, j < Bits, NEW bit \in {0, 1}
  PROVE  /\ ByteOf(j) \in 1..Bytes /\ BitOf(s, j) \in {0, 1}
         /\ With(d, j, bit) \in [1..Bytes -> Nat]
         /\ \A k \in 1..Bytes : Off(s, d, j, k) \in Int
         /\ Off(s, With(d, j, bit), j + 1, ByteOf(j))
              = 2 * Off(s, d, j, ByteOf(j)) + bit - BitOf(s, j)
         /\ Pow2[Came(ByteOf(j), j + 1)] = 2 * Pow2[Came(ByteOf(j), j)]
         /\ Pow2[Came(ByteOf(j), j)] \in Nat \ {0}
         /\ \A k \in (1..Bytes) \ {ByteOf(j)} :
              Off(s, With(d, j, bit), j + 1, k) = Off(s, d, j, k) /\ Came(k, j + 1) = Came(k, j)
<1>1. PICK c, line, e : c = ByteOf(j) /\ line = BitOf(s, j) /\ e = With(d, j, bit)
  OBVIOUS
<1>2. /\ c \in 1..Bytes
      /\ Came(c, j) = j % Width /\ Came(c, j) \in 0..(Width - 1)
      /\ Came(c, j + 1) = Came(c, j) + 1
      /\ \A k \in (1..Bytes) \ {c} : Came(k, j + 1) = Came(k, j)
  BY <1>1, CameNext DEF ByteOf
<1>3. s[c] \in Nat /\ d[c] \in Nat
  <2>1. s[c] \in Byte /\ d[c] \in Nat
    BY <1>2
  <2> QED
    BY <2>1, ShareEnds
<1>4. /\ Share(s[c], Came(c, j)) \in Nat /\ line \in {0, 1}
      /\ Share(s[c], Came(c, j) + 1) = 2 * Share(s[c], Came(c, j)) + line
  <2>1. PICK x \in Nat : x = s[c]
    BY <1>3
  <2>2. PICK n \in 0..(Width - 1) : n = Came(c, j)
    BY <1>2
  <2>3. line = (x \div Pow2[Width - 1 - n]) % 2
    BY <1>1, <1>2, <2>1, <2>2 DEF BitOf, ByteOf
  <2> QED
    BY <1>2, <2>1, <2>2, <2>3, ShareNext
<1>5. e = [d EXCEPT ![c] = 2 * @ + bit]
  BY <1>1 DEF With
<1>6. e \in [1..Bytes -> Nat] /\ e[c] = 2 * d[c] + bit /\ \A k \in (1..Bytes) \ {c} : e[k] = d[k]
  BY <1>2, <1>3, <1>5
<1>7. Off(s, e, j + 1, c) = 2 * Off(s, d, j, c) + bit - line
  BY <1>2, <1>3, <1>4, <1>6 DEF Off
<1>8. \A k \in (1..Bytes) \ {c} : Off(s, e, j + 1, k) = Off(s, d, j, k)
  BY <1>2, <1>6 DEF Off
<1>9. Pow2[Came(c, j + 1)] = 2 * Pow2[Came(c, j)] /\ Pow2[Came(c, j)] \in Nat \ {0}
  <2>1. PICK n : n = Came(c, j)
    OBVIOUS
  <2>2. n + 1 \in 1..Width /\ (n + 1) - 1 = n /\ n \in 0..Width
    BY <1>2, <2>1, DhtNumbers
  <2> QED
    BY <1>2, <2>1, <2>2, Pow2Values
<1>10. ASSUME NEW k \in 1..Bytes PROVE Off(s, d, j, k) \in Int
  <2>1. s[k] \in Byte /\ d[k] \in Nat /\ Came(k, j) \in 0..Width
    BY CameEnds
  <2>2. s[k] \in Nat
    BY <2>1, ShareEnds
  <2>3. PICK p : p = Pow2[Width - Came(k, j)]
    OBVIOUS
  <2>4. Width - Came(k, j) \in 0..Width
    BY <2>1, DhtNumbers
  <2>5. p \in Nat \ {0}
    BY <2>3, <2>4, Pow2Values
  <2>6. s[k] \div p \in Nat
    BY <2>2, <2>5, Divided
  <2> QED
    BY <2>1, <2>3, <2>6 DEF Off, Share
<1> QED
  BY <1>1, <1>2, <1>4, <1>6, <1>7, <1>8, <1>9, <1>10

(* So a bit that is stored as it was on the line keeps all right, or one    *)
(* off; and the first that is not puts one byte off.                        *)
LEMMA BitsStored ==
  ASSUME NEW s \in [1..Bytes -> Byte], NEW d \in [1..Bytes -> Nat],
         NEW j \in Nat, j < Bits, NEW bit \in {0, 1}
  PROVE  /\ Faithful(s, d, j) /\ bit = BitOf(s, j) => Faithful(s, With(d, j, bit), j + 1)
         /\ Faithful(s, d, j) /\ bit # BitOf(s, j) => OneOff(s, With(d, j, bit), j + 1)
         /\ OneOff(s, d, j) /\ bit = BitOf(s, j) => OneOff(s, With(d, j, bit), j + 1)
<1>1. PICK c, line, e : c = ByteOf(j) /\ line = BitOf(s, j) /\ e = With(d, j, bit)
  OBVIOUS
<1>2. /\ c \in 1..Bytes /\ line \in {0, 1}
      /\ \A k \in 1..Bytes : Off(s, d, j, k) \in Int
      /\ Off(s, e, j + 1, c) = 2 * Off(s, d, j, c) + bit - line
  BY <1>1, OffNext
<1>3. /\ Pow2[Came(c, j + 1)] = 2 * Pow2[Came(c, j)] /\ Pow2[Came(c, j)] \in Nat \ {0}
      /\ \A k \in (1..Bytes) \ {c} : /\ Off(s, e, j + 1, k) = Off(s, d, j, k)
                                     /\ Came(k, j + 1) = Came(k, j)
  <2>1. ASSUME NEW k \in (1..Bytes) \ {c}
        PROVE  Off(s, e, j + 1, k) = Off(s, d, j, k) /\ Came(k, j + 1) = Came(k, j)
    BY <1>1, OffNext
  <2>2. Pow2[Came(c, j + 1)] = 2 * Pow2[Came(c, j)] /\ Pow2[Came(c, j)] \in Nat \ {0}
    BY <1>1, OffNext
  <2> QED
    BY <2>1, <2>2
<1>4. PICK x \in Int : x = Off(s, d, j, c)
  BY <1>2
<1>5. /\ c \in 1..Bytes /\ line \in {0, 1}
      /\ Off(s, d, j, c) = x /\ Off(s, e, j + 1, c) = 2 * x + bit - line
      /\ Pow2[Came(c, j + 1)] = 2 * Pow2[Came(c, j)] /\ Pow2[Came(c, j)] \in Nat \ {0}
      /\ \A k \in (1..Bytes) \ {c} : /\ Off(s, e, j + 1, k) = Off(s, d, j, k)
                                     /\ Came(k, j + 1) = Came(k, j)
  BY <1>2, <1>3, <1>4
<1>6. ASSUME Faithful(s, d, j), bit = line PROVE Faithful(s, e, j + 1)
  <2>1. Off(s, e, j + 1, c) = 0
    BY <1>5, <1>6 DEF Faithful
  <2> QED
    BY <1>5, <1>6, <2>1 DEF Faithful
<1>7. ASSUME Faithful(s, d, j), bit # line PROVE OneOff(s, e, j + 1)
  <2>1. Off(s, e, j + 1, c) \in {-1, 1}
    BY <1>5, <1>7 DEF Faithful
  <2>2. PICK p \in Nat \ {0} : p = Pow2[Came(c, j)]
    BY <1>5
  <2>3. Pow2[Came(c, j + 1)] = 2 * p /\ 2 * p > 1
    BY <1>5, <2>2
  <2>4. \A k \in (1..Bytes) \ {c} : Off(s, e, j + 1, k) = 0
    BY <1>5, <1>7 DEF Faithful
  <2>5. /\ Off(s, e, j + 1, c) # 0
        /\ Off(s, e, j + 1, c) < Pow2[Came(c, j + 1)]
        /\ -Off(s, e, j + 1, c) < Pow2[Came(c, j + 1)]
    BY <2>1, <2>2, <2>3
  <2> QED
    BY <1>5, <2>4, <2>5 DEF OneOff
<1>8. ASSUME OneOff(s, d, j), bit = line PROVE OneOff(s, e, j + 1)
  <2>1. PICK b \in 1..Bytes :
          /\ Off(s, d, j, b) # 0
          /\ Off(s, d, j, b) < Pow2[Came(b, j)] /\ -Off(s, d, j, b) < Pow2[Came(b, j)]
          /\ \A k \in (1..Bytes) \ {b} : Off(s, d, j, k) = 0
    BY <1>8 DEF OneOff
  <2>2. Off(s, e, j + 1, c) = 2 * x
    BY <1>5, <1>8
  <2>3. ASSUME NEW k \in (1..Bytes) \ {b} PROVE Off(s, e, j + 1, k) = 0
    <3>1. Off(s, d, j, k) = 0
      BY <2>1
    <3>2. CASE k = c
      BY <1>5, <2>2, <3>1, <3>2
    <3>3. CASE k # c
      BY <1>5, <3>1, <3>3
    <3> QED
      BY <3>2, <3>3
  <2>4. CASE b = c
    <3>1. PICK p \in Nat \ {0} : p = Pow2[Came(c, j)]
      BY <1>5
    <3>3. x # 0 /\ x < p /\ -x < p /\ Pow2[Came(c, j + 1)] = 2 * p
      BY <1>5, <2>1, <2>4, <3>1
    <3>4. /\ Off(s, e, j + 1, c) # 0
          /\ Off(s, e, j + 1, c) < Pow2[Came(c, j + 1)]
          /\ -Off(s, e, j + 1, c) < Pow2[Came(c, j + 1)]
      BY <2>2, <3>1, <3>3
    <3> QED
      BY <1>5, <2>3, <2>4, <3>4 DEF OneOff
  <2>5. CASE b # c
    <3>1. Off(s, e, j + 1, b) = Off(s, d, j, b) /\ Came(b, j + 1) = Came(b, j)
      BY <1>5, <2>5
    <3> QED
      BY <2>1, <2>3, <3>1 DEF OneOff
  <2> QED
    BY <2>4, <2>5
<1> QED
  BY <1>1, <1>6, <1>7, <1>8

(* The sum finds the byte that is off.                                      *)
LEMMA SumFinds ==
  ASSUME NEW s \in Frames, NEW d \in [1..Bytes -> Nat], d[Bytes] = CheckSum(d)
  PROVE  /\ Faithful(s, d, Bits) => d = s
         /\ ~OneOff(s, d, Bits)
<1>1. s \in [1..Bytes -> Byte] /\ s[Bytes] = CheckSum(s)
  BY DEF Frames
<1>2. \A k \in 1..Bytes : s[k] \in Nat /\ Off(s, d, Bits, k) = d[k] - s[k]
  <2> SUFFICES ASSUME NEW k \in 1..Bytes PROVE s[k] \in Nat /\ Off(s, d, Bits, k) = d[k] - s[k]
    OBVIOUS
  <2>1. s[k] \in Byte
    BY <1>1
  <2>2. PICK x \in Byte : x = s[k]
    BY <2>1
  <2>3. x \in Nat /\ Share(x, Width) = x
    BY ShareEnds
  <2>4. Came(k, Bits) = Width
    BY CameEnds
  <2> QED
    BY <2>2, <2>3, <2>4 DEF Off
<1>3. s \in [1..Bytes -> Nat]
  BY <1>1, <1>2
<1>4. ASSUME Faithful(s, d, Bits) PROVE d = s
  <2>1. \A k \in 1..Bytes : d[k] = s[k]
    BY <1>2, <1>4 DEF Faithful
  <2>2. d = [k \in 1..Bytes |-> d[k]] /\ s = [k \in 1..Bytes |-> s[k]]
    BY <1>3
  <2> QED
    BY <2>1, <2>2
<1>5. ASSUME OneOff(s, d, Bits) PROVE FALSE
  <2>1. PICK c \in 1..Bytes :
          /\ d[c] - s[c] # 0
          /\ d[c] - s[c] < Pow2[Width] /\ -(d[c] - s[c]) < Pow2[Width]
          /\ \A k \in (1..Bytes) \ {c} : d[k] - s[k] = 0
    BY <1>2, <1>5, CameEnds DEF OneOff
  <2>2. PICK p \in Nat \ {0} : p = Pow2[Width]
    BY Pow2Values, DhtNumbers
  <2>3. PICK e \in Int : e = d[c] - s[c]
    BY <1>3
  <2>4. d[c] = s[c] + e /\ \A k \in (1..Bytes) \ {c} : d[k] = s[k]
    BY <1>3, <2>1, <2>3
  <2>5. PICK x, y : x = Sums(d)[Bytes - 1] /\ y = Sums(s)[Bytes - 1]
    OBVIOUS
  <2>6. x \in Nat /\ y \in Nat
    <3>1. Sums(d) \in [0..(Bytes - 1) -> Nat] /\ Sums(s) \in [0..(Bytes - 1) -> Nat]
      BY <1>3, SumsValues
    <3>2. Bytes - 1 \in 0..(Bytes - 1)
      BY DhtNumbers
    <3> QED
      BY <2>5, <3>1, <3>2
  <2>7. x = y + (IF c < Bytes THEN e ELSE 0)
    <3>1. Sums(d)[Bytes - 1] = Sums(s)[Bytes - 1] + (IF c < Bytes THEN d[c] - s[c] ELSE 0)
      BY <1>3, <2>4, SumsDiffer
    <3> QED
      BY <2>3, <2>5, <3>1
  <2>8. d[Bytes] = x % p /\ s[Bytes] = y % p
    BY <1>1, <2>2, <2>5 DEF CheckSum
  <2>9. Bytes \in 1..Bytes
    BY DhtNumbers
  <2>10. CASE c < Bytes
    <3>1. x % p = y % p
      BY <2>4, <2>8, <2>9, <2>10
    <3>2. x - y < p /\ y - x < p
      BY <2>1, <2>2, <2>3, <2>6, <2>7, <2>10
    <3>3. x = y
      BY <2>2, <2>6, <3>1, <3>2, NearRemainders
    <3> QED
      BY <2>1, <2>3, <2>6, <2>7, <2>10, <3>3
  <2>11. CASE c = Bytes
    <3>1. x = y
      BY <2>6, <2>7, <2>11, DhtNumbers
    <3>2. d[c] = s[c]
      BY <2>8, <2>11, <3>1
    <3> QED
      BY <1>3, <2>1, <3>2
  <2> QED
    BY <2>10, <2>11, DhtNumbers
<1> QED
  BY <1>4, <1>5

(***************************************************************************)
(* While the line is quiet every pulse is a turn or lost, and i tells j:   *)
(* the frame is read to its end only if at most one pulse was lost.  If    *)
(* none was, its bits went where they belong, and one that was misread put *)
(* one byte off.                                                           *)
(***************************************************************************)
FrameRead ==
  IF sent = << >> THEN dhtI = 0
  ELSE disturbed.lost = 0 =>
         \/ disturbed.misread = 0 /\ Faithful(sent, dht11_data, dhtJ)
         \/ disturbed.misread = 1 /\ OneOff(sent, dht11_data, dhtJ)
         \/ disturbed.misread > 1

Quiet ==
  /\ ~split
  /\ dht11_data \in [1..Bytes -> Nat]
  /\ pulse = dhtI + disturbed.lost /\ pulse <= 4 + 2 * Bits
  /\ dhtJ = IF dhtI < 4 THEN 0 ELSE (dhtI - 3) \div 2
  /\ FrameRead

ShowsIInv ==
  /\ DhtTypes
  /\ sent \in Frames \cup {<< >>}
  /\ disturbed.noise = 0 => Quiet

(* What a turn stores, where the data have room for it.                     *)
LEMMA TurnStores ==
  ASSUME DhtTypes, Quiet, NEW bit \in {0, 1}, Stored(bit), dhtI' = dhtI + 1,
         pulse < 4 + 2 * Bits
  PROVE  /\ dht11_data' \in [1..Bytes -> Nat]
         /\ dhtJ' = IF dhtI' < 4 THEN 0 ELSE (dhtI' - 3) \div 2
         /\ IF IsBit(dhtI)
            THEN /\ 2 * dhtJ = dhtI - 4 /\ dhtJ' = dhtJ + 1 /\ dhtJ < Bits
                 /\ dht11_data' = With(dht11_data, dhtJ, bit)
            ELSE dhtJ' = dhtJ /\ dht11_data' = dht11_data
<1>1. /\ dhtI \in Nat /\ dhtI < 4 + 2 * Bits /\ dhtJ \in Nat
      /\ dht11_data \in [1..Bytes -> Nat]
      /\ dhtJ = IF dhtI < 4 THEN 0 ELSE (dhtI - 3) \div 2
  <2>1. dhtI \in Nat /\ dhtJ \in Nat /\ disturbed.lost \in Nat
    BY DEF DhtTypes
  <2>2. /\ pulse = dhtI + disturbed.lost /\ dht11_data \in [1..Bytes -> Nat]
        /\ dhtJ = IF dhtI < 4 THEN 0 ELSE (dhtI - 3) \div 2
    BY DEF Quiet
  <2>3. dhtI < 4 + 2 * Bits
    BY <2>1, <2>2, DhtNumbers
  <2> QED
    BY <2>1, <2>2, <2>3
<1>2. CASE IsBit(dhtI)
  <2>1. dhtI >= 4 /\ dhtI % 2 = 0
    BY <1>2 DEF IsBit
  <2>2. 2 * dhtJ = dhtI - 4
    BY <1>1, <2>1
  <2>3. dhtJ < Bits
    BY <1>1, <2>2, DhtNumbers
  <2>4. dhtJ' = dhtJ + 1 /\ dht11_data' = With(dht11_data, dhtJ, bit)
    BY <1>1, <1>2, <2>3, DhtNumbers DEF Stored, With, ByteOf
  <2>5. dhtJ' = (dhtI' - 3) \div 2 /\ ~(dhtI' < 4)
    BY <1>1, <2>1, <2>2, <2>4
  <2>6. dht11_data' \in [1..Bytes -> Nat]
    <3>1. ByteOf(dhtJ) \in 1..Bytes
      BY <1>1, <2>3, CameNext DEF ByteOf
    <3>2. 2 * dht11_data[ByteOf(dhtJ)] + bit \in Nat
      BY <1>1, <3>1
    <3> QED
      BY <1>1, <2>4, <3>1, <3>2 DEF With
  <2> QED
    BY <1>2, <2>2, <2>3, <2>4, <2>5, <2>6
<1>3. CASE ~IsBit(dhtI)
  <2>1. dhtJ' = dhtJ /\ dht11_data' = dht11_data
    BY <1>3 DEF Stored
  <2>2. dhtI < 4 \/ dhtI % 2 = 1
    BY <1>1, <1>3 DEF IsBit
  <2>3. dhtJ' = IF dhtI' < 4 THEN 0 ELSE (dhtI' - 3) \div 2
    BY <1>1, <2>1, <2>2
  <2> QED
    BY <1>1, <1>3, <2>1, <2>3
<1> QED
  BY <1>2, <1>3

LEMMA ShowsInitial == DhtInit => ShowsIInv
<1> SUFFICES ASSUME DhtInit PROVE ShowsIInv
  OBVIOUS
<1>1. /\ sent = << >> /\ pulse = 0 /\ split = FALSE /\ dhtI = 0 /\ dhtJ = 0
      /\ dht11_data = [k \in 1..Bytes |-> 0]
      /\ disturbed = [misread |-> 0, lost |-> 0, noise |-> 0]
  BY DEF DhtInit, DhtStart, Undisturbed
<1>2. Quiet
  BY <1>1, DhtNumbers DEF Quiet, FrameRead
<1> QED
  BY <1>1, <1>2 DEF ShowsIInv, DhtTypes

(* Nothing is read of a frame that begins.                                  *)
LEMMA NothingRead ==
  ASSUME NEW s \in Frames
  PROVE  Faithful(s, [k \in 1..Bytes |-> 0], 0)
<1>1. ASSUME NEW k \in 1..Bytes PROVE Off(s, [i \in 1..Bytes |-> 0], 0, k) = 0
  <2>1. PICK x \in Byte : x = s[k]
    BY DEF Frames
  <2> QED
    BY <2>1, ShareEnds, CameEnds DEF Off
<1> QED
  BY <1>1 DEF Faithful

LEMMA WakeKeepsShows == ASSUME ShowsIInv, DhtWake PROVE ShowsIInv'
<1>1. /\ sent' \in Frames \cup {<< >>} /\ pulse' = 0 /\ split' = FALSE /\ dhtI' = 0 /\ dhtJ' = 0
      /\ dht11_data' = [k \in 1..Bytes |-> 0]
      /\ disturbed' = [misread |-> 0, lost |-> 0, noise |-> 0]
  BY DEF DhtWake, Undisturbed
<1>2. FrameRead'
  <2>1. CASE sent' = << >>
    BY <1>1, <2>1 DEF FrameRead
  <2>2. CASE sent' # << >>
    <3>1. Faithful(sent', dht11_data', dhtJ')
      BY <1>1, <2>2, NothingRead
    <3> QED
      BY <1>1, <2>2, <3>1 DEF FrameRead
  <2> QED
    BY <2>1, <2>2
<1>3. Quiet'
  BY <1>1, <1>2, DhtNumbers DEF Quiet
<1> QED
  BY <1>1, <1>3 DEF ShowsIInv, DhtTypes

LEMMA PulseKeepsShows == ASSUME ShowsIInv, DhtPulse PROVE ShowsIInv'
<1>1. /\ ~Idle255 /\ dhtI' = dhtI + 1 /\ pulse' = pulse + 1
      /\ sent' = sent /\ split' = split
  BY DEF DhtPulse
<1>2. DhtTypes /\ pulse \in Nat /\ pulse < 4 + 2 * Bits /\ sent \in Frames /\ sent # << >>
  <2>1. ~(pulse >= 4 + 2 * Bits) /\ sent # << >>
    BY <1>1 DEF Idle255
  <2>2. DhtTypes /\ pulse \in Nat /\ sent \in Frames
    BY <2>1 DEF ShowsIInv, DhtTypes
  <2> QED
    BY <2>1, <2>2, DhtNumbers
<1>3. sent \in [1..Bytes -> Byte]
  BY <1>2 DEF Frames
<1>4. DhtTypes' /\ disturbed'.noise = disturbed.noise /\ disturbed'.lost = disturbed.lost
  <2>1. /\ disturbed' \in [misread : Nat, lost : Nat, noise : Nat]
        /\ disturbed'.noise = disturbed.noise /\ disturbed'.lost = disturbed.lost
    BY <1>2 DEF DhtPulse, Disturb, DhtTypes
  <2>2. dhtJ' \in Nat
    BY <1>2 DEF DhtPulse, Stored, DhtTypes
  <2> QED
    BY <1>1, <1>2, <2>1, <2>2 DEF DhtTypes
<1>5. ASSUME disturbed.noise = 0 PROVE Quiet'
  <2>1. Quiet /\ FrameRead
    BY <1>5 DEF ShowsIInv, Quiet
  <2>2. Timed \in {0, 1}
    <3>1. CASE IsBit(pulse)
      <4>1. PICK b \in Nat : b = (pulse - 4) \div 2 /\ b < Bits
        BY <1>2, <3>1, DhtNumbers DEF IsBit
      <4>2. Timed = BitOf(sent, b)
        BY <3>1, <4>1 DEF Timed, BitOnLine, BitOf, ByteOf
      <4>3. BitOf(sent, b) \in {0, 1}
        BY <1>2, <1>3, <2>1, <4>1, OffNext DEF Quiet
      <4> QED
        BY <4>2, <4>3
    <3>2. CASE ~IsBit(pulse)
      BY <3>2 DEF Timed
    <3> QED
      BY <3>1, <3>2
  <2>3. PICK bit \in {0, 1} :
          /\ Stored(bit)
          /\ \/ bit = Timed /\ UNCHANGED disturbed
             \/ /\ IsBit(dhtI) /\ bit = 1 - Timed
                /\ disturbed' = [disturbed EXCEPT !.misread = @ + 1]
    BY <2>2 DEF DhtPulse, Disturb
  <2>4. /\ dht11_data' \in [1..Bytes -> Nat]
        /\ dhtJ' = IF dhtI' < 4 THEN 0 ELSE (dhtI' - 3) \div 2
        /\ IF IsBit(dhtI)
           THEN /\ 2 * dhtJ = dhtI - 4 /\ dhtJ' = dhtJ + 1 /\ dhtJ < Bits
                /\ dht11_data' = With(dht11_data, dhtJ, bit)
           ELSE dhtJ' = dhtJ /\ dht11_data' = dht11_data
    BY <1>1, <1>2, <2>1, <2>3, TurnStores
  <2>5. FrameRead'
    <3> SUFFICES ASSUME disturbed.lost = 0
                 PROVE  \/ disturbed'.misread = 0 /\ Faithful(sent, dht11_data', dhtJ')
                        \/ disturbed'.misread = 1 /\ OneOff(sent, dht11_data', dhtJ')
                        \/ disturbed'.misread > 1
      BY <1>1, <1>2, <1>4 DEF FrameRead
    <3>1. pulse = dhtI /\ disturbed.misread \in Nat
      BY <1>2, <2>1 DEF Quiet, DhtTypes
    <3>2. \/ disturbed.misread = 0 /\ Faithful(sent, dht11_data, dhtJ)
          \/ disturbed.misread = 1 /\ OneOff(sent, dht11_data, dhtJ)
          \/ disturbed.misread > 1
      BY <1>2, <2>1 DEF FrameRead
    <3>3. CASE ~IsBit(dhtI)
      BY <2>3, <2>4, <3>1, <3>2, <3>3
    <3>4. CASE IsBit(dhtI)
      <4>1. dhtJ \in Nat /\ dhtJ < Bits /\ dht11_data \in [1..Bytes -> Nat]
        BY <1>2, <2>1, <2>4, <3>4 DEF Quiet, DhtTypes
      <4>2. Timed = BitOf(sent, dhtJ)
        <5>1. (pulse - 4) \div 2 = dhtJ
          BY <2>4, <3>1, <3>4, <4>1
        <5> QED
          BY <3>1, <3>4, <5>1 DEF Timed, BitOnLine, BitOf, ByteOf
      <4>3. BitOf(sent, dhtJ) \in {0, 1}
        BY <2>2, <4>2
      <4>4. dht11_data' = With(dht11_data, dhtJ, bit) /\ dhtJ' = dhtJ + 1
        BY <2>4, <3>4
      <4>5. /\ Faithful(sent, dht11_data, dhtJ) /\ bit = BitOf(sent, dhtJ)
               => Faithful(sent, dht11_data', dhtJ')
            /\ Faithful(sent, dht11_data, dhtJ) /\ bit # BitOf(sent, dhtJ)
               => OneOff(sent, dht11_data', dhtJ')
            /\ OneOff(sent, dht11_data, dhtJ) /\ bit = BitOf(sent, dhtJ)
               => OneOff(sent, dht11_data', dhtJ')
        BY <1>3, <4>1, <4>4, BitsStored
      <4>6. CASE bit = BitOf(sent, dhtJ) /\ UNCHANGED disturbed
        BY <3>2, <4>5, <4>6
      <4>7. CASE bit = 1 - BitOf(sent, dhtJ)
                 /\ disturbed' = [disturbed EXCEPT !.misread = @ + 1]
        <5>1. bit # BitOf(sent, dhtJ)
          BY <4>3, <4>7
        <5>2. disturbed'.misread = disturbed.misread + 1
          BY <1>2, <4>7 DEF DhtTypes
        <5> QED
          BY <3>1, <3>2, <4>5, <5>1, <5>2
      <4> QED
        BY <2>3, <3>1, <3>4, <4>2, <4>6, <4>7
    <3> QED
      BY <3>3, <3>4
  <2>6. ~split' /\ pulse' = dhtI' + disturbed'.lost /\ pulse' <= 4 + 2 * Bits
    <3>1. PICK i, l \in Nat : i = dhtI /\ l = disturbed.lost
      BY <1>2 DEF DhtTypes
    <3>2. pulse = i + l /\ ~split
      BY <2>1, <3>1 DEF Quiet
    <3>3. dhtI' = i + 1 /\ disturbed'.lost = l /\ pulse' = i + l + 1
      BY <1>1, <1>4, <3>1, <3>2
    <3>4. pulse' = dhtI' + disturbed'.lost
      BY <3>1, <3>3
    <3>5. pulse' <= 4 + 2 * Bits
      BY <1>1, <1>2, DhtNumbers
    <3> QED
      BY <1>1, <3>2, <3>4, <3>5
  <2> QED
    BY <2>4, <2>5, <2>6 DEF Quiet
<1> QED
  BY <1>1, <1>2, <1>4, <1>5 DEF ShowsIInv

LEMMA LoseKeepsShows == ASSUME ShowsIInv, DhtLose PROVE ShowsIInv'
<1>1. /\ ~Idle255 /\ dhtI' = dhtI + 1 /\ sent' = sent /\ split' = split
  BY DEF DhtLose
<1>6. PICK n \in 1 .. 3 + 2 * Bits - pulse :
        /\ pulse' = pulse + 1 + n
        /\ disturbed' = [disturbed EXCEPT !.lost = @ + n]
  BY DEF DhtLose, Disturb
<1>2. PICK bit \in {0, 1} : Stored(bit)
  BY DEF DhtLose
<1>3. DhtTypes /\ pulse \in Nat /\ pulse < 4 + 2 * Bits /\ sent \in Frames /\ sent # << >>
  <2>1. ~(pulse >= 4 + 2 * Bits) /\ sent # << >>
    BY <1>1 DEF Idle255
  <2>2. DhtTypes /\ pulse \in Nat /\ sent \in Frames
    BY <2>1 DEF ShowsIInv, DhtTypes
  <2> QED
    BY <2>1, <2>2, DhtNumbers
<1>7. n \in Nat /\ n > 0 /\ pulse' <= 4 + 2 * Bits
  BY <1>3, <1>6, DhtNumbers
<1>4. DhtTypes' /\ disturbed'.noise = disturbed.noise /\ disturbed'.lost = disturbed.lost + n
  <2>1. dhtJ' \in Nat
    BY <1>2, <1>3 DEF Stored, DhtTypes
  <2>2. dhtI' \in Nat /\ pulse' \in Nat
    BY <1>1, <1>3, <1>6, <1>7 DEF DhtTypes
  <2>3. /\ disturbed' \in [misread : Nat, lost : Nat, noise : Nat]
        /\ disturbed'.noise = disturbed.noise /\ disturbed'.lost = disturbed.lost + n
    BY <1>3, <1>6, <1>7 DEF DhtTypes
  <2> QED
    BY <2>1, <2>2, <2>3 DEF DhtTypes
<1>5. ASSUME disturbed.noise = 0 PROVE Quiet'
  <2>1. Quiet
    BY <1>5 DEF ShowsIInv
  <2>2. /\ dht11_data' \in [1..Bytes -> Nat]
        /\ dhtJ' = IF dhtI' < 4 THEN 0 ELSE (dhtI' - 3) \div 2
    BY <1>1, <1>2, <1>3, <2>1, TurnStores
  <2>3. disturbed'.lost # 0
    BY <1>3, <1>4, <1>7 DEF DhtTypes
  <2>4. FrameRead'
    BY <1>1, <1>3, <2>3 DEF FrameRead
  <2>5. ~split' /\ pulse' = dhtI' + disturbed'.lost /\ pulse' <= 4 + 2 * Bits
    <3>1. PICK i, l \in Nat : i = dhtI /\ l = disturbed.lost
      BY <1>3 DEF DhtTypes
    <3>2. pulse = i + l /\ ~split
      BY <2>1, <3>1 DEF Quiet
    <3> QED
      <4>1. dhtI' = i + 1 /\ disturbed'.lost = l + n /\ pulse' = i + l + 1 + n
        BY <1>1, <1>4, <1>6, <3>1, <3>2
      <4>2. pulse' = dhtI' + disturbed'.lost
        BY <1>7, <3>1, <4>1
      <4> QED
        BY <1>1, <1>7, <3>2, <4>2
  <2> QED
    BY <2>2, <2>4, <2>5 DEF Quiet
<1> QED
  BY <1>1, <1>3, <1>4, <1>5 DEF ShowsIInv

LEMMA NoiseKeepsShows == ASSUME ShowsIInv, DhtNoise PROVE ShowsIInv'
<1>1. DhtTypes
  BY DEF ShowsIInv
<1>2. disturbed' \in [misread : Nat, lost : Nat, noise : Nat] /\ disturbed'.noise > 0
  <2>1. CASE split
    <3>1. disturbed.noise # 0 /\ UNCHANGED disturbed
      BY <2>1 DEF DhtNoise, ShowsIInv, Quiet
    <3> QED
      BY <1>1, <3>1 DEF DhtTypes
  <2>2. CASE ~split
    BY <1>1, <2>2 DEF DhtNoise, Disturb, DhtTypes
  <2> QED
    BY <2>1, <2>2
<1>3. dhtI' = dhtI + 1 /\ UNCHANGED <<pulse, sent>> /\ \E bit : Stored(bit)
  BY DEF DhtNoise
<1>4. dhtJ' \in Nat
  BY <1>1, <1>3 DEF Stored, DhtTypes
<1> QED
  BY <1>1, <1>2, <1>3, <1>4 DEF ShowsIInv, DhtTypes

LEMMA ShowsInductive == ShowsIInv /\ [DhtNext]_dhtVars => ShowsIInv'
<1>1. ASSUME ShowsIInv, DhtDone \/ UNCHANGED dhtVars PROVE ShowsIInv'
  <2>1. UNCHANGED <<sent, pulse, split, dhtI, dhtJ, dht11_data, disturbed>>
    BY <1>1 DEF DhtDone, dhtVars
  <2>2. DhtTypes' /\ (FrameRead => FrameRead')
    BY <1>1, <2>1 DEF ShowsIInv, DhtTypes, FrameRead
  <2>3. Quiet => Quiet'
    BY <2>1, <2>2 DEF Quiet
  <2> QED
    BY <1>1, <2>1, <2>2, <2>3 DEF ShowsIInv
<1> QED
  BY <1>1, WakeKeepsShows, PulseKeepsShows, LoseKeepsShows, NoiseKeepsShows DEF DhtNext

(* What dht11_read shows was sent, for frames of any size, unless the line  *)
(* was noisy, more than one bit was misread, or just one pulse was lost:    *)
(* more pulses that are lost leave it short of bits, and the sum finds one  *)
(* bit that is wrong.                                                       *)
THEOREM ShowsWhatWasSent == DhtSpec => []DhtShowsSent
<1>1. ShowsIInv => DhtShowsSent
  <2> SUFFICES ASSUME ShowsIInv, Accepted, disturbed.noise = 0, disturbed.misread <= 1,
                      disturbed.lost # 1
               PROVE  dht11_data = sent
    BY DEF DhtShowsSent
  <2>1. DhtTypes /\ Quiet /\ FrameRead
    BY DEF ShowsIInv, Quiet
  <2>2. /\ dhtI \in Nat /\ dhtJ \in Nat /\ disturbed.lost \in Nat /\ disturbed.misread \in Nat
        /\ dhtJ = IF dhtI < 4 THEN 0 ELSE (dhtI - 3) \div 2
        /\ dhtI + disturbed.lost <= 4 + 2 * Bits
        /\ dhtJ >= Bits
        /\ dht11_data \in [1..Bytes -> Nat] /\ dht11_data[Bytes] = CheckSum(dht11_data)
    BY <2>1, DhtNumbers DEF Quiet, DhtTypes, Accepted
  <2>3. dhtI >= 3 + 2 * Bits
    BY <2>2, DhtNumbers
  <2>4. disturbed.lost = 0 /\ dhtJ = Bits
    <3>1. PICK l \in Nat : l = disturbed.lost
      BY <2>2
    <3>2. l = 0
      BY <2>2, <2>3, <3>1, DhtNumbers
    <3>3. dhtJ = (dhtI - 3) \div 2 /\ dhtI <= 4 + 2 * Bits
      BY <2>2, <2>3, <3>1, <3>2, DhtNumbers
    <3>4. dhtJ = Bits
      BY <2>2, <2>3, <3>3, DhtNumbers
    <3> QED
      BY <3>1, <3>2, <3>4
  <2>5. sent # << >> /\ sent \in Frames
    BY <2>1, <2>3, DhtNumbers DEF FrameRead, ShowsIInv
  <2>6. Faithful(sent, dht11_data, Bits) \/ OneOff(sent, dht11_data, Bits)
    BY <2>1, <2>2, <2>4, <2>5 DEF FrameRead
  <2> QED
    BY <2>2, <2>5, <2>6, SumFinds
<1> QED
  BY <1>1, ShowsInitial, ShowsInductive, PTL DEF DhtSpec

(***************************************************************************)
(* The stepping motor of week11. *)
(***************************************************************************)
(* The field x half steps further on in the table of the driver.           *)
Sense == IF motorDriver = "temp" THEN -1 ELSE 1
FirstField == IF motorDriver = "temp" THEN 7 ELSE 0
Field(x) == Coils((FirstField + Sense * x) % STEPS)

(* The half steps of a call, how many calls are left, and which way and     *)
(* from where to where on the table the first of them goes.  It comes from  *)
(* the last phase of the call before it.                                    *)
Length == IF motorDriver = "temp" THEN Turns * 8 ELSE Turns * 5 * 8
Calls == IF motorDriver = "temp" THEN 2 ELSE 6
By(calls) == IF calls \in {6, 5, 2} THEN 1 ELSE -1
FirstPlace(calls) == CASE calls \in {6, 2} -> 0
                       [] calls = 5 -> Length
                       [] calls = 4 -> 2 * Length - 1
                       [] OTHER -> Length - 1
CameFrom(calls) == CASE calls \in {6, 2, 0} -> 0
                     [] calls = 4 -> 2 * Length - 1
                     [] calls = 3 -> Length
                     [] OTHER -> Length - 1

(* Where on the table the pins are on their way to, and from.               *)
To == IF moves = << >> THEN 0 ELSE FirstPlace(Len(moves)) + By(Len(moves)) * halfSteps
From == IF halfSteps = 0 THEN CameFrom(Len(moves)) ELSE To - By(Len(moves))

(* The pins before p are set to one field, the others still to another.     *)
Mixed(before, after, p) == {c \in 1..4 : IF c < p THEN c \in after ELSE c \in before}

MotorTypes ==
  /\ motorDriver \in {"stepping_motor", "temp"}
  /\ moves \in Seq([by : {1, -1}, n : Nat]) /\ Len(moves) \in 0 .. Calls
  /\ \A i \in 1 .. Len(moves) : moves[i] = [by |-> By(Len(moves) + 1 - i), n |-> Length]
  /\ Len(moves) = Calls => moves = Moves
  /\ halfSteps \in 0 .. Length /\ pin \in 1..4
  /\ moves = << >> => halfSteps = 0 /\ pin = 1
  /\ halfSteps = Length => pin = 1

MotorPlaced ==
  IF Homing
  THEN energised = Mixed({}, Field(0), pin) /\ rotor = 0
  ELSE /\ energised = Mixed(Field(From), Field(To), pin)
       /\ rotor = Sense * (IF energised = Field(To) THEN To ELSE From)

MotorIInv == motorDriver = "none" \/ (MotorTypes /\ MotorPlaced)

(* The fields by the coils they are between.                                *)
LEMMA CoilsAre ==
  /\ Coils(0) = {1} /\ Coils(1) = {1, 2} /\ Coils(2) = {2} /\ Coils(3) = {2, 3}
  /\ Coils(4) = {3} /\ Coils(5) = {3, 4} /\ Coils(6) = {4} /\ Coils(7) = {1, 4}
<1>1. /\ 0 \div 2 = 0 /\ 1 \div 2 = 0 /\ 2 \div 2 = 1 /\ 3 \div 2 = 1 /\ 4 \div 2 = 2
      /\ 5 \div 2 = 2 /\ 6 \div 2 = 3 /\ 7 \div 2 = 3 /\ 8 \div 2 = 4
  OBVIOUS
<1>2. 0 % 4 = 0 /\ 1 % 4 = 1 /\ 2 % 4 = 2 /\ 3 % 4 = 3 /\ 4 % 4 = 0
  OBVIOUS
<1> QED
  BY <1>1, <1>2 DEF Coils

LEMMA CoilSubsets == \A k \in 0..7 : Coils(k) \subseteq 1..4
<1> SUFFICES ASSUME NEW k \in 0..7 PROVE Coils(k) \subseteq 1..4
  OBVIOUS
<1>1. k = 0 \/ k = 1 \/ k = 2 \/ k = 3 \/ k = 4 \/ k = 5 \/ k = 6 \/ k = 7
  OBVIOUS
<1> QED
  BY <1>1, CoilsAre

(* No two fields are the same.                                              *)
LEMMA CoilsDiffer == \A k, m \in 0..7 : Coils(k) = Coils(m) => k = m
<1> SUFFICES ASSUME NEW k \in 0..7, NEW m \in 0..7, Coils(k) = Coils(m) PROVE k = m
  OBVIOUS
<1>1. \A j \in 0..7 : /\ 1 \in Coils(j) <=> j \in {0, 1, 7}
                      /\ 2 \in Coils(j) <=> j \in {1, 2, 3}
                      /\ 3 \in Coils(j) <=> j \in {3, 4, 5}
                      /\ 4 \in Coils(j) <=> j \in {5, 6, 7}
  <2> TAKE j \in 0..7
  <2>1. j = 0 \/ j = 1 \/ j = 2 \/ j = 3 \/ j = 4 \/ j = 5 \/ j = 6 \/ j = 7
    OBVIOUS
  <2> QED
    BY <2>1, CoilsAre
<1> QED
  BY <1>1

(* Setting the pins for a field next to the present one changes one of them.*)
LEMMA OneCoilChanges ==
  ASSUME NEW k \in 0..7, NEW m \in {k, (k + 1) % STEPS, (k + 7) % STEPS}
  PROVE  \E d \in 1..4 : \A c \in (1..4) \ {d} : c \in Coils(k) <=> c \in Coils(m)
<1>1. m = k \/ (k < 7 /\ m = k + 1) \/ (k = 7 /\ m = 0) \/ (k > 0 /\ m = k - 1) \/ (k = 0 /\ m = 7)
  BY DEF STEPS
<1>2. 1 \in 1..4 /\ 2 \in 1..4 /\ 3 \in 1..4 /\ 4 \in 1..4
  OBVIOUS
<1>3. CASE k = 0
  BY <1>1, <1>2, <1>3, CoilsAre
<1>4. CASE k = 1
  BY <1>1, <1>2, <1>4, CoilsAre
<1>5. CASE k = 2
  BY <1>1, <1>2, <1>5, CoilsAre
<1>6. CASE k = 3
  BY <1>1, <1>2, <1>6, CoilsAre
<1>7. CASE k = 4
  BY <1>1, <1>2, <1>7, CoilsAre
<1>8. CASE k = 5
  BY <1>1, <1>2, <1>8, CoilsAre
<1>9. CASE k = 6
  BY <1>1, <1>2, <1>9, CoilsAre
<1>10. CASE k = 7
  BY <1>1, <1>2, <1>10, CoilsAre
<1> QED
  BY <1>3, <1>4, <1>5, <1>6, <1>7, <1>8, <1>9, <1>10

(* So on the way to it the coils are in the present field or in that one.   *)
LEMMA NeverBetween ==
  ASSUME NEW k \in 0..7, NEW m \in {k, (k + 1) % STEPS, (k + 7) % STEPS}, NEW p \in 1..4
  PROVE  /\ Mixed(Coils(k), Coils(m), p) \in {Coils(k), Coils(m)}
         /\ Mixed(Coils(k), Coils(m), p + 1) \in {Coils(k), Coils(m)}
         /\ Mixed(Coils(k), Coils(m), p) = Coils(m)
              => Mixed(Coils(k), Coils(m), p + 1) = Coils(m)
<1>1. m \in 0..7
  BY DEF STEPS
<1>2. PICK d \in 1..4 : \A c \in (1..4) \ {d} : c \in Coils(k) <=> c \in Coils(m)
  BY OneCoilChanges
<1>3. \A q \in 1..5 : Mixed(Coils(k), Coils(m), q) = IF d < q THEN Coils(m) ELSE Coils(k)
  BY <1>1, <1>2, CoilSubsets DEF Mixed
<1>4. p \in 1..5 /\ p + 1 \in 1..5
  OBVIOUS
<1>5. CASE d < p
  BY <1>3, <1>4, <1>5
<1>6. CASE d = p
  <2>1. /\ Mixed(Coils(k), Coils(m), p) = Coils(k)
        /\ Mixed(Coils(k), Coils(m), p + 1) = Coils(m)
    BY <1>3, <1>4, <1>6
  <2> QED
    BY <2>1
<1>7. CASE d > p
  <2>1. /\ Mixed(Coils(k), Coils(m), p) = Coils(k)
        /\ Mixed(Coils(k), Coils(m), p + 1) = Coils(k)
    BY <1>3, <1>4, <1>7
  <2> QED
    BY <2>1
<1> QED
  BY <1>5, <1>6, <1>7

LEMMA MixedEnds ==
  ASSUME NEW k \in 0..7, NEW m \in 0..7
  PROVE  Mixed(Coils(k), Coils(m), 1) = Coils(k) /\ Mixed(Coils(k), Coils(m), 5) = Coils(m)
BY CoilSubsets DEF Mixed

(* A field turns from one to another if and only if they are by apart.      *)
LEMMA TurnedIs ==
  ASSUME NEW k \in 0..7, NEW m \in 0..7, NEW by \in {1, STEPS - 1}
  PROVE  Turned(Coils(k), Coils(m), by) <=> m = (k + by) % STEPS
<1>1. ASSUME NEW j \in 0..7 PROVE (j + by) % STEPS \in 0..7
  BY DEF STEPS
<1>2. STEPS - 1 = 7
  BY DEF STEPS
<1>3. Turned(Coils(k), Coils(m), by) <=>
        \E j \in 0..7 : Coils(k) = Coils(j) /\ Coils(m) = Coils((j + by) % STEPS)
  BY <1>2 DEF Turned
<1> QED
  BY <1>1, <1>3, CoilsDiffer

-----------------------------------------------------------------------------
(* Where a place of the table is among the fields.                          *)
PlaceOf(x) == (FirstField + Sense * x) % STEPS

LEMMA SenseIs == /\ (Sense = 1 /\ FirstField = 0) \/ (Sense = -1 /\ FirstField = 7)
                 /\ Sense \in Int /\ FirstField \in 0..7
BY DEF Sense, FirstField

LEMMA PlaceFacts ==
  ASSUME NEW x \in Int
  PROVE  /\ PlaceOf(x) \in 0..7 /\ Field(x) = Coils(PlaceOf(x))
         /\ Field(x) = Field(x % STEPS)
<1>1. PlaceOf(x) \in 0..7 /\ Field(x) = Coils(PlaceOf(x))
  BY SenseIs DEF PlaceOf, Field, STEPS
<1>2. CASE Sense = 1 /\ FirstField = 0
  <2>1. 1 * x = x /\ 1 * (x % 8) = x % 8 /\ x % 8 \in 0..7
    OBVIOUS
  <2>2. (0 + x) % 8 = (0 + (x % 8)) % 8
    BY <2>1
  <2> QED
    BY <1>1, <1>2, <2>1, <2>2 DEF Field, STEPS
<1>3. CASE Sense = -1 /\ FirstField = 7
  <2>1. (7 + (-1) * x) % 8 = (7 + (-1) * (x % 8)) % 8
    OBVIOUS
  <2> QED
    BY <1>1, <1>3, <2>1 DEF Field, STEPS
<1> QED
  BY <1>1, <1>2, <1>3, SenseIs

LEMMA Beside ==
  ASSUME NEW x \in Int, NEW y \in Int, y - x \in {-1, 0, 1}
  PROVE  /\ PlaceOf(y) \in {PlaceOf(x), (PlaceOf(x) + 1) % STEPS, (PlaceOf(x) + 7) % STEPS}
         /\ y - x = Sense => PlaceOf(y) = (PlaceOf(x) + 1) % STEPS
         /\ y - x = -Sense => PlaceOf(y) = (PlaceOf(x) + 7) % STEPS
         /\ PlaceOf(y) = PlaceOf(x) => x = y
<1>1. CASE Sense = 1 /\ FirstField = 0
  BY <1>1 DEF PlaceOf, STEPS
<1>2. CASE Sense = -1 /\ FirstField = 7
  <2>1. y = x \/ y = x + 1 \/ y = x - 1
    OBVIOUS
  <2>2. PlaceOf(x) = (7 - x) % 8 /\ PlaceOf(y) = (7 - y) % 8
    BY <1>2 DEF PlaceOf, STEPS
  <2> QED
    BY <1>2, <2>1, <2>2 DEF STEPS
<1> QED
  BY <1>1, <1>2, SenseIs

(* The tables, entry by entry.                                             *)
LEMMA StepsAre ==
  /\ Steps[1] = Coils(0) /\ Steps[2] = Coils(1) /\ Steps[3] = Coils(2) /\ Steps[4] = Coils(3)
  /\ Steps[5] = Coils(4) /\ Steps[6] = Coils(5) /\ Steps[7] = Coils(6) /\ Steps[8] = Coils(7)
<1>1. Steps[1] = {1}
  BY SMTT(20) DEF Steps
<1>2. Steps[2] = {1, 2}
  BY SMTT(20) DEF Steps
<1>3. Steps[3] = {2}
  BY SMTT(20) DEF Steps
<1>4. Steps[4] = {2, 3}
  BY SMTT(20) DEF Steps
<1>5. Steps[5] = {3}
  BY SMTT(20) DEF Steps
<1>6. Steps[6] = {3, 4}
  BY SMTT(20) DEF Steps
<1>7. Steps[7] = {4}
  BY SMTT(20) DEF Steps
<1>8. Steps[8] = {1, 4}
  BY SMTT(20) DEF Steps
<1> QED
  BY <1>1, <1>2, <1>3, <1>4, <1>5, <1>6, <1>7, <1>8, CoilsAre

LEMMA TempStepsAre ==
  /\ TempSteps[1] = Coils(7) /\ TempSteps[2] = Coils(6) /\ TempSteps[3] = Coils(5) /\ TempSteps[4] = Coils(4)
  /\ TempSteps[5] = Coils(3) /\ TempSteps[6] = Coils(2) /\ TempSteps[7] = Coils(1) /\ TempSteps[8] = Coils(0)
<1>1. TempSteps[1] = {1, 4}
  BY SMTT(20) DEF TempSteps
<1>2. TempSteps[2] = {4}
  BY SMTT(20) DEF TempSteps
<1>3. TempSteps[3] = {3, 4}
  BY SMTT(20) DEF TempSteps
<1>4. TempSteps[4] = {3}
  BY SMTT(20) DEF TempSteps
<1>5. TempSteps[5] = {2, 3}
  BY SMTT(20) DEF TempSteps
<1>6. TempSteps[6] = {2}
  BY SMTT(20) DEF TempSteps
<1>7. TempSteps[7] = {1, 2}
  BY SMTT(20) DEF TempSteps
<1>8. TempSteps[8] = {1}
  BY SMTT(20) DEF TempSteps
<1> QED
  BY <1>1, <1>2, <1>3, <1>4, <1>5, <1>6, <1>7, <1>8, CoilsAre

LEMMA TableIs ==
  ASSUME motorDriver \in {"stepping_motor", "temp"}
  PROVE  \A j \in 0..7 : Table[j + 1] = Field(j)
<1>1. SUFFICES ASSUME NEW j \in 0..7 PROVE Table[j + 1] = Field(j)
  OBVIOUS
<1>2. j = 0 \/ j = 1 \/ j = 2 \/ j = 3 \/ j = 4 \/ j = 5 \/ j = 6 \/ j = 7
  OBVIOUS
<1>3. CASE motorDriver = "temp"
  <2>1. Field(j) = Coils(7 - j)
    BY <1>3 DEF Field, FirstField, Sense, STEPS
  <2>2. Table = TempSteps
    BY <1>3 DEF Table
  <2> QED
    BY <1>2, <2>1, <2>2, TempStepsAre
<1>4. CASE motorDriver = "stepping_motor"
  <2>1. Field(j) = Coils(j)
    BY <1>4 DEF Field, FirstField, Sense, STEPS
  <2>2. Table = Steps
    BY <1>4 DEF Table
  <2> QED
    BY <1>2, <2>1, <2>2, StepsAre
<1> QED
  BY <1>3, <1>4

(* While the pins are set from one place to the next, the rotor stays at    *)
(* the place whose field is on.                                             *)
LEMMA RotorFollows ==
  ASSUME NEW x \in Int, NEW y \in Int, y - x \in {-1, 0, 1}, pin \in 1..4,
         energised = Mixed(Field(x), Field(y), pin),
         rotor = Sense * (IF energised = Field(y) THEN y ELSE x),
         NEW e, e = Mixed(Field(x), Field(y), pin + 1)
  PROVE  rotor + RotorTurns(e) = Sense * (IF e = Field(y) THEN y ELSE x)
<1> DEFINE k == PlaceOf(x)
           m == PlaceOf(y)
<1>1. /\ k \in 0..7 /\ m \in 0..7 /\ m \in {k, (k + 1) % STEPS, (k + 7) % STEPS}
      /\ Field(x) = Coils(k) /\ Field(y) = Coils(m)
  BY PlaceFacts, Beside
<1>2. /\ energised \in {Coils(k), Coils(m)} /\ e \in {Coils(k), Coils(m)}
      /\ energised = Coils(m) => e = Coils(m)
  BY <1>1, NeverBetween
<1>3. e = energised => RotorTurns(e) = 0
  <2>1. \A i \in 0..7 : ~Turned(Coils(i), Coils(i), 1) /\ ~Turned(Coils(i), Coils(i), STEPS - 1)
    <3> TAKE i \in 0..7
    <3>1. i # (i + 1) % STEPS /\ i # (i + (STEPS - 1)) % STEPS
      BY DEF STEPS
    <3> QED
      BY <3>1, TurnedIs
  <2> QED
    BY <1>1, <1>2, <2>1 DEF RotorTurns
<1>4. Sense * x \in Int /\ Sense * y \in Int
  BY SenseIs
<1>5. CASE e = energised
  BY <1>1, <1>3, <1>4, <1>5
<1>6. CASE e # energised
  <2>1. energised = Coils(k) /\ e = Coils(m) /\ Coils(k) # Coils(m) /\ rotor = Sense * x /\ k # m
    BY <1>1, <1>2, <1>6
  <2>2. y - x = Sense \/ y - x = -Sense
    <3>1. x # y
      BY <2>1
    <3> QED
      BY <3>1, SenseIs
  <2>3. /\ Turned(Coils(k), Coils(m), 1) <=> m = (k + 1) % STEPS
        /\ Turned(Coils(k), Coils(m), STEPS - 1) <=> m = (k + 7) % STEPS
    <3>1. STEPS - 1 = 7
      BY DEF STEPS
    <3> QED
      BY <1>1, <3>1, TurnedIs
  <2>4. CASE y - x = Sense
    <3>1. m = (k + 1) % STEPS
      BY <2>4, Beside
    <3>2. RotorTurns(e) = 1
      BY <2>1, <2>3, <3>1 DEF RotorTurns
    <3>3. Sense * x + 1 = Sense * y
      BY <2>4, SenseIs
    <3> QED
      BY <1>1, <2>1, <3>2, <3>3
  <2>5. CASE y - x = -Sense
    <3>1. m = (k + 7) % STEPS
      BY <2>5, Beside
    <3>2. m # (k + 1) % STEPS
      BY <1>1, <3>1 DEF STEPS
    <3>3. RotorTurns(e) = -1
      BY <2>1, <2>3, <3>1, <3>2 DEF RotorTurns
    <3>4. Sense * x - 1 = Sense * y
      BY <2>5, SenseIs
    <3> QED
      BY <1>1, <1>4, <2>1, <3>3, <3>4
  <2> QED
    BY <2>2, <2>4, <2>5
<1> QED
  BY <1>5, <1>6

-----------------------------------------------------------------------------
LEMMA LengthFacts == Length \in Nat /\ Length >= 8 /\ Length % 8 = 0 /\ Calls \in {2, 6}
<1>1. Turns \in Nat /\ Turns > 0
  BY MotorAssumption
<1>2. CASE motorDriver = "temp"
  BY <1>1, <1>2 DEF Length, Calls
<1>3. CASE motorDriver # "temp"
  <2>1. Length = 40 * Turns /\ Calls = 6
    BY <1>1, <1>3 DEF Length, Calls
  <2> QED
    BY <1>1, <2>1
<1> QED
  BY <1>2, <1>3

(* The places, call by call.                                                *)
LEMMA PlacesAre ==
  /\ By(6) = 1 /\ By(5) = 1 /\ By(4) = -1 /\ By(3) = -1 /\ By(2) = 1 /\ By(1) = -1
  /\ FirstPlace(6) = 0 /\ FirstPlace(5) = Length /\ FirstPlace(4) = 2 * Length - 1
  /\ FirstPlace(3) = Length - 1 /\ FirstPlace(2) = 0 /\ FirstPlace(1) = Length - 1
  /\ CameFrom(6) = 0 /\ CameFrom(5) = Length - 1 /\ CameFrom(4) = 2 * Length - 1
  /\ CameFrom(3) = Length /\ CameFrom(2) = 0 /\ CameFrom(1) = Length - 1 /\ CameFrom(0) = 0
BY DEF By, FirstPlace, CameFrom

(* A call begins on the table where its first or its last entry is, at most *)
(* one half step from where the call before it ended.                       *)
LEMMA Leg ==
  ASSUME NEW calls \in 1..6
  PROVE  /\ By(calls) \in {1, -1} /\ FirstPlace(calls) \in Int /\ CameFrom(calls) \in Int
         /\ FirstPlace(calls) % 8 = IF By(calls) = 1 THEN 0 ELSE 7
         /\ FirstPlace(calls) - CameFrom(calls) \in {-1, 0, 1}
         /\ CameFrom(calls - 1) = FirstPlace(calls) + By(calls) * (Length - 1)
<1>1. calls = 6 \/ calls = 5 \/ calls = 4 \/ calls = 3 \/ calls = 2 \/ calls = 1
  OBVIOUS
<1>2. /\ Length \in Int /\ 0 % 8 = 0 /\ Length % 8 = 0
      /\ (Length - 1) % 8 = 7 /\ (2 * Length - 1) % 8 = 7
  BY LengthFacts
<1> QED
  BY <1>1, <1>2, PlacesAre

LEMMA Underway ==
  ASSUME MotorTypes, moves # << >>
  PROVE  /\ Len(moves) \in 1..6 /\ halfSteps \in Nat
         /\ Head(moves) = [by |-> By(Len(moves)), n |-> Length]
         /\ To = FirstPlace(Len(moves)) + By(Len(moves)) * halfSteps
         /\ To \in Int /\ From \in Int /\ To - From \in {-1, 0, 1}
         /\ halfSteps # 0 => From # To
<1>1. Len(moves) \in 1..6 /\ halfSteps \in Nat /\ Head(moves) = moves[1]
  <2>1. moves \in Seq([by : {1, -1}, n : Nat]) /\ Len(moves) \in 0 .. Calls
    BY DEF MotorTypes
  <2>2. Len(moves) # 0 /\ Head(moves) = moves[1]
    BY <2>1
  <2>3. halfSteps \in Nat
    BY LengthFacts DEF MotorTypes
  <2>4. Calls \in {2, 6}
    BY LengthFacts
  <2>5. Len(moves) \in 1..6
    <3>1. Len(moves) \in 0 .. Calls
      BY <2>1
    <3>2. CASE Calls = 2
      BY <2>2, <3>1, <3>2
    <3>3. CASE Calls = 6
      BY <2>2, <3>1, <3>3
    <3> QED
      BY <2>4, <3>2, <3>3
  <2> QED
    BY <2>2, <2>3, <2>5
<1>2. Head(moves) = [by |-> By(Len(moves)), n |-> Length]
  <2>1. 1 \in 1 .. Len(moves) /\ Len(moves) + 1 - 1 = Len(moves)
    BY <1>1
  <2> QED
    BY <1>1, <2>1 DEF MotorTypes
<1>3. /\ To = FirstPlace(Len(moves)) + By(Len(moves)) * halfSteps
      /\ By(Len(moves)) \in {1, -1}
  <2>1. By(Len(moves)) \in {1, -1}
    BY <1>1, Leg
  <2>2. To = FirstPlace(Len(moves)) + By(Len(moves)) * halfSteps
    BY DEF To
  <2> QED
    BY <2>1, <2>2
<1>4. To \in Int
  <2>1. FirstPlace(Len(moves)) \in Int
    BY <1>1, Leg
  <2>2. By(Len(moves)) * halfSteps \in Int
    <3>1. \A n \in Int : 1 * n \in Int /\ (-1) * n \in Int
      OBVIOUS
    <3> QED
      BY <1>1, <1>3, <3>1
  <2> QED
    BY <1>3, <2>1, <2>2
<1>5. From \in Int /\ To - From \in {-1, 0, 1} /\ (halfSteps # 0 => From # To)
  <2>1. CASE halfSteps = 0
    <3>1. By(Len(moves)) * 0 = 0 /\ FirstPlace(Len(moves)) \in Int
      <4>1. 1 * 0 = 0 /\ (-1) * 0 = 0
        OBVIOUS
      <4>2. FirstPlace(Len(moves)) \in Int
        BY <1>1, Leg
      <4> QED
        BY <1>3, <4>1, <4>2
    <3>2. To = FirstPlace(Len(moves)) /\ From = CameFrom(Len(moves))
      BY <1>3, <2>1, <3>1 DEF From
    <3> QED
      BY <1>1, <2>1, <3>2, Leg
  <2>2. CASE halfSteps # 0
    BY <1>3, <1>4, <2>2 DEF From
  <2> QED
    BY <2>1, <2>2
<1> QED
  BY <1>1, <1>2, <1>3, <1>4, <1>5

(* The phase that the pins are set to is that of the place they go to.      *)
LEMMA PhaseIs ==
  ASSUME MotorTypes, moves # << >>
  PROVE  Phase = Field(To)
<1> DEFINE j == halfSteps % 8
<1>1. j \in 0..7 /\ halfSteps \in Nat /\ To \in Int
  BY Underway
<1>2. \A k \in 0..7 : Table[k + 1] = Field(k)
  BY TableIs DEF MotorTypes
<1>3. Field(To) = Field(To % 8)
  BY <1>1, PlaceFacts DEF STEPS
<1>4. CASE By(Len(moves)) = 1
  <2>1. FirstPlace(Len(moves)) % 8 = 0 /\ FirstPlace(Len(moves)) \in Int
    BY <1>4, Underway, Leg
  <2>2. To = FirstPlace(Len(moves)) + halfSteps
    BY <1>1, <1>4, Underway
  <2>3. To % 8 = j
    BY <1>1, <2>1, <2>2
  <2>4. Phase = Table[j + 1]
    BY <1>4, Underway DEF Phase, STEPS
  <2> QED
    BY <1>1, <1>2, <1>3, <2>3, <2>4
<1>5. CASE By(Len(moves)) = -1
  <2>1. FirstPlace(Len(moves)) % 8 = 7 /\ FirstPlace(Len(moves)) \in Int
    <3>1. Len(moves) \in 1..6 /\ By(Len(moves)) # 1
      BY <1>5, Underway
    <3> QED
      BY <3>1, Leg
  <2>2. To = FirstPlace(Len(moves)) - halfSteps
    BY <1>1, <1>5, <2>1, Underway
  <2>3. To % 8 = 7 - j
    BY <1>1, <2>1, <2>2
  <2>4. Phase = Table[(7 - j) + 1]
    <3>1. 8 - j = (7 - j) + 1
      BY <1>1
    <3>2. Head(moves).by # 1
      BY <1>5, Underway
    <3>3. Phase = Table[8 - j]
      BY <3>2 DEF Phase, STEPS
    <3> QED
      BY <3>1, <3>3
  <2>5. 7 - j \in 0..7
    BY <1>1
  <2> QED
    BY <1>2, <1>3, <2>3, <2>4, <2>5
<1> QED
  BY <1>4, <1>5, Underway, Leg

-----------------------------------------------------------------------------
LEMMA MovesAre ==
  ASSUME motorDriver \in {"stepping_motor", "temp"}
  PROVE  /\ Moves \in Seq([by : {1, -1}, n : Nat]) /\ Len(Moves) = Calls
         /\ \A i \in 1 .. Calls : Moves[i] = [by |-> By(Calls + 1 - i), n |-> Length]
<1> DEFINE Ahead == [by |-> 1, n |-> Length]
           Back == [by |-> -1, n |-> Length]
<1>1. Ahead \in [by : {1, -1}, n : Nat] /\ Back \in [by : {1, -1}, n : Nat]
  BY LengthFacts
<1>2. CASE motorDriver = "temp"
  <2>1. forward(1) = Ahead /\ backward(1) = Back
    BY <1>2, MotorAssumption DEF forward, backward, Length, STEPS
  <2>2. Moves = <<Ahead, Back>> /\ Calls = 2
    BY <1>2, <2>1 DEF Moves, TempMoves, Calls
  <2> HIDE DEF Ahead, Back
  <2>3. /\ Len(<<Ahead, Back>>) = 2
        /\ \A i \in 1..2 : <<Ahead, Back>>[i] = IF i = 1 THEN Ahead ELSE Back
    OBVIOUS
  <2>4. <<Ahead, Back>> \in Seq([by : {1, -1}, n : Nat])
    BY <1>1
  <2>5. \A i \in 1..2 : By(2 + 1 - i) = IF i = 1 THEN 1 ELSE -1
    BY PlacesAre
  <2> QED
    BY <2>2, <2>3, <2>4, <2>5 DEF Ahead, Back
<1>3. CASE motorDriver = "stepping_motor"
  <2>1. forward(5) = Ahead /\ backward(5) = Back
    BY <1>3 DEF forward, backward, Length, STEPS
  <2>2. moveDegree(5, 0) = forward(5) /\ moveDegree(5, 1) = backward(5)
    BY DEF moveDegree
  <2>3. Moves = <<Ahead, Ahead, Back, Back, Ahead, Back>> /\ Calls = 6
    BY <1>3, <2>1, <2>2 DEF Moves, InitMoves, Calls
  <2> HIDE DEF Ahead, Back
  <2>4. /\ Len(<<Ahead, Ahead, Back, Back, Ahead, Back>>) = 6
        /\ \A i \in 1..6 : <<Ahead, Ahead, Back, Back, Ahead, Back>>[i]
                             = IF i \in {1, 2, 5} THEN Ahead ELSE Back
    OBVIOUS
  <2>5. <<Ahead, Ahead, Back, Back, Ahead, Back>> \in Seq([by : {1, -1}, n : Nat])
    BY <1>1
  <2>6. \A i \in 1..6 : By(6 + 1 - i) = IF i \in {1, 2, 5} THEN 1 ELSE -1
    BY DEF By
  <2> QED
    BY <2>3, <2>4, <2>5, <2>6 DEF Ahead, Back
<1> QED
  BY <1>2, <1>3

(* The fields of places next to one another are not the same.               *)
LEMMA FieldsDiffer ==
  ASSUME NEW x \in Int, NEW y \in Int, y - x \in {-1, 0, 1}, Field(x) = Field(y)
  PROVE  x = y
<1>1. /\ PlaceOf(x) \in 0..7 /\ PlaceOf(y) \in 0..7
      /\ Coils(PlaceOf(x)) = Coils(PlaceOf(y))
  BY PlaceFacts
<1>2. PlaceOf(x) = PlaceOf(y)
  BY <1>1, CoilsDiffer
<1> QED
  BY <1>2, Beside

LEMMA MotorInitial == MotorInit => MotorIInv
<1> SUFFICES ASSUME NEW name \in {"stepping_motor", "temp"}, MotorStart(name)
             PROVE  MotorIInv
  BY DEF MotorInit
<1>1. /\ motorDriver \in {"stepping_motor", "temp"} /\ moves = Moves
      /\ halfSteps = 0 /\ pin = 1 /\ energised = {} /\ rotor = 0
  BY DEF MotorStart
<1>2. Len(moves) = Calls /\ Calls # 0 /\ Length # 0 /\ 0 \in 0 .. Length /\ Calls \in 0 .. Calls
  BY <1>1, MovesAre, LengthFacts
<1>3. MotorTypes
  <2>1. moves # << >>
    BY <1>2
  <2>2. \A i \in 1 .. Len(moves) : moves[i] = [by |-> By(Len(moves) + 1 - i), n |-> Length]
    BY <1>1, <1>2, MovesAre
  <2> QED
    BY <1>1, <1>2, <2>1, <2>2, MovesAre DEF MotorTypes
<1>4. MotorPlaced
  BY <1>1 DEF MotorPlaced, Homing, Mixed
<1> QED
  BY <1>3, <1>4 DEF MotorIInv

LEMMA StepTypes == MotorTypes /\ setStep => MotorTypes'
<1> SUFFICES ASSUME MotorTypes, setStep PROVE MotorTypes'
  OBVIOUS
<1>1. /\ moves # << >> /\ halfSteps < Length /\ halfSteps \in Nat
      /\ UNCHANGED <<motorDriver, moves>>
  BY Underway DEF setStep
<1>2. Length \in Nat /\ Calls' = Calls /\ Length' = Length /\ Moves' = Moves
  BY <1>1, LengthFacts DEF Calls, Length, Moves
<1>3. pin' \in 1..4 /\ halfSteps' \in 0 .. Length /\ (halfSteps' = Length => pin' = 1)
  BY <1>1, <1>2 DEF setStep, MotorTypes
<1> QED
  BY <1>1, <1>2, <1>3 DEF MotorTypes

LEMMA StepPlaced == MotorTypes /\ MotorPlaced /\ setStep => MotorPlaced'
<1> SUFFICES ASSUME MotorTypes, MotorPlaced, setStep PROVE MotorPlaced'
  OBVIOUS
<1>1. /\ moves # << >> /\ halfSteps < Length /\ halfSteps \in Nat /\ pin \in 1..4
      /\ UNCHANGED <<motorDriver, moves>>
      /\ Len(moves) \in 1..6
  BY Underway DEF setStep, MotorTypes
<1>2. Phase = Field(To) /\ To \in Int /\ From \in Int /\ To - From \in {-1, 0, 1}
  BY <1>1, PhaseIs, Underway
<1>3. /\ Sense' = Sense /\ FirstField' = FirstField /\ Sense \in Int
      /\ Calls' = Calls /\ Moves' = Moves /\ Length' = Length
  BY <1>1, SenseIs DEF FirstField, Sense, Calls, Moves, Length
<1>4. Phase \subseteq 1..4
  BY <1>2, PlaceFacts, CoilSubsets
<1>5. energised' = IF pin \in Phase THEN energised \cup {pin} ELSE energised \ {pin}
  BY DEF setStep
<1>6. ASSUME NEW before, energised = Mixed(before, Phase, pin)
      PROVE  energised' = Mixed(before, Phase, pin + 1)
  <2>1. \A c : c \in energised' <=> c \in Mixed(before, Phase, pin + 1)
    <3> TAKE c
    <3>1. CASE c = pin
      BY <1>1, <1>5, <3>1 DEF Mixed
    <3>2. CASE c # pin
      <4>1. c \in energised' <=> c \in energised
        BY <1>5, <3>2
      <4>2. c \in 1..4 => (c < pin + 1 <=> c < pin)
        BY <1>1, <3>2
      <4> QED
        BY <1>6, <4>1, <4>2 DEF Mixed
    <3> QED
      BY <3>1, <3>2
  <2> QED
    BY <2>1
<1>7. Homing => To = 0
  <2>1. SUFFICES ASSUME Homing PROVE To = 0
    OBVIOUS
  <2>2. moves = Moves /\ halfSteps = 0
    BY <2>1 DEF Homing
  <2>3. Len(moves) = 2 \/ Len(moves) = 6
    BY <2>2, MovesAre, LengthFacts DEF MotorTypes
  <2>4. FirstPlace(Len(moves)) = 0 /\ By(Len(moves)) = 1
    BY <2>3, PlacesAre
  <2> QED
    BY <1>1, <2>2, <2>4, Underway
<1>8. /\ energised' = Mixed(IF Homing THEN {} ELSE Field(From), Field(To), pin + 1)
      /\ rotor' = IF Homing THEN 0 ELSE Sense * (IF energised' = Field(To) THEN To ELSE From)
  <2>1. CASE Homing
    <3>1. energised = Mixed({}, Phase, pin)
      BY <1>2, <1>7, <2>1 DEF MotorPlaced
    <3> QED
      BY <1>2, <1>6, <2>1, <3>1 DEF setStep
  <2>2. CASE ~Homing
    <3>1. /\ energised = Mixed(Field(From), Field(To), pin)
          /\ rotor = Sense * (IF energised = Field(To) THEN To ELSE From)
      BY <2>2 DEF MotorPlaced
    <3>2. energised' = Mixed(Field(From), Field(To), pin + 1)
      BY <1>2, <1>6, <3>1
    <3>3. rotor' = rotor + RotorTurns(energised')
      BY <2>2 DEF setStep
    <3>4. rotor + RotorTurns(energised') = Sense * (IF energised' = Field(To) THEN To ELSE From)
      BY <1>1, <1>2, <3>1, <3>2, RotorFollows
    <3> QED
      BY <2>2, <3>2, <3>3, <3>4
  <2> QED
    BY <2>1, <2>2
<1>9. CASE pin # 4
  <2>1. pin' = pin + 1 /\ halfSteps' = halfSteps
    BY <1>1, <1>9 DEF setStep
  <2>2. To' = To /\ From' = From /\ (Homing' <=> Homing)
    BY <1>1, <1>3, <2>1 DEF To, From, FirstPlace, CameFrom, By, Homing
  <2>3. Field(To)' = Field(To) /\ Field(From)' = Field(From) /\ Field(0)' = Field(0)
    BY <1>3, <2>2 DEF Field
  <2>4. Homing => Field(To) = Field(0)
    BY <1>7
  <2> QED
    BY <1>3, <1>8, <2>1, <2>2, <2>3, <2>4 DEF MotorPlaced, Mixed
<1>10. CASE pin = 4
  <2>1. pin' = 1 /\ halfSteps' = halfSteps + 1
    BY <1>10 DEF setStep
  <2>2. By(Len(moves)) \in {1, -1} /\ FirstPlace(Len(moves)) \in Int
    BY <1>1, Leg
  <2>3. To' = To + By(Len(moves)) /\ From' = To /\ ~Homing'
    <3>1. To' = FirstPlace(Len(moves)) + By(Len(moves)) * (halfSteps + 1)
      BY <1>1, <1>3, <2>1 DEF To, FirstPlace, By
    <3>2. To = FirstPlace(Len(moves)) + By(Len(moves)) * halfSteps
      BY <1>1, Underway
    <3>3. To' = To + By(Len(moves))
      BY <1>1, <2>2, <3>1, <3>2
    <3>4. halfSteps' # 0
      BY <1>1, <2>1
    <3>5. From' = To' - By(Len(moves))
      BY <1>1, <3>4 DEF From, By
    <3> QED
      BY <1>2, <2>2, <3>3, <3>4, <3>5 DEF Homing
  <2>4. /\ Field(To)' = Field(To') /\ Field(From)' = Field(To)
    BY <1>3, <2>3 DEF Field
  <2>5. Field(To) \subseteq 1..4 /\ Field(To') \subseteq 1..4
    BY <1>2, <2>2, <2>3, PlaceFacts, CoilSubsets
  <2>6. energised' = Field(To) /\ energised' = Mixed(Field(To), Field(To'), 1)
    <3>1. \A before : Mixed(before, Field(To), 5) = Field(To)
      BY <2>5 DEF Mixed
    <3>2. Mixed(Field(To), Field(To'), 1) = Field(To)
      BY <2>5 DEF Mixed
    <3> QED
      BY <1>8, <1>10, <3>1, <3>2
  <2>7. Field(To') # Field(To)
    <3>1. To' \in Int /\ To' - To \in {-1, 0, 1} /\ To' # To
      BY <1>2, <2>2, <2>3
    <3> QED
      BY <1>2, <3>1, FieldsDiffer
  <2>8. rotor' = Sense * To
    BY <1>3, <1>7, <1>8, <2>6
  <2> QED
    BY <1>3, <2>1, <2>3, <2>4, <2>6, <2>7, <2>8 DEF MotorPlaced, Mixed
<1> QED
  BY <1>9, <1>10

LEMMA NextMoveKeeps == MotorTypes /\ MotorPlaced /\ NextMove => (MotorTypes /\ MotorPlaced)'
<1> SUFFICES ASSUME MotorTypes, MotorPlaced, NextMove PROVE (MotorTypes /\ MotorPlaced)'
  OBVIOUS
<1>1. /\ moves # << >> /\ halfSteps = Length /\ pin = 1 /\ pin' = 1 /\ halfSteps' = 0
      /\ moves' = Tail(moves) /\ UNCHANGED <<motorDriver, energised, rotor>>
      /\ Len(moves) \in 1..6
      /\ halfSteps > 0
  BY Underway, LengthFacts DEF NextMove, MotorTypes
<1>2. moves \in Seq([by : {1, -1}, n : Nat]) /\ Len(moves) \in 0 .. Calls
  BY DEF MotorTypes
<1>3. /\ Tail(moves) \in Seq([by : {1, -1}, n : Nat]) /\ Len(Tail(moves)) = Len(moves) - 1
      /\ \A i \in 1 .. Len(moves) - 1 : Tail(moves)[i] = moves[i + 1]
  BY <1>1, <1>2
<1>7. /\ Len(moves') = Len(moves) - 1 /\ Len(moves) \in 1..6
      /\ \A i \in 1 .. Len(moves) - 1 : moves'[i] = moves[i + 1]
  BY <1>1, <1>3
<1>8. Len(moves') \in 0 .. Calls /\ Len(moves') # Calls
  <2>1. Len(moves) <= Calls /\ Calls \in Int
    <3>1. Calls = 2 \/ Calls = 6
      BY LengthFacts
    <3>2. Len(moves) \in 0 .. Calls
      BY <1>2
    <3> QED
      BY <3>1, <3>2
  <2> QED
    BY <1>7, <2>1
<1>4. /\ Sense' = Sense /\ FirstField' = FirstField /\ Sense \in Int
      /\ Calls' = Calls /\ Moves' = Moves /\ Length' = Length
  BY <1>1, SenseIs DEF FirstField, Sense, Calls, Moves, Length
<1>5. MotorTypes'
  <2>1. \A i \in 1 .. Len(moves') : moves'[i] = [by |-> By(Len(moves') + 1 - i), n |-> Length']
    <3> TAKE i \in 1 .. Len(moves')
    <3>1. i \in 1 .. Len(moves) - 1
      BY <1>7
    <3>2. i + 1 \in 1 .. Len(moves) /\ Len(moves) + 1 - (i + 1) = Len(moves) - 1 + 1 - i
      <4>1. Len(moves) \in Int
        BY <1>7
      <4> QED
        BY <3>1, <4>1
    <3>3. \A k \in 1 .. Len(moves) : moves[k] = [by |-> By(Len(moves) + 1 - k), n |-> Length]
      BY DEF MotorTypes
    <3>4. moves[i + 1] = [by |-> By(Len(moves) - 1 + 1 - i), n |-> Length]
      BY <3>2, <3>3
    <3> QED
      BY <1>4, <1>7, <3>1, <3>4
  <2>2. moves' \in Seq([by : {1, -1}, n : Nat])
    BY <1>1, <1>3
  <2>3. 0 \in 0 .. Length /\ Length # 0
    BY LengthFacts
  <2> QED
    BY <1>1, <1>4, <1>8, <2>1, <2>2, <2>3 DEF MotorTypes
<1>6. MotorPlaced'
  <2>1. ~Homing /\ ~Homing'
    <3>1. Len(Moves) = Calls
      BY MovesAre DEF MotorTypes
    <3> QED
      BY <1>1, <1>4, <1>8, <3>1 DEF Homing
  <2>2. /\ From \in Int /\ To \in Int /\ To - From \in {-1, 0, 1} /\ From # To
    BY <1>1, Underway
  <2>3. From = CameFrom(Len(moves) - 1)
    <3>1. /\ By(Len(moves)) \in {1, -1} /\ FirstPlace(Len(moves)) \in Int
          /\ CameFrom(Len(moves) - 1) = FirstPlace(Len(moves)) + By(Len(moves)) * (Length - 1)
          /\ Length \in Nat
      BY <1>1, Leg, LengthFacts
    <3>2. To = FirstPlace(Len(moves)) + By(Len(moves)) * Length
      BY <1>1, Underway
    <3>3. From = To - By(Len(moves))
      BY <1>1 DEF From
    <3> QED
      BY <3>1, <3>2, <3>3
  <2>4. From' = From
    BY <1>1, <1>3, <1>4, <2>3 DEF From, CameFrom
  <2>5. To' \in Int /\ To' - From' \in {-1, 0, 1}
    <3>1. CASE moves' = << >>
      <4>1. Len(moves) - 1 = 0
        BY <1>1, <1>3, <3>1
      <4>2. To' = 0 /\ From' = 0
        BY <2>3, <2>4, <3>1, <4>1, PlacesAre DEF To
      <4> QED
        BY <4>2
    <3>2. CASE moves' # << >>
      <4>1. Len(moves) - 1 \in 1..6
        <5>1. moves' \in Seq([by : {1, -1}, n : Nat])
          BY <1>1, <1>3
        <5>2. Len(moves') # 0
          BY <3>2, <5>1
        <5>3. Len(moves') = Len(moves) - 1 /\ Len(moves) \in 1..6
          BY <1>7
        <5>4. \A n \in 1..6 : n - 1 # 0 => n - 1 \in 1..6
          OBVIOUS
        <5> QED
          BY <5>2, <5>3, <5>4
      <4>2. /\ FirstPlace(Len(moves) - 1) \in Int /\ By(Len(moves) - 1) \in {1, -1}
            /\ FirstPlace(Len(moves) - 1) - From \in {-1, 0, 1}
        BY <2>3, <4>1, Leg
      <4>3. To' = FirstPlace(Len(moves) - 1) + By(Len(moves) - 1) * 0
        BY <1>1, <1>3, <1>4, <3>2 DEF To, FirstPlace, By
      <4>4. 1 * 0 = 0 /\ (-1) * 0 = 0
        OBVIOUS
      <4>5. To' = FirstPlace(Len(moves) - 1)
        BY <4>2, <4>3, <4>4
      <4> QED
        BY <2>4, <4>2, <4>5
    <3> QED
      BY <3>1, <3>2
  <2>6. Field(To)' = Field(To') /\ Field(From)' = Field(From)
    BY <1>4, <2>4 DEF Field
  <2>7. Field(From) \subseteq 1..4 /\ Field(To) \subseteq 1..4 /\ Field(To') \subseteq 1..4
    BY <2>2, <2>5, PlaceFacts, CoilSubsets
  <2>8. energised = Field(From) /\ energised = Mixed(Field(From), Field(To'), 1)
    <3>1. energised = Mixed(Field(From), Field(To), 1)
      BY <1>1, <2>1 DEF MotorPlaced
    <3>2. \A after : Mixed(Field(From), after, 1) = Field(From)
      BY <2>7 DEF Mixed
    <3> QED
      BY <3>1, <3>2
  <2>9. Field(From) # Field(To) /\ (Field(From) = Field(To') => From = To')
    BY <2>2, <2>4, <2>5, FieldsDiffer
  <2>10. rotor = Sense * From
    BY <2>1, <2>8, <2>9 DEF MotorPlaced
  <2> QED
    BY <1>1, <1>4, <2>1, <2>4, <2>6, <2>8, <2>9, <2>10 DEF MotorPlaced, Mixed
<1> QED
  BY <1>5, <1>6

LEMMA MotorInductive == MotorIInv /\ [MotorNext]_motorVars => MotorIInv'
<1> SUFFICES ASSUME MotorIInv, [MotorNext]_motorVars PROVE MotorIInv'
  OBVIOUS
<1>1. CASE UNCHANGED motorVars
  BY <1>1 DEF motorVars, MotorIInv, MotorTypes, MotorPlaced, Calls, Length, Moves, By, Homing,
              Field, Sense, FirstField, From, To, FirstPlace, CameFrom
<1>2. CASE MotorExit
  BY <1>2 DEF MotorExit, MotorIInv
<1>3. CASE motorDriver = "none" /\ (setStep \/ NextMove)
  BY <1>3 DEF setStep, NextMove, MotorIInv
<1>4. CASE MotorTypes /\ MotorPlaced /\ setStep
  BY <1>4, StepTypes, StepPlaced DEF MotorIInv
<1>5. CASE MotorTypes /\ MotorPlaced /\ NextMove
  BY <1>5, NextMoveKeeps DEF MotorIInv
<1> QED
  BY <1>1, <1>2, <1>3, <1>4, <1>5 DEF MotorNext, MotorIInv

(* setStep sets the pins of a phase one by one, forward and backward read   *)
(* the tables in turn: the rotor stays under the field at every pin, and    *)
(* is back where it began, for any number of turns.                         *)
THEOREM RotorInStep == MotorSpec => []MotorInStep
<1>1. MotorIInv => MotorInStep
  <2> SUFFICES ASSUME MotorTypes, MotorPlaced PROVE MotorInStep
    BY DEF MotorIInv, MotorInStep
  <2>1. Homing \/ \E k \in 0 .. STEPS - 1 : /\ Table[1] = Coils(k)
                                            /\ energised = Coils((k + rotor) % STEPS)
    <3> SUFFICES ASSUME ~Homing
                 PROVE  \E k \in 0 .. STEPS - 1 : /\ Table[1] = Coils(k)
                                                  /\ energised = Coils((k + rotor) % STEPS)
      OBVIOUS
    <3>1. /\ energised = Mixed(Field(From), Field(To), pin)
          /\ rotor = Sense * (IF energised = Field(To) THEN To ELSE From)
          /\ pin \in 1..4
      BY DEF MotorPlaced, MotorTypes
    <3>2. From \in Int /\ To \in Int /\ To - From \in {-1, 0, 1}
      <4>1. CASE moves = << >>
        BY <4>1, PlacesAre DEF MotorTypes, From, To
      <4> QED
        BY <4>1, Underway
    <3>3. energised = Field(From) \/ energised = Field(To)
      BY <3>1, <3>2, PlaceFacts, Beside, NeverBetween
    <3>4. energised = Coils((FirstField + rotor) % STEPS)
      BY <3>1, <3>3 DEF Field
    <3>5. Table[1] = Coils(FirstField)
      <4>1. Table[0 + 1] = Field(0) /\ 0 + 1 = 1
        BY TableIs DEF MotorTypes
      <4>2. Field(0) = Coils(FirstField)
        BY SenseIs DEF Field, STEPS
      <4> QED
        BY <4>1, <4>2
    <3>6. FirstField \in 0 .. STEPS - 1
      BY SenseIs DEF STEPS
    <3> QED
      BY <3>4, <3>5, <3>6
  <2>2. moves = << >> => rotor = 0
    <3>1. SUFFICES ASSUME moves = << >> PROVE rotor = 0
      OBVIOUS
    <3>2. ~Homing
      <4>1. Len(Moves) # 0 /\ Len(moves) = 0
        BY <3>1, MovesAre, LengthFacts DEF MotorTypes
      <4> QED
        BY <4>1 DEF Homing
    <3>3. From = 0 /\ To = 0
      BY <3>1, PlacesAre DEF MotorTypes, From, To
    <3> QED
      BY <3>2, <3>3, SenseIs DEF MotorPlaced
  <2> QED
    BY <2>1, <2>2 DEF MotorInStep
<1> QED
  BY <1>1, MotorInitial, MotorInductive, PTL DEF MotorSpec
=============================================================================
