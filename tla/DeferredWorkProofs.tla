------------------------- MODULE DeferredWorkProofs -------------------------
(***************************************************************************)
(* Theorems about the exercises that leave work for later, for any number  *)
(* of interrupts and of opens of the device.                               *)
(*                                                                         *)
(* All that init starts and exit stops is told by the calls that are left: *)
(* what runs was started by a call of init that is left no more (TimerOK,  *)
(* IrqOK, ...), and after the call of exit that stops it, nothing of it    *)
(* runs.  The order of the calls is a fact about each driver's sequences.  *)
(***************************************************************************)
EXTENDS DeferredWork, TLAPS

(***************************************************************************)
(* The calls that are left of init's, or of exit's.                        *)
(***************************************************************************)
Names(s) == {s[i] : i \in 1 .. Len(s)}

(* No call of P comes twice; and c comes before d.                         *)
Distinct(P) == \A i, j \in 1 .. Len(P) : P[i] = P[j] => i = j
Before(P, c, d) == \E i, j \in 1 .. Len(P) : i < j /\ P[i] = c /\ P[j] = d

(* What is left of P is how P ends.                                         *)
Rest(s, P) ==
  /\ s \in Seq(Names(P)) /\ Len(s) <= Len(P)
  /\ \A i \in 1 .. Len(s) : s[i] = P[i + (Len(P) - Len(s))]

Left == Names(todo)
Has(c) == c \in Names(InitCalls[driver])

(* exit has made its call c.                                                *)
Over(c) == stage = "unloaded" \/ (stage = "exit" /\ c \notin Left)

Names8 == {"simple_timer", "ch2", "ch3", "week6", "simple_tasklet",
           "pir_tasklet", "kthreadNworkq", "ch5"}

WorkTypes ==
  /\ driver \in Names8
  /\ stage \in {"init", "loaded", "exit", "unloaded", "oops"}
  /\ timer \in [pending : BOOLEAN, at : {"idle", "func", "on", "off", "clear", "arm"}]
  /\ tasklet \in [scheduled : BOOLEAN, running : BOOLEAN]
  /\ irq \in [requested : BOOLEAN, depth : Nat, at : {"idle", "look"}]
  /\ workqueue \in [up : BOOLEAN, queued : Nat, busy : BOOLEAN]
  /\ thread \in [{"a", "b"} -> {"none", "up", "told", "ended"}]
  /\ device \in [there : BOOLEAN, opens : Nat]
  /\ is_detect \in {0, 1} /\ light_status \in {0, 1}

(* Work is queued by an interrupt only, at most once each time.             *)
Bounded ==
  /\ driver \in Drivers
  /\ pins \subseteq {"sensor", "leds"} /\ lit \subseteq {"LED1", "LED2", "LED3"}
  /\ detections \in 0 .. MaxDetections /\ workqueue.queued <= detections
  /\ device.opens <= MaxOpens

TodoOK ==
  /\ stage = "init" => Rest(todo, InitCalls[driver])
  /\ stage = "exit" => Rest(todo, ExitCalls[driver])
  /\ stage \in {"loaded", "unloaded"} => todo = <<>>

(* What has been started, init started; and what exit has stopped rests.    *)
TimerRests == ~timer.pending /\ timer.at = "idle"
TimerOK ==
  /\ TimerRests \/ (Has("add_timer") /\ "add_timer" \notin Left)
  /\ Over("del_timer") => TimerRests \/ "late_timer" \in faults

TaskletRests == ~tasklet.scheduled /\ ~tasklet.running
TaskletOK ==
  /\ TaskletRests \/ Has("tasklet_schedule")
  /\ Over("tasklet_kill") => TaskletRests \/ "late_tasklet" \in faults

IrqRests == ~irq.requested /\ irq.at = "idle"
IrqOK ==
  /\ IrqRests \/ (Has("request_irq") /\ "request_irq" \notin Left)
  /\ Over("free_irq") => IrqRests
  /\ irq.at # "idle" => driver = "ch3"

QueueRests == workqueue.queued = 0 /\ ~workqueue.busy
QueueOK ==
  /\ workqueue.up \/ ~QueueRests => Has("create_workqueue")
  /\ Over("flush_workqueue") => QueueRests

ThreadsOK ==
  \A k \in {"a", "b"} : /\ thread[k] # "none" => Has(Create[k])
                        /\ Over(Stop[k]) => thread[k] \in {"none", "ended"}

(* Who writes an LED has it, but for exit in the wrong order.               *)
PinsOK ==
  /\ Has("request_leds") /\ stage \in {"init", "loaded"} /\ "request_leds" \notin Left
       => "leds" \in pins
  /\ driver = "ch3" /\ stage = "exit" /\ "free_leds" \in Left => "leds" \in pins

LampOK == driver = "ch3" /\ Over("leds_off") /\ "late_timer" \notin faults => lit = {}

(* ch3's lamp and its two flags, while handler and timer take turns.        *)
Agrees == is_detect = 1 \/ ((light_status = 1) <=> (lit = {"LED1"}))
TicksOK ==
  driver = "ch3" /\ stage \in {"init", "loaded"} /\ "crossed" \notin faults =>
    /\ timer.at = "idle" \/ irq.at = "idle"
    /\ timer.at \in {"idle", "func", "arm"} => Agrees
    /\ timer.at \in {"on", "clear"} => lit = {"LED1"}
    /\ timer.at = "clear" => light_status = 1
    /\ timer.at = "off" => lit = {} /\ is_detect = 0
    /\ timer.at = "on" => is_detect = 1
    /\ irq.at = "look" => is_detect = 1
    /\ "add_timer" \in Left => light_status = 0

(* Every open takes one from the depth and every release adds one.          *)
Gated == driver \in {"week6", "ch3"} /\ stage \in {"init", "loaded"}
Enabled == IF "disable_irq" \in Left THEN 0 ELSE 1
GateOK ==
  /\ Gated /\ irq.requested => irq.depth + device.opens >= Enabled
  /\ Gated /\ "unbalanced" \notin faults =>
       IF irq.requested THEN irq.depth + device.opens = Enabled ELSE device.opens = 0

WorkIInv ==
  /\ WorkTypes /\ Bounded /\ TodoOK
  /\ TimerOK /\ TaskletOK /\ IrqOK /\ QueueOK /\ ThreadsOK
  /\ PinsOK /\ LedsHeld /\ LampOK /\ TicksOK /\ GateOK

-----------------------------------------------------------------------------
(* What is left after a call is what was left but for the call, and all that*)
(* comes before the call is over.                                           *)
LEMMA RestNames ==
  ASSUME NEW P, Len(P) \in Nat, NEW s, Rest(s, P)
  PROVE  /\ Names(s) \subseteq Names(P)
         /\ \A c, d : Distinct(P) /\ Before(P, c, d) /\ c \in Names(s) => d \in Names(s)
<1> DEFINE k == Len(P) - Len(s)
<1>1. Len(s) \in Nat /\ Len(P) \in Nat /\ k \in Nat
  BY DEF Rest
<1>2. \A i \in 1 .. Len(s) : i + k \in 1 .. Len(P) /\ s[i] = P[i + k]
  BY <1>1 DEF Rest
<1>3. Names(s) \subseteq Names(P)
  BY <1>2 DEF Names
<1>4. ASSUME NEW c, NEW d, Distinct(P), Before(P, c, d), c \in Names(s) PROVE d \in Names(s)
  <2>1. PICK i \in 1 .. Len(P), j \in 1 .. Len(P) : i < j /\ P[i] = c /\ P[j] = d
    BY <1>4 DEF Before
  <2>2. PICK h \in 1 .. Len(s) : s[h] = c
    BY <1>4 DEF Names
  <2>3. i = h + k
    <3>1. h + k \in 1 .. Len(P) /\ P[h + k] = P[i]
      BY <1>2, <2>1, <2>2
    <3> QED
      BY <1>4, <2>1, <3>1 DEF Distinct
  <2>4. j - k \in 1 .. Len(s) /\ (j - k) + k = j
    <3>1. h \in Nat /\ i < j /\ j <= Len(P) /\ j \in Nat /\ 1 <= h
      BY <1>1, <2>1, <2>2
    <3> HIDE DEF k
    <3>2. k \in Nat /\ Len(P) = k + Len(s)
      BY <1>1 DEF k
    <3> QED
      BY <1>1, <2>3, <3>1, <3>2
  <2>5. s[j - k] = d
    BY <1>2, <2>1, <2>4
  <2> QED
    BY <2>4, <2>5 DEF Names
<1> QED
  BY <1>3, <1>4

LEMMA RestTail ==
  ASSUME NEW P, Len(P) \in Nat, Distinct(P), NEW s, Rest(s, P), s # <<>>
  PROVE  /\ Head(s) \in Names(s) /\ Names(Tail(s)) = Names(s) \ {Head(s)}
         /\ Rest(Tail(s), P)
         /\ \A c : Before(P, c, Head(s)) => c \notin Names(s)
<1> DEFINE k == Len(P) - Len(s)
           t == Tail(s)
<1>1. Len(s) \in Nat \ {0} /\ Len(P) \in Nat /\ k \in Nat /\ s \in Seq(Names(P)) /\ Head(s) = s[1]
  BY DEF Rest
<1>2. \A i \in 1 .. Len(s) : i + k \in 1 .. Len(P) /\ s[i] = P[i + k]
  BY <1>1 DEF Rest
<1>3. /\ t \in Seq(Names(P)) /\ Len(t) = Len(s) - 1
      /\ \A i \in 1 .. Len(s) - 1 : t[i] = s[i + 1]
  BY <1>1
<1>4. \A i, j \in 1 .. Len(s) : s[i] = s[j] => i = j
  <2> TAKE i, j \in 1 .. Len(s)
  <2>1. s[i] = s[j] => i + k = j + k
    BY <1>2 DEF Distinct
  <2> QED
    BY <1>1, <2>1
<1>5. Head(s) \in Names(s)
  <2>1. 1 \in 1 .. Len(s)
    BY <1>1
  <2> QED
    BY <1>1, <2>1 DEF Names
<1> HIDE DEF t
<1>6. Names(t) = Names(s) \ {Head(s)}
  <2>1. ASSUME NEW c \in Names(t) PROVE c \in Names(s) \ {Head(s)}
    <3>1. PICK i \in 1 .. Len(t) : t[i] = c
      BY <2>1 DEF Names
    <3>2. i + 1 \in 1 .. Len(s) /\ 1 \in 1 .. Len(s) /\ i + 1 # 1 /\ s[i + 1] = c
      BY <1>1, <1>3, <3>1
    <3>3. s[i + 1] # s[1]
      BY <1>4, <3>2
    <3> QED
      BY <1>1, <3>2, <3>3 DEF Names
  <2>2. ASSUME NEW c \in Names(s), c # Head(s) PROVE c \in Names(t)
    <3>1. PICK i \in 1 .. Len(s) : s[i] = c
      BY <2>2 DEF Names
    <3>2. i # 1
      BY <1>1, <2>2, <3>1
    <3>3. i - 1 \in 1 .. Len(t) /\ (i - 1) + 1 = i /\ i - 1 \in 1 .. Len(s) - 1
      BY <1>1, <1>3, <3>1, <3>2
    <3>4. t[i - 1] = c
      BY <1>3, <3>1, <3>3
    <3> QED
      BY <3>3, <3>4 DEF Names
  <2> QED
    BY <2>1, <2>2
<1>7. Rest(t, P)
  <2>1. ASSUME NEW i \in 1 .. Len(t) PROVE t[i] = P[i + (Len(P) - Len(t))]
    <3>1. i \in 1 .. Len(s) - 1 /\ i + 1 \in 1 .. Len(s) /\ (i + 1) + k = i + (Len(P) - Len(t))
      BY <1>1, <1>3
    <3>2. t[i] = P[(i + 1) + k]
      BY <1>2, <1>3, <3>1
    <3> QED
      BY <3>1, <3>2
  <2>2. Len(t) <= Len(P)
    BY <1>1, <1>3
  <2> QED
    BY <1>3, <2>1, <2>2 DEF Rest
<1>8. ASSUME NEW c, Before(P, c, Head(s)) PROVE c \notin Names(s)
  <2>1. PICK i \in 1 .. Len(P), j \in 1 .. Len(P) : i < j /\ P[i] = c /\ P[j] = Head(s)
    BY <1>8 DEF Before
  <2>2. 1 \in 1 .. Len(s)
    BY <1>1
  <2>3. 1 + k \in 1 .. Len(P) /\ P[1 + k] = Head(s)
    BY <1>1, <1>2, <2>2
  <2>4. j = 1 + k
    BY <2>1, <2>3 DEF Distinct
  <2>5. SUFFICES ASSUME NEW h \in 1 .. Len(s), s[h] = c PROVE FALSE
    BY DEF Names
  <2>6. h + k \in 1 .. Len(P) /\ P[h + k] = c
    BY <1>2, <2>5
  <2>7. i = h + k
    BY <2>1, <2>6 DEF Distinct
  <2> QED
    BY <1>1, <2>1, <2>4, <2>5, <2>7
<1> QED
  BY <1>5, <1>6, <1>7, <1>8 DEF t

(* The calls of each driver, and those of them that must be in order.       *)
LEMMA SimpleTimerInitIs ==
  /\ Names(SimpleTimerInit) = {"add_timer"}
  /\ SimpleTimerInit \in Seq(Names(SimpleTimerInit)) /\ Len(SimpleTimerInit) \in Nat
  /\ Distinct(SimpleTimerInit)
<1> DEFINE S == SimpleTimerInit
<1>1. /\ Len(S) = 1 /\ S[1] = "add_timer"
  BY DEF SimpleTimerInit
<1>2. S \in Seq({"add_timer"})
  BY DEF SimpleTimerInit
<1> HIDE DEF S
<1>3. \A i \in 1 .. Len(S) : i = 1
  BY <1>1
<1>4. 1 \in 1 .. Len(S)
  BY <1>1
<1>5. Names(S) = {"add_timer"}
  BY <1>1, <1>3, <1>4 DEF Names
<1>6. Distinct(S)
  BY <1>1, <1>3 DEF Distinct
<1> QED
  BY <1>1, <1>2, <1>5, <1>6 DEF S

LEMMA Ch2InitIs ==
  /\ Names(Ch2Init) = {"request_leds", "add_timer"}
  /\ Ch2Init \in Seq(Names(Ch2Init)) /\ Len(Ch2Init) \in Nat /\ Distinct(Ch2Init)
  /\ Before(Ch2Init, "request_leds", "add_timer")
<1> DEFINE S == Ch2Init
<1>1. /\ Len(S) = 2 /\ S[1] = "request_leds" /\ S[2] = "add_timer"
  BY DEF Ch2Init
<1>2. S \in Seq({"request_leds", "add_timer"})
  BY DEF Ch2Init
<1> HIDE DEF S
<1>3. \A i \in 1 .. Len(S) : i = 1 \/ i = 2
  BY <1>1
<1>4. 1 \in 1 .. Len(S) /\ 2 \in 1 .. Len(S)
  BY <1>1
<1>5. Names(S) = {"request_leds", "add_timer"}
  BY <1>1, <1>3, <1>4 DEF Names
<1>6. Distinct(S)
  BY <1>1, <1>3 DEF Distinct
<1>7. Before(S, "request_leds", "add_timer")
  <2>1. 1 < 2
    OBVIOUS
  <2> QED
    BY <1>1, <1>4, <2>1 DEF Before
<1> QED
  BY <1>1, <1>2, <1>5, <1>6, <1>7 DEF S

LEMMA Ch3InitIs ==
  /\ Names(Ch3Init) = {"cdev_add", "request_sensor", "request_leds", "add_timer",
                       "request_irq", "disable_irq"}
  /\ Ch3Init \in Seq(Names(Ch3Init)) /\ Len(Ch3Init) \in Nat /\ Distinct(Ch3Init)
  /\ Before(Ch3Init, "request_leds", "add_timer")
  /\ Before(Ch3Init, "request_leds", "request_irq")
  /\ Before(Ch3Init, "request_irq", "disable_irq")
<1> DEFINE S == Ch3Init
<1>1. /\ Len(S) = 6 /\ S[1] = "cdev_add" /\ S[2] = "request_sensor"
      /\ S[3] = "request_leds" /\ S[4] = "add_timer" /\ S[5] = "request_irq"
      /\ S[6] = "disable_irq"
  BY DEF Ch3Init
<1>2. S \in Seq({"cdev_add", "request_sensor", "request_leds", "add_timer", "request_irq",
                "disable_irq"})
  BY DEF Ch3Init
<1> HIDE DEF S
<1>3. \A i \in 1 .. Len(S) : i = 1 \/ i = 2 \/ i = 3 \/ i = 4 \/ i = 5 \/ i = 6
  BY <1>1
<1>4. /\ 1 \in 1 .. Len(S) /\ 2 \in 1 .. Len(S) /\ 3 \in 1 .. Len(S) /\ 4 \in 1 .. Len(S)
      /\ 5 \in 1 .. Len(S) /\ 6 \in 1 .. Len(S)
  BY <1>1
<1>5. Names(S) = {"cdev_add", "request_sensor", "request_leds", "add_timer", "request_irq",
                 "disable_irq"}
  BY <1>1, <1>3, <1>4 DEF Names
<1>6. Distinct(S)
  BY <1>1, <1>3 DEF Distinct
<1>7. Before(S, "request_leds", "add_timer")
  <2>1. 3 < 4
    OBVIOUS
  <2> QED
    BY <1>1, <1>4, <2>1 DEF Before
<1>8. Before(S, "request_leds", "request_irq")
  <2>1. 3 < 5
    OBVIOUS
  <2> QED
    BY <1>1, <1>4, <2>1 DEF Before
<1>9. Before(S, "request_irq", "disable_irq")
  <2>1. 5 < 6
    OBVIOUS
  <2> QED
    BY <1>1, <1>4, <2>1 DEF Before
<1> QED
  BY <1>1, <1>2, <1>5, <1>6, <1>7, <1>8, <1>9 DEF S

LEMMA SensorInitIs ==
  /\ Names(SensorInit) = {"cdev_add", "request_sensor", "request_irq", "disable_irq"}
  /\ SensorInit \in Seq(Names(SensorInit)) /\ Len(SensorInit) \in Nat /\ Distinct(SensorInit)
  /\ Before(SensorInit, "request_irq", "disable_irq")
<1> DEFINE S == SensorInit
<1>1. /\ Len(S) = 4 /\ S[1] = "cdev_add" /\ S[2] = "request_sensor"
      /\ S[3] = "request_irq" /\ S[4] = "disable_irq"
  BY DEF SensorInit
<1>2. S \in Seq({"cdev_add", "request_sensor", "request_irq", "disable_irq"})
  BY DEF SensorInit
<1> HIDE DEF S
<1>3. \A i \in 1 .. Len(S) : i = 1 \/ i = 2 \/ i = 3 \/ i = 4
  BY <1>1
<1>4. 1 \in 1 .. Len(S) /\ 2 \in 1 .. Len(S) /\ 3 \in 1 .. Len(S) /\ 4 \in 1 .. Len(S)
  BY <1>1
<1>5. Names(S) = {"cdev_add", "request_sensor", "request_irq", "disable_irq"}
  BY <1>1, <1>3, <1>4 DEF Names
<1>6. Distinct(S)
  BY <1>1, <1>3 DEF Distinct
<1>7. Before(S, "request_irq", "disable_irq")
  <2>1. 3 < 4
    OBVIOUS
  <2> QED
    BY <1>1, <1>4, <2>1 DEF Before
<1> QED
  BY <1>1, <1>2, <1>5, <1>6, <1>7 DEF S

LEMMA TaskletInitIs ==
  /\ Names(TaskletInit) = {"tasklet_schedule"}
  /\ TaskletInit \in Seq(Names(TaskletInit)) /\ Len(TaskletInit) \in Nat /\ Distinct(TaskletInit)
<1> DEFINE S == TaskletInit
<1>1. /\ Len(S) = 1 /\ S[1] = "tasklet_schedule"
  BY DEF TaskletInit
<1>2. S \in Seq({"tasklet_schedule"})
  BY DEF TaskletInit
<1> HIDE DEF S
<1>3. \A i \in 1 .. Len(S) : i = 1
  BY <1>1
<1>4. 1 \in 1 .. Len(S)
  BY <1>1
<1>5. Names(S) = {"tasklet_schedule"}
  BY <1>1, <1>3, <1>4 DEF Names
<1>6. Distinct(S)
  BY <1>1, <1>3 DEF Distinct
<1> QED
  BY <1>1, <1>2, <1>5, <1>6 DEF S

LEMMA PirTaskletInitIs ==
  /\ Names(PirTaskletInit) = {"tasklet_schedule", "request_sensor", "request_irq"}
  /\ PirTaskletInit \in Seq(Names(PirTaskletInit)) /\ Len(PirTaskletInit) \in Nat
  /\ Distinct(PirTaskletInit)
<1> DEFINE S == PirTaskletInit
<1>1. /\ Len(S) = 3 /\ S[1] = "tasklet_schedule" /\ S[2] = "request_sensor"
      /\ S[3] = "request_irq"
  BY DEF PirTaskletInit
<1>2. S \in Seq({"tasklet_schedule", "request_sensor", "request_irq"})
  BY DEF PirTaskletInit
<1> HIDE DEF S
<1>3. \A i \in 1 .. Len(S) : i = 1 \/ i = 2 \/ i = 3
  BY <1>1
<1>4. 1 \in 1 .. Len(S) /\ 2 \in 1 .. Len(S) /\ 3 \in 1 .. Len(S)
  BY <1>1
<1>5. Names(S) = {"tasklet_schedule", "request_sensor", "request_irq"}
  BY <1>1, <1>3, <1>4 DEF Names
<1>6. Distinct(S)
  BY <1>1, <1>3 DEF Distinct
<1> QED
  BY <1>1, <1>2, <1>5, <1>6 DEF S

LEMMA KernthreadInitIs ==
  /\ Names(KernthreadInit) = {"create_workqueue", "request_sensor", "request_irq",
                              "kthread_create_a"}
  /\ KernthreadInit \in Seq(Names(KernthreadInit)) /\ Len(KernthreadInit) \in Nat
  /\ Distinct(KernthreadInit)
<1> DEFINE S == KernthreadInit
<1>1. /\ Len(S) = 4 /\ S[1] = "create_workqueue" /\ S[2] = "request_sensor"
      /\ S[3] = "request_irq" /\ S[4] = "kthread_create_a"
  BY DEF KernthreadInit
<1>2. S \in Seq({"create_workqueue", "request_sensor", "request_irq", "kthread_create_a"})
  BY DEF KernthreadInit
<1> HIDE DEF S
<1>3. \A i \in 1 .. Len(S) : i = 1 \/ i = 2 \/ i = 3 \/ i = 4
  BY <1>1
<1>4. 1 \in 1 .. Len(S) /\ 2 \in 1 .. Len(S) /\ 3 \in 1 .. Len(S) /\ 4 \in 1 .. Len(S)
  BY <1>1
<1>5. Names(S) = {"create_workqueue", "request_sensor", "request_irq", "kthread_create_a"}
  BY <1>1, <1>3, <1>4 DEF Names
<1>6. Distinct(S)
  BY <1>1, <1>3 DEF Distinct
<1> QED
  BY <1>1, <1>2, <1>5, <1>6 DEF S

LEMMA Ch5InitIs ==
  /\ Names(Ch5Init) = {"create_workqueue", "request_sensor", "request_irq", "request_leds",
                       "kthread_create_a", "kthread_create_b"}
  /\ Ch5Init \in Seq(Names(Ch5Init)) /\ Len(Ch5Init) \in Nat /\ Distinct(Ch5Init)
<1> DEFINE S == Ch5Init
<1>1. /\ Len(S) = 6 /\ S[1] = "create_workqueue" /\ S[2] = "request_sensor"
      /\ S[3] = "request_irq" /\ S[4] = "request_leds" /\ S[5] = "kthread_create_a"
      /\ S[6] = "kthread_create_b"
  BY DEF Ch5Init
<1>2. S \in Seq({"create_workqueue", "request_sensor", "request_irq", "request_leds",
                "kthread_create_a", "kthread_create_b"})
  BY DEF Ch5Init
<1> HIDE DEF S
<1>3. \A i \in 1 .. Len(S) : i = 1 \/ i = 2 \/ i = 3 \/ i = 4 \/ i = 5 \/ i = 6
  BY <1>1
<1>4. /\ 1 \in 1 .. Len(S) /\ 2 \in 1 .. Len(S) /\ 3 \in 1 .. Len(S) /\ 4 \in 1 .. Len(S)
      /\ 5 \in 1 .. Len(S) /\ 6 \in 1 .. Len(S)
  BY <1>1
<1>5. Names(S) = {"create_workqueue", "request_sensor", "request_irq", "request_leds",
                 "kthread_create_a", "kthread_create_b"}
  BY <1>1, <1>3, <1>4 DEF Names
<1>6. Distinct(S)
  BY <1>1, <1>3 DEF Distinct
<1> QED
  BY <1>1, <1>2, <1>5, <1>6 DEF S

LEMMA SimpleTimerExitIs ==
  /\ Names(SimpleTimerExit) = {"del_timer"}
  /\ SimpleTimerExit \in Seq(Names(SimpleTimerExit)) /\ Len(SimpleTimerExit) \in Nat
  /\ Distinct(SimpleTimerExit)
<1> DEFINE S == SimpleTimerExit
<1>1. /\ Len(S) = 1 /\ S[1] = "del_timer"
  BY DEF SimpleTimerExit
<1>2. S \in Seq({"del_timer"})
  BY DEF SimpleTimerExit
<1> HIDE DEF S
<1>3. \A i \in 1 .. Len(S) : i = 1
  BY <1>1
<1>4. 1 \in 1 .. Len(S)
  BY <1>1
<1>5. Names(S) = {"del_timer"}
  BY <1>1, <1>3, <1>4 DEF Names
<1>6. Distinct(S)
  BY <1>1, <1>3 DEF Distinct
<1> QED
  BY <1>1, <1>2, <1>5, <1>6 DEF S

LEMMA Ch2ExitIs ==
  /\ Names(Ch2Exit) = {"leds_off", "free_leds", "del_timer"}
  /\ Ch2Exit \in Seq(Names(Ch2Exit)) /\ Len(Ch2Exit) \in Nat /\ Distinct(Ch2Exit)
<1> DEFINE S == Ch2Exit
<1>1. /\ Len(S) = 3 /\ S[1] = "leds_off" /\ S[2] = "free_leds" /\ S[3] = "del_timer"
  BY DEF Ch2Exit
<1>2. S \in Seq({"leds_off", "free_leds", "del_timer"})
  BY DEF Ch2Exit
<1> HIDE DEF S
<1>3. \A i \in 1 .. Len(S) : i = 1 \/ i = 2 \/ i = 3
  BY <1>1
<1>4. 1 \in 1 .. Len(S) /\ 2 \in 1 .. Len(S) /\ 3 \in 1 .. Len(S)
  BY <1>1
<1>5. Names(S) = {"leds_off", "free_leds", "del_timer"}
  BY <1>1, <1>3, <1>4 DEF Names
<1>6. Distinct(S)
  BY <1>1, <1>3 DEF Distinct
<1> QED
  BY <1>1, <1>2, <1>5, <1>6 DEF S

LEMMA Ch3ExitIs ==
  /\ Names(Ch3Exit) = {"cdev_del", "free_irq", "del_timer", "leds_off", "free_sensor",
                       "free_leds"}
  /\ Ch3Exit \in Seq(Names(Ch3Exit)) /\ Len(Ch3Exit) \in Nat /\ Distinct(Ch3Exit)
  /\ Before(Ch3Exit, "free_irq", "leds_off")
  /\ Before(Ch3Exit, "del_timer", "leds_off")
  /\ Before(Ch3Exit, "free_irq", "free_leds")
  /\ Before(Ch3Exit, "del_timer", "free_leds")
<1> DEFINE S == Ch3Exit
<1>1. /\ Len(S) = 6 /\ S[1] = "cdev_del" /\ S[2] = "free_irq" /\ S[3] = "del_timer"
      /\ S[4] = "leds_off" /\ S[5] = "free_sensor" /\ S[6] = "free_leds"
  BY DEF Ch3Exit
<1>2. S \in Seq({"cdev_del", "free_irq", "del_timer", "leds_off", "free_sensor",
                "free_leds"})
  BY DEF Ch3Exit
<1> HIDE DEF S
<1>3. \A i \in 1 .. Len(S) : i = 1 \/ i = 2 \/ i = 3 \/ i = 4 \/ i = 5 \/ i = 6
  BY <1>1
<1>4. /\ 1 \in 1 .. Len(S) /\ 2 \in 1 .. Len(S) /\ 3 \in 1 .. Len(S) /\ 4 \in 1 .. Len(S)
      /\ 5 \in 1 .. Len(S) /\ 6 \in 1 .. Len(S)
  BY <1>1
<1>5. Names(S) = {"cdev_del", "free_irq", "del_timer", "leds_off", "free_sensor",
                 "free_leds"}
  BY <1>1, <1>3, <1>4 DEF Names
<1>6. Distinct(S)
  BY <1>1, <1>3 DEF Distinct
<1>7. Before(S, "free_irq", "leds_off")
  <2>1. 2 < 4
    OBVIOUS
  <2> QED
    BY <1>1, <1>4, <2>1 DEF Before
<1>8. Before(S, "del_timer", "leds_off")
  <2>1. 3 < 4
    OBVIOUS
  <2> QED
    BY <1>1, <1>4, <2>1 DEF Before
<1>9. Before(S, "free_irq", "free_leds")
  <2>1. 2 < 6
    OBVIOUS
  <2> QED
    BY <1>1, <1>4, <2>1 DEF Before
<1>10. Before(S, "del_timer", "free_leds")
  <2>1. 3 < 6
    OBVIOUS
  <2> QED
    BY <1>1, <1>4, <2>1 DEF Before
<1> QED
  BY <1>1, <1>2, <1>5, <1>6, <1>7, <1>8, <1>9, <1>10 DEF S

LEMMA SensorExitIs ==
  /\ Names(SensorExit) = {"cdev_del", "free_irq", "free_sensor"}
  /\ SensorExit \in Seq(Names(SensorExit)) /\ Len(SensorExit) \in Nat /\ Distinct(SensorExit)
<1> DEFINE S == SensorExit
<1>1. /\ Len(S) = 3 /\ S[1] = "cdev_del" /\ S[2] = "free_irq" /\ S[3] = "free_sensor"
  BY DEF SensorExit
<1>2. S \in Seq({"cdev_del", "free_irq", "free_sensor"})
  BY DEF SensorExit
<1> HIDE DEF S
<1>3. \A i \in 1 .. Len(S) : i = 1 \/ i = 2 \/ i = 3
  BY <1>1
<1>4. 1 \in 1 .. Len(S) /\ 2 \in 1 .. Len(S) /\ 3 \in 1 .. Len(S)
  BY <1>1
<1>5. Names(S) = {"cdev_del", "free_irq", "free_sensor"}
  BY <1>1, <1>3, <1>4 DEF Names
<1>6. Distinct(S)
  BY <1>1, <1>3 DEF Distinct
<1> QED
  BY <1>1, <1>2, <1>5, <1>6 DEF S

LEMMA TaskletExitIs ==
  /\ Names(TaskletExit) = {"tasklet_kill"}
  /\ TaskletExit \in Seq(Names(TaskletExit)) /\ Len(TaskletExit) \in Nat /\ Distinct(TaskletExit)
<1> DEFINE S == TaskletExit
<1>1. /\ Len(S) = 1 /\ S[1] = "tasklet_kill"
  BY DEF TaskletExit
<1>2. S \in Seq({"tasklet_kill"})
  BY DEF TaskletExit
<1> HIDE DEF S
<1>3. \A i \in 1 .. Len(S) : i = 1
  BY <1>1
<1>4. 1 \in 1 .. Len(S)
  BY <1>1
<1>5. Names(S) = {"tasklet_kill"}
  BY <1>1, <1>3, <1>4 DEF Names
<1>6. Distinct(S)
  BY <1>1, <1>3 DEF Distinct
<1> QED
  BY <1>1, <1>2, <1>5, <1>6 DEF S

LEMMA PirTaskletExitIs ==
  /\ Names(PirTaskletExit) = {"tasklet_kill", "free_irq", "free_sensor"}
  /\ PirTaskletExit \in Seq(Names(PirTaskletExit)) /\ Len(PirTaskletExit) \in Nat
  /\ Distinct(PirTaskletExit)
<1> DEFINE S == PirTaskletExit
<1>1. /\ Len(S) = 3 /\ S[1] = "tasklet_kill" /\ S[2] = "free_irq" /\ S[3] = "free_sensor"
  BY DEF PirTaskletExit
<1>2. S \in Seq({"tasklet_kill", "free_irq", "free_sensor"})
  BY DEF PirTaskletExit
<1> HIDE DEF S
<1>3. \A i \in 1 .. Len(S) : i = 1 \/ i = 2 \/ i = 3
  BY <1>1
<1>4. 1 \in 1 .. Len(S) /\ 2 \in 1 .. Len(S) /\ 3 \in 1 .. Len(S)
  BY <1>1
<1>5. Names(S) = {"tasklet_kill", "free_irq", "free_sensor"}
  BY <1>1, <1>3, <1>4 DEF Names
<1>6. Distinct(S)
  BY <1>1, <1>3 DEF Distinct
<1> QED
  BY <1>1, <1>2, <1>5, <1>6 DEF S

LEMMA KernthreadExitIs ==
  /\ Names(KernthreadExit) = {"free_irq", "free_sensor", "kthread_stop_a",
                              "flush_workqueue", "destroy_workqueue"}
  /\ KernthreadExit \in Seq(Names(KernthreadExit)) /\ Len(KernthreadExit) \in Nat
  /\ Distinct(KernthreadExit)
  /\ Before(KernthreadExit, "free_irq", "flush_workqueue")
<1> DEFINE S == KernthreadExit
<1>1. /\ Len(S) = 5 /\ S[1] = "free_irq" /\ S[2] = "free_sensor"
      /\ S[3] = "kthread_stop_a" /\ S[4] = "flush_workqueue" /\ S[5] = "destroy_workqueue"
  BY DEF KernthreadExit
<1>2. S \in Seq({"free_irq", "free_sensor", "kthread_stop_a", "flush_workqueue",
                "destroy_workqueue"})
  BY DEF KernthreadExit
<1> HIDE DEF S
<1>3. \A i \in 1 .. Len(S) : i = 1 \/ i = 2 \/ i = 3 \/ i = 4 \/ i = 5
  BY <1>1
<1>4. /\ 1 \in 1 .. Len(S) /\ 2 \in 1 .. Len(S) /\ 3 \in 1 .. Len(S) /\ 4 \in 1 .. Len(S)
      /\ 5 \in 1 .. Len(S)
  BY <1>1
<1>5. Names(S) = {"free_irq", "free_sensor", "kthread_stop_a", "flush_workqueue",
                 "destroy_workqueue"}
  BY <1>1, <1>3, <1>4 DEF Names
<1>6. Distinct(S)
  BY <1>1, <1>3 DEF Distinct
<1>7. Before(S, "free_irq", "flush_workqueue")
  <2>1. 1 < 4
    OBVIOUS
  <2> QED
    BY <1>1, <1>4, <2>1 DEF Before
<1> QED
  BY <1>1, <1>2, <1>5, <1>6, <1>7 DEF S

LEMMA Ch5ExitIs ==
  /\ Names(Ch5Exit) = {"free_irq", "free_sensor", "leds_off", "free_leds",
                       "kthread_stop_a", "kthread_stop_b", "flush_workqueue",
                       "destroy_workqueue"}
  /\ Ch5Exit \in Seq(Names(Ch5Exit)) /\ Len(Ch5Exit) \in Nat /\ Distinct(Ch5Exit)
  /\ Before(Ch5Exit, "free_irq", "flush_workqueue")
<1> DEFINE S == Ch5Exit
<1>1. /\ Len(S) = 8 /\ S[1] = "free_irq" /\ S[2] = "free_sensor" /\ S[3] = "leds_off"
      /\ S[4] = "free_leds" /\ S[5] = "kthread_stop_a" /\ S[6] = "kthread_stop_b"
      /\ S[7] = "flush_workqueue" /\ S[8] = "destroy_workqueue"
  BY DEF Ch5Exit
<1>2. S \in Seq({"free_irq", "free_sensor", "leds_off", "free_leds", "kthread_stop_a",
                "kthread_stop_b", "flush_workqueue", "destroy_workqueue"})
  BY DEF Ch5Exit
<1> HIDE DEF S
<1>3. \A i \in 1 .. Len(S) : i = 1 \/ i = 2 \/ i = 3 \/ i = 4 \/ i = 5 \/ i = 6 \/ i = 7 \/ i = 8
  BY <1>1
<1>4. /\ 1 \in 1 .. Len(S) /\ 2 \in 1 .. Len(S) /\ 3 \in 1 .. Len(S) /\ 4 \in 1 .. Len(S)
      /\ 5 \in 1 .. Len(S) /\ 6 \in 1 .. Len(S) /\ 7 \in 1 .. Len(S) /\ 8 \in 1 .. Len(S)
  BY <1>1
<1>5. Names(S) = {"free_irq", "free_sensor", "leds_off", "free_leds", "kthread_stop_a",
                 "kthread_stop_b", "flush_workqueue", "destroy_workqueue"}
  BY <1>1, <1>3, <1>4 DEF Names
<1>6. Distinct(S)
  BY <1>1, <1>3 DEF Distinct
<1>7. Before(S, "free_irq", "flush_workqueue")
  <2>1. 1 < 7
    OBVIOUS
  <2> QED
    BY <1>1, <1>4, <2>1 DEF Before
<1> QED
  BY <1>1, <1>2, <1>5, <1>6, <1>7 DEF S

-----------------------------------------------------------------------------
Starts == {"add_timer", "tasklet_schedule", "request_irq", "disable_irq", "create_workqueue",
           "kthread_create_a", "kthread_create_b", "request_leds"}
Stops == {"del_timer", "tasklet_kill", "free_irq", "flush_workqueue", "kthread_stop_a",
          "kthread_stop_b", "leds_off", "free_leds"}

LEMMA CallsOfInit ==
  ASSUME NEW d \in Names8
  PROVE  /\ InitCalls[d] \in Seq(Names(InitCalls[d])) /\ Len(InitCalls[d]) \in Nat
         /\ Distinct(InitCalls[d])
         /\ \A c \in Stops : c \notin Names(InitCalls[d])
<1>1. CASE d = "simple_timer"
  BY <1>1, SimpleTimerInitIs DEF InitCalls, Stops
<1>2. CASE d = "ch2"
  BY <1>2, Ch2InitIs DEF InitCalls, Stops
<1>3. CASE d = "ch3"
  BY <1>3, Ch3InitIs DEF InitCalls, Stops
<1>4. CASE d = "week6"
  BY <1>4, SensorInitIs DEF InitCalls, Stops
<1>5. CASE d = "simple_tasklet"
  BY <1>5, TaskletInitIs DEF InitCalls, Stops
<1>6. CASE d = "pir_tasklet"
  BY <1>6, PirTaskletInitIs DEF InitCalls, Stops
<1>7. CASE d = "kthreadNworkq"
  BY <1>7, KernthreadInitIs DEF InitCalls, Stops
<1>8. CASE d = "ch5"
  BY <1>8, Ch5InitIs DEF InitCalls, Stops
<1> QED
  BY <1>1, <1>2, <1>3, <1>4, <1>5, <1>6, <1>7, <1>8 DEF Names8

LEMMA CallsOfExit ==
  ASSUME NEW d \in Names8
  PROVE  /\ ExitCalls[d] \in Seq(Names(ExitCalls[d])) /\ Len(ExitCalls[d]) \in Nat
         /\ Distinct(ExitCalls[d])
         /\ \A c \in Starts : c \notin Names(ExitCalls[d])
         /\ "flush_workqueue" \in Names(ExitCalls[d])
              => Before(ExitCalls[d], "free_irq", "flush_workqueue")
<1>1. CASE d = "simple_timer"
  BY <1>1, SimpleTimerExitIs DEF ExitCalls, Starts
<1>2. CASE d = "ch2"
  BY <1>2, Ch2ExitIs DEF ExitCalls, Starts
<1>3. CASE d = "ch3"
  BY <1>3, Ch3ExitIs DEF ExitCalls, Starts
<1>4. CASE d = "week6"
  BY <1>4, SensorExitIs DEF ExitCalls, Starts
<1>5. CASE d = "simple_tasklet"
  BY <1>5, TaskletExitIs DEF ExitCalls, Starts
<1>6. CASE d = "pir_tasklet"
  BY <1>6, PirTaskletExitIs DEF ExitCalls, Starts
<1>7. CASE d = "kthreadNworkq"
  BY <1>7, KernthreadExitIs DEF ExitCalls, Starts
<1>8. CASE d = "ch5"
  BY <1>8, Ch5ExitIs DEF ExitCalls, Starts
<1> QED
  BY <1>1, <1>2, <1>3, <1>4, <1>5, <1>6, <1>7, <1>8 DEF Names8

(* Whatever init starts, exit stops.                                        *)
LEMMA StopFollowsStart ==
  ASSUME NEW d \in Names8
  PROVE  /\ "add_timer" \in Names(InitCalls[d]) => "del_timer" \in Names(ExitCalls[d])
         /\ "tasklet_schedule" \in Names(InitCalls[d]) => "tasklet_kill" \in Names(ExitCalls[d])
         /\ "request_irq" \in Names(InitCalls[d]) => "free_irq" \in Names(ExitCalls[d])
         /\ "create_workqueue" \in Names(InitCalls[d]) => "flush_workqueue" \in Names(ExitCalls[d])
         /\ "kthread_create_a" \in Names(InitCalls[d]) => "kthread_stop_a" \in Names(ExitCalls[d])
         /\ "kthread_create_b" \in Names(InitCalls[d]) => "kthread_stop_b" \in Names(ExitCalls[d])
<1>1. CASE d = "simple_timer"
  BY <1>1, SimpleTimerInitIs, SimpleTimerExitIs DEF InitCalls, ExitCalls
<1>2. CASE d = "ch2"
  BY <1>2, Ch2InitIs, Ch2ExitIs DEF InitCalls, ExitCalls
<1>3. CASE d = "ch3"
  BY <1>3, Ch3InitIs, Ch3ExitIs DEF InitCalls, ExitCalls
<1>4. CASE d = "week6"
  BY <1>4, SensorInitIs, SensorExitIs DEF InitCalls, ExitCalls
<1>5. CASE d = "simple_tasklet"
  BY <1>5, TaskletInitIs, TaskletExitIs DEF InitCalls, ExitCalls
<1>6. CASE d = "pir_tasklet"
  BY <1>6, PirTaskletInitIs, PirTaskletExitIs DEF InitCalls, ExitCalls
<1>7. CASE d = "kthreadNworkq"
  BY <1>7, KernthreadInitIs, KernthreadExitIs DEF InitCalls, ExitCalls
<1>8. CASE d = "ch5"
  BY <1>8, Ch5InitIs, Ch5ExitIs DEF InitCalls, ExitCalls
<1> QED
  BY <1>1, <1>2, <1>3, <1>4, <1>5, <1>6, <1>7, <1>8 DEF Names8

(* Who has LEDs, a lamp, a gate and a tasklet.                              *)
LEMMA Orders ==
  /\ \A d \in {"ch2", "ch3"} : /\ "request_leds" \in Names(InitCalls[d])
                               /\ Before(InitCalls[d], "request_leds", "add_timer")
  /\ Before(InitCalls["ch3"], "request_leds", "request_irq")
  /\ \A d \in {"week6", "ch3"} : Before(InitCalls[d], "request_irq", "disable_irq")
  /\ "request_leds" \in Names(InitCalls["ch5"])
  /\ \A b \in {"free_irq", "del_timer"}, c \in {"leds_off", "free_leds"} :
        Before(ExitCalls["ch3"], b, c)
  /\ {"del_timer", "free_irq", "leds_off", "free_leds"} \subseteq Names(ExitCalls["ch3"])
  /\ "tasklet_schedule" \in Names(InitCalls["pir_tasklet"])
BY Ch2InitIs, Ch3InitIs, SensorInitIs, Ch5InitIs, PirTaskletInitIs, Ch3ExitIs
   DEF InitCalls, ExitCalls

-----------------------------------------------------------------------------
(* The calls of the stage.                                                  *)
Plan == IF stage = "init" THEN InitCalls[driver] ELSE ExitCalls[driver]
Working == stage \in {"init", "exit"}

LEMMA PlanFacts ==
  ASSUME WorkTypes, TodoOK, Working
  PROVE  /\ Rest(todo, Plan) /\ Len(Plan) \in Nat /\ Distinct(Plan)
         /\ Left \subseteq Names(Plan)
         /\ \A b, c : Before(Plan, b, c) /\ b \in Left => c \in Left
<1>1. Rest(todo, Plan) /\ Len(Plan) \in Nat /\ Distinct(Plan)
  BY CallsOfInit, CallsOfExit DEF WorkTypes, TodoOK, Plan, Working
<1> QED
  BY <1>1, RestNames DEF Left

(* A call leaves what is left but itself, and it comes in its turn.         *)
LEMMA CallMoves ==
  ASSUME WorkTypes, TodoOK, Working, todo # <<>>
  PROVE  /\ Head(todo) \in Left /\ Names(Tail(todo)) = Left \ {Head(todo)}
         /\ Rest(Tail(todo), Plan) /\ Tail(todo) # todo
         /\ \A b : Before(Plan, b, Head(todo)) => b \notin Left
<1>1. Rest(todo, Plan) /\ Len(Plan) \in Nat /\ Distinct(Plan)
  BY PlanFacts
<1>2. /\ Head(todo) \in Left /\ Names(Tail(todo)) = Left \ {Head(todo)}
      /\ Rest(Tail(todo), Plan)
      /\ \A b : Before(Plan, b, Head(todo)) => b \notin Left
  BY <1>1, RestTail DEF Left
<1> QED
  BY <1>2 DEF Left

LEMMA NothingLeft == todo = <<>> => Left = {}
BY DEF Left, Names

(* What a call is that has returned.                                        *)
Returned(c) == Working /\ todo # <<>> /\ Head(todo) = c /\ stage' = stage /\ todo' = Tail(todo)

(* How a step moves init or exit on.                                        *)
Moves ==
  \/ stage' = stage /\ todo' = todo
  \/ \E c \in Left : Returned(c)
  \/ /\ stage = "init" /\ stage' = stage /\ todo # <<>> /\ Head(todo) = "request_irq"
     /\ todo' = Skipping("disable_irq", Tail(todo)) /\ state' = state
  \/ Working /\ stage' = "oops" /\ todo' = todo
  \/ Working /\ todo = <<>> /\ todo' = <<>> /\ state' = state
     /\ stage' = IF stage = "init" THEN "loaded" ELSE "unloaded"
  \/ stage = "loaded" /\ stage' = "exit" /\ todo' = ExitCalls[driver] /\ state' = state

LEMMA StepMoves ==
  ASSUME WorkTypes, TodoOK, [WorkNext]_workVars
  PROVE  Moves /\ driver' = driver
<1> USE DEF Call, Ready, Return, Working, Returned, Moves
<1>1. Working /\ todo # <<>> => Head(todo) \in Left
  BY CallMoves
<1>2. CASE AddTimer
  BY <1>1, <1>2 DEF AddTimer
<1>3. CASE DelTimer
  BY <1>1, <1>3 DEF DelTimer
<1>4. CASE TaskletCall
  BY <1>1, <1>4 DEF TaskletCall
<1>5. CASE RequestIrq
  <2>1. stage = "init"
    <3>1. Left \subseteq Names(Plan)
      BY <1>5, PlanFacts DEF RequestIrq
    <3>2. "request_irq" \in Names(Plan)
      BY <1>1, <1>5, <3>1 DEF RequestIrq
    <3> QED
      BY <1>5, <3>2, CallsOfExit DEF RequestIrq, Plan, WorkTypes, Starts
  <2> QED
    BY <1>1, <1>5, <2>1 DEF RequestIrq, state
<1>6. CASE StopIrq
  BY <1>1, <1>6 DEF StopIrq
<1>7. CASE Gpio
  BY <1>1, <1>7 DEF Gpio
<1>8. CASE WorkqueueCall
  BY <1>1, <1>8 DEF WorkqueueCall
<1>9. ASSUME NEW k \in {"a", "b"}, KthreadCall(k) PROVE Moves /\ driver' = driver
  BY <1>1, <1>9 DEF KthreadCall
<1>10. CASE Cdev
  BY <1>1, <1>10 DEF Cdev
<1>11. CASE Ends
  BY <1>11 DEF Ends
<1>12. CASE WorkExit
  BY <1>12 DEF WorkExit
<1>13. CASE TimerFires \/ TimerRuns
  BY <1>13 DEF TimerFires, TimerRuns
<1>14. CASE Detect \/ Ch3Isr \/ TaskletRuns \/ WorkerRuns
  BY <1>14 DEF Detect, Ch3Isr, TaskletRuns, WorkerRuns
<1>15. ASSUME NEW k \in {"a", "b"}, ThreadEnds(k) \/ ThreadLoops(k) PROVE Moves /\ driver' = driver
  BY <1>15 DEF ThreadEnds, ThreadLoops
<1>16. CASE Open \/ Release
  BY <1>16 DEF Open, Release
<1>17. CASE UNCHANGED workVars
  BY <1>17 DEF workVars
<1> QED
  BY <1>2, <1>3, <1>4, <1>5, <1>6, <1>7, <1>8, <1>9, <1>10, <1>11, <1>12, <1>13, <1>14, <1>15,
     <1>16, <1>17 DEF WorkNext, WorkCall

LEMMA SkippingLeaves ==
  ASSUME WorkTypes, TodoOK, Working, todo # <<>>, NEW c
  PROVE  /\ Rest(Skipping(c, Tail(todo)), Plan)
         /\ Names(Skipping(c, Tail(todo))) \subseteq Left \ {Head(todo)}
         /\ Left \ {Head(todo), c} \subseteq Names(Skipping(c, Tail(todo)))
<1> DEFINE t == Tail(todo)
<1>1. Len(Plan) \in Nat /\ Distinct(Plan)
  BY PlanFacts
<1>2. Rest(t, Plan) /\ Names(t) = Left \ {Head(todo)}
  BY CallMoves
<1> HIDE DEF t
<1>3. CASE t # <<>> /\ Head(t) = c
  <2>1. Rest(Tail(t), Plan) /\ Names(Tail(t)) = Names(t) \ {Head(t)}
    BY <1>1, <1>2, <1>3, RestTail
  <2>2. Skipping(c, t) = Tail(t)
    BY <1>3 DEF Skipping
  <2> QED
    BY <1>2, <1>3, <2>1, <2>2 DEF t
<1>4. CASE ~(t # <<>> /\ Head(t) = c)
  <2>1. Skipping(c, t) = t
    BY <1>4 DEF Skipping
  <2> QED
    BY <1>2, <2>1 DEF t
<1> QED
  BY <1>3, <1>4

LEMMA WholePlan ==
  ASSUME NEW P, P \in Seq(Names(P)), Len(P) \in Nat
  PROVE  Rest(P, P)
<1>1. \A i \in 1 .. Len(P) : i + (Len(P) - Len(P)) = i
  OBVIOUS
<1> QED
  BY <1>1 DEF Rest

LEMMA TodoKept ==
  ASSUME WorkTypes, TodoOK, Moves, driver' = driver
  PROVE  TodoOK'
<1> USE DEF TodoOK
<1>1. CASE stage' = stage /\ todo' = todo
  BY <1>1
<1>2. ASSUME NEW c \in Left, Returned(c) PROVE TodoOK'
  BY <1>2, CallMoves DEF Returned, Plan, Working
<1>3. CASE /\ stage = "init" /\ stage' = stage /\ todo # <<>>
           /\ todo' = Skipping("disable_irq", Tail(todo))
  BY <1>3, SkippingLeaves DEF Plan, Working
<1>4. CASE stage' = "oops" /\ todo' = todo
  BY <1>4
<1>5. CASE /\ Working /\ todo' = <<>>
           /\ stage' = IF stage = "init" THEN "loaded" ELSE "unloaded"
  BY <1>5 DEF Working
<1>6. CASE stage' = "exit" /\ todo' = ExitCalls[driver]
  BY <1>6, WholePlan, CallsOfExit DEF WorkTypes
<1> QED
  BY <1>1, <1>2, <1>3, <1>4, <1>5, <1>6 DEF Moves

(* What is started stays started until exit, and exit does not start it; a  *)
(* call of exit is over when it has returned, or if exit has none.          *)
LEMMA LeftMoves ==
  ASSUME WorkTypes, TodoOK, Moves, driver' = driver
  PROVE  /\ \A c \in Starts : c \notin Left => c \notin Left'
         /\ \A c : Over(c)' => \/ Over(c) \/ Returned(c)
                               \/ stage = "loaded" /\ c \notin Names(ExitCalls[driver])
         /\ \A c : stage' = stage /\ c \in Left' => c \in Left
         /\ stage' \in {"init", "loaded"} => stage \in {"init", "loaded"}
<1>1. CASE stage' = stage /\ todo' = todo
  BY <1>1 DEF Left, Over
<1>2. ASSUME NEW d \in Left, Returned(d)
      PROVE  /\ stage' = stage /\ Working
             /\ \A c : c \in Left' <=> c \in Left /\ c # d
  <2>1. Working /\ todo # <<>> /\ Head(todo) = d /\ stage' = stage /\ todo' = Tail(todo)
    BY <1>2 DEF Returned
  <2> QED
    BY <2>1, CallMoves DEF Left
<1>3. ASSUME NEW d \in Left, Returned(d)
      PROVE  /\ \A c \in Starts : c \notin Left => c \notin Left'
             /\ \A c : Over(c)' => Over(c) \/ Returned(c)
             /\ \A c : c \in Left' => c \in Left
  BY <1>2, <1>3 DEF Over, Working
<1>4. CASE /\ stage = "init" /\ stage' = stage /\ todo # <<>>
           /\ todo' = Skipping("disable_irq", Tail(todo))
  <2>1. Names(todo') \subseteq Left
    BY <1>4, SkippingLeaves DEF Working
  <2> QED
    BY <1>4, <2>1 DEF Left, Over
<1>5. CASE stage' = "oops" /\ todo' = todo
  BY <1>5 DEF Left, Over
<1>6. CASE /\ Working /\ todo = <<>> /\ todo' = <<>>
           /\ stage' = IF stage = "init" THEN "loaded" ELSE "unloaded"
  <2>1. Left = {} /\ Left' = {}
    BY <1>6 DEF Left, Names
  <2> QED
    BY <1>6, <2>1 DEF Over, Working
<1>7. CASE stage = "loaded" /\ stage' = "exit" /\ todo' = ExitCalls[driver]
  <2>1. Left' = Names(ExitCalls[driver])
    BY <1>7 DEF Left
  <2> QED
    BY <1>7, <2>1, CallsOfExit DEF Over, WorkTypes
<1> QED
  BY <1>1, <1>2, <1>3, <1>4, <1>5, <1>6, <1>7 DEF Moves

(* Who changes what.                                                        *)
LEMMA Changes ==
  ASSUME [WorkNext]_workVars
  PROVE  /\ timer' = timer \/ AddTimer \/ DelTimer \/ TimerRuns \/ TimerFires
         /\ tasklet' = tasklet \/ TaskletCall \/ Detect \/ TaskletRuns
         /\ irq' = irq \/ RequestIrq \/ StopIrq \/ Detect \/ Ch3Isr \/ Open \/ Release
         /\ workqueue' = workqueue \/ WorkqueueCall \/ Detect \/ WorkerRuns
         /\ thread' = thread \/ \E k \in {"a", "b"} : KthreadCall(k) \/ ThreadEnds(k)
         /\ pins' = pins \/ Gpio
         /\ \/ lit' = lit \/ Gpio \/ TimerRuns \/ Ch3Isr \/ WorkerRuns
            \/ \E k \in {"a", "b"} : ThreadLoops(k)
         /\ \/ faults' = faults \/ DelTimer \/ TimerRuns \/ TimerFires \/ Detect \/ Ch3Isr
            \/ WorkerRuns \/ Open \/ \E k \in {"a", "b"} : ThreadLoops(k)
         /\ <<is_detect, light_status>>' = <<is_detect, light_status>> \/ TimerRuns \/ Detect
         /\ device' = device \/ Open \/ Release \/ Cdev
         /\ detections' = detections \/ Detect
         /\ faults \subseteq faults'
<1> DEFINE Changed ==
           /\ timer' = timer \/ AddTimer \/ DelTimer \/ TimerRuns \/ TimerFires
           /\ tasklet' = tasklet \/ TaskletCall \/ Detect \/ TaskletRuns
           /\ irq' = irq \/ RequestIrq \/ StopIrq \/ Detect \/ Ch3Isr \/ Open \/ Release
           /\ workqueue' = workqueue \/ WorkqueueCall \/ Detect \/ WorkerRuns
           /\ thread' = thread \/ \E k \in {"a", "b"} : KthreadCall(k) \/ ThreadEnds(k)
           /\ pins' = pins \/ Gpio
           /\ \/ lit' = lit \/ Gpio \/ TimerRuns \/ Ch3Isr \/ WorkerRuns
              \/ \E k \in {"a", "b"} : ThreadLoops(k)
           /\ \/ faults' = faults \/ DelTimer \/ TimerRuns \/ TimerFires \/ Detect \/ Ch3Isr
              \/ WorkerRuns \/ Open \/ \E k \in {"a", "b"} : ThreadLoops(k)
           /\ <<is_detect, light_status>>' = <<is_detect, light_status>> \/ TimerRuns \/ Detect
           /\ device' = device \/ Open \/ Release \/ Cdev
           /\ detections' = detections \/ Detect
           /\ faults \subseteq faults'
<1>1. CASE AddTimer
  BY <1>1 DEF AddTimer
<1>2. CASE DelTimer
  BY <1>2 DEF DelTimer
<1>3. CASE TaskletCall
  BY <1>3 DEF TaskletCall
<1>4. CASE RequestIrq
  BY <1>4 DEF RequestIrq
<1>5. CASE StopIrq
  BY <1>5 DEF StopIrq
<1>6. CASE Gpio
  BY <1>6 DEF Gpio
<1>7. CASE WorkqueueCall
  BY <1>7 DEF WorkqueueCall
<1>8. CASE Cdev
  BY <1>8 DEF Cdev
<1>9. CASE Ends
  BY <1>9 DEF Ends, state
<1>10. CASE WorkExit
  BY <1>10 DEF WorkExit, state
<1>11. CASE TimerFires
  BY <1>11 DEF TimerFires
<1>12. CASE TimerRuns
  BY <1>12 DEF TimerRuns, Ch3Timer, Ch2Timer
<1>13. CASE Detect
  BY <1>13 DEF Detect
<1>14. CASE Ch3Isr
  BY <1>14 DEF Ch3Isr
<1>15. CASE TaskletRuns
  BY <1>15 DEF TaskletRuns
<1>16. CASE WorkerRuns
  BY <1>16 DEF WorkerRuns
<1>17. CASE Open
  BY <1>17 DEF Open
<1>18. CASE Release
  BY <1>18 DEF Release
<1>19. ASSUME NEW k \in {"a", "b"}, KthreadCall(k) PROVE Changed
  BY <1>19 DEF KthreadCall
<1>20. ASSUME NEW k \in {"a", "b"}, ThreadEnds(k) PROVE Changed
  BY <1>20 DEF ThreadEnds
<1>21. ASSUME NEW k \in {"a", "b"}, ThreadLoops(k) PROVE Changed
  BY <1>21 DEF ThreadLoops
<1>22. CASE UNCHANGED workVars
  BY <1>22 DEF workVars, state
<1> QED
  BY <1>1, <1>2, <1>3, <1>4, <1>5, <1>6, <1>7, <1>8, <1>9, <1>10, <1>11, <1>12, <1>13, <1>14,
     <1>15, <1>16, <1>17, <1>18, <1>19, <1>20, <1>21, <1>22 DEF WorkNext, WorkCall

(* What a call that stops something has found, or does, when it returns.    *)
LEMMA Called ==
  ASSUME WorkTypes, TodoOK, [WorkNext]_workVars, NEW c, Returned(c)
  PROVE  /\ c = "del_timer" => DelTimer
         /\ c = "tasklet_kill" => ~tasklet.scheduled /\ ~tasklet.running /\ tasklet' = tasklet
         /\ c = "free_irq" => ~irq.requested /\ irq.at = "idle" /\ irq' = irq
         /\ c = "flush_workqueue"
              => workqueue.queued = 0 /\ ~workqueue.busy /\ workqueue' = workqueue
         /\ \A k \in {"a", "b"} : c = Stop[k] => thread[k] \in {"none", "ended"} /\ thread' = thread
         /\ c = "request_leds" => Gpio /\ "leds" \in pins' /\ lit' = {}
         /\ c = "leds_off" => lit' = {}
         /\ c = "disable_irq" => StopIrq
<1> DEFINE Effects ==
             /\ c = "del_timer" => DelTimer
             /\ c = "tasklet_kill" => ~tasklet.scheduled /\ ~tasklet.running /\ tasklet' = tasklet
             /\ c = "free_irq" => ~irq.requested /\ irq.at = "idle" /\ irq' = irq
             /\ c = "flush_workqueue"
                  => workqueue.queued = 0 /\ ~workqueue.busy /\ workqueue' = workqueue
             /\ \A k \in {"a", "b"} :
                  c = Stop[k] => thread[k] \in {"none", "ended"} /\ thread' = thread
             /\ c = "request_leds" => Gpio /\ "leds" \in pins' /\ lit' = {}
             /\ c = "leds_off" => lit' = {}
             /\ c = "disable_irq" => StopIrq
<1> USE DEF Call, Ready, Return, Working
<1>1. /\ Working /\ todo # <<>> /\ Head(todo) = c /\ stage' = stage /\ todo' = Tail(todo)
      /\ todo' # todo
  BY CallMoves DEF Returned
<1>2. \A k, l \in {"a", "b"} : Create[k] # Stop[l] /\ (Stop[k] = Stop[l] => k = l)
  BY DEF Create, Stop
<1>3. \A k \in {"a", "b"},
         b \in {"add_timer", "del_timer", "tasklet_schedule", "tasklet_kill", "request_irq",
                "disable_irq", "free_irq", "request_sensor", "free_sensor", "request_leds",
                "free_leds", "leds_off", "create_workqueue", "flush_workqueue",
                "destroy_workqueue", "cdev_add", "cdev_del"} :
        Create[k] # b /\ Stop[k] # b
  BY DEF Create, Stop
<1>4. CASE AddTimer
  BY <1>1, <1>3, <1>4 DEF AddTimer
<1>5. CASE DelTimer
  BY <1>1, <1>3, <1>5 DEF DelTimer
<1>6. CASE TaskletCall
  BY <1>1, <1>3, <1>6 DEF TaskletCall
<1>7. CASE RequestIrq
  BY <1>1, <1>3, <1>7 DEF RequestIrq
<1>8. CASE StopIrq
  BY <1>1, <1>3, <1>8 DEF StopIrq
<1>9. CASE Gpio
  BY <1>1, <1>3, <1>9 DEF Gpio
<1>10. CASE WorkqueueCall
  BY <1>1, <1>3, <1>10 DEF WorkqueueCall
<1>11. CASE Cdev
  BY <1>1, <1>3, <1>11 DEF Cdev
<1>12. CASE Ends
  BY <1>1, <1>3, <1>12 DEF Ends, state
<1>13. CASE WorkExit
  BY <1>1, <1>3, <1>13 DEF WorkExit, state
<1>14. CASE TimerFires
  BY <1>1, <1>3, <1>14 DEF TimerFires
<1>15. CASE TimerRuns
  BY <1>1, <1>3, <1>15 DEF TimerRuns
<1>16. CASE Detect
  BY <1>1, <1>3, <1>16 DEF Detect
<1>17. CASE Ch3Isr
  BY <1>1, <1>3, <1>17 DEF Ch3Isr
<1>18. CASE TaskletRuns
  BY <1>1, <1>3, <1>18 DEF TaskletRuns
<1>19. CASE WorkerRuns
  BY <1>1, <1>3, <1>19 DEF WorkerRuns
<1>20. CASE Open
  BY <1>1, <1>3, <1>20 DEF Open
<1>21. CASE Release
  BY <1>1, <1>3, <1>21 DEF Release
<1>22. ASSUME NEW k \in {"a", "b"}, KthreadCall(k) PROVE Effects
  BY <1>1, <1>2, <1>3, <1>22 DEF KthreadCall
<1>23. ASSUME NEW k \in {"a", "b"}, ThreadEnds(k) PROVE Effects
  BY <1>1, <1>2, <1>3, <1>23 DEF ThreadEnds
<1>24. ASSUME NEW k \in {"a", "b"}, ThreadLoops(k) PROVE Effects
  BY <1>1, <1>2, <1>3, <1>24 DEF ThreadLoops
<1>25. CASE UNCHANGED workVars
  BY <1>1, <1>25 DEF workVars
<1> QED
  BY <1>4, <1>5, <1>6, <1>7, <1>8, <1>9, <1>10, <1>11, <1>12, <1>13, <1>14, <1>15, <1>16, <1>17,
     <1>18, <1>19, <1>20, <1>21, <1>22, <1>23, <1>24, <1>25 DEF WorkNext, WorkCall

-----------------------------------------------------------------------------
LEMMA TypesKept ==
  ASSUME WorkTypes, TodoOK, [WorkNext]_workVars
  PROVE  WorkTypes'
<1>1. driver' = driver /\ stage' \in {"init", "loaded", "exit", "unloaded", "oops"}
  BY StepMoves DEF Moves, Returned, WorkTypes, Working
<1>2. timer' \in [pending : BOOLEAN, at : {"idle", "func", "on", "off", "clear", "arm"}]
  <2>1. timer \in [pending : BOOLEAN, at : {"idle", "func", "on", "off", "clear", "arm"}]
    BY DEF WorkTypes
  <2>2. CASE AddTimer
    BY <2>1, <2>2 DEF AddTimer
  <2>3. CASE DelTimer
    BY <2>1, <2>3 DEF DelTimer
  <2>4. CASE TimerFires
    BY <2>1, <2>4 DEF TimerFires
  <2>5. CASE TimerRuns
    <3>1. \/ \E at \in {"on", "off", "clear", "arm"} : timer' = [timer EXCEPT !.at = at]
          \/ timer' = [pending |-> TRUE, at |-> "idle"]
      BY <2>5 DEF TimerRuns, Ch3Timer, Ch2Timer, TimerStep
    <3>2. ASSUME NEW at \in {"on", "off", "clear", "arm"}, timer' = [timer EXCEPT !.at = at]
          PROVE  timer' \in [pending : BOOLEAN, at : {"idle", "func", "on", "off", "clear", "arm"}]
      BY <2>1, <3>2
    <3>3. CASE timer' = [pending |-> TRUE, at |-> "idle"]
      BY <3>3
    <3> QED
      BY <3>1, <3>2, <3>3
  <2> QED
    BY <2>1, <2>2, <2>3, <2>4, <2>5, Changes
<1>3. tasklet' \in [scheduled : BOOLEAN, running : BOOLEAN]
  <2>1. tasklet \in [scheduled : BOOLEAN, running : BOOLEAN]
    BY DEF WorkTypes
  <2>2. CASE TaskletCall
    BY <2>1, <2>2 DEF TaskletCall
  <2>3. CASE Detect
    BY <2>1, <2>3 DEF Detect
  <2>4. CASE TaskletRuns
    <3>1. \/ tasklet' = [scheduled |-> FALSE, running |-> TRUE]
          \/ tasklet' = [tasklet EXCEPT !.running = FALSE]
      BY <2>4 DEF TaskletRuns
    <3>2. CASE tasklet' = [scheduled |-> FALSE, running |-> TRUE]
      BY <2>1, <3>2
    <3>3. CASE tasklet' = [tasklet EXCEPT !.running = FALSE]
      BY <2>1, <3>3
    <3> QED
      BY <3>1, <3>2, <3>3
  <2> QED
    BY <2>1, <2>2, <2>3, <2>4, Changes
<1>4. irq' \in [requested : BOOLEAN, depth : Nat, at : {"idle", "look"}]
  <2>1. irq \in [requested : BOOLEAN, depth : Nat, at : {"idle", "look"}]
    BY DEF WorkTypes
  <2>2. CASE RequestIrq
    <3>1. \/ irq' = irq
          \/ irq' = [irq EXCEPT !.requested = TRUE, !.depth = 0]
      BY <2>2 DEF RequestIrq
    <3>2. CASE irq' = irq
      BY <2>1, <3>2
    <3>3. CASE irq' = [irq EXCEPT !.requested = TRUE, !.depth = 0]
      BY <2>1, <3>3
    <3> QED
      BY <3>1, <3>2, <3>3
  <2>3. CASE StopIrq
    <3>1. \/ irq' = irq
          \/ irq' = [irq EXCEPT !.depth = @ + 1]
          \/ irq' = [irq EXCEPT !.requested = FALSE]
      BY <2>3 DEF StopIrq
    <3>2. CASE irq' = irq
      BY <2>1, <3>2
    <3>3. CASE irq' = [irq EXCEPT !.depth = @ + 1]
      BY <2>1, <3>3
    <3>4. CASE irq' = [irq EXCEPT !.requested = FALSE]
      BY <2>1, <3>4
    <3> QED
      BY <3>1, <3>2, <3>3, <3>4
  <2>4. CASE Detect
    BY <2>1, <2>4 DEF Detect
  <2>5. CASE Ch3Isr
    BY <2>1, <2>5 DEF Ch3Isr
  <2>6. CASE Open
    BY <2>1, <2>6 DEF Open
  <2>7. CASE Release
    BY <2>1, <2>7 DEF Release
  <2> QED
    BY <2>1, <2>2, <2>3, <2>4, <2>5, <2>6, <2>7, Changes
<1>5. workqueue' \in [up : BOOLEAN, queued : Nat, busy : BOOLEAN]
  <2>1. workqueue \in [up : BOOLEAN, queued : Nat, busy : BOOLEAN]
    BY DEF WorkTypes
  <2>2. CASE WorkqueueCall
    BY <2>1, <2>2 DEF WorkqueueCall
  <2>3. CASE Detect
    BY <2>1, <2>3 DEF Detect
  <2>4. CASE WorkerRuns
    <3>1. \/ workqueue.queued > 0 /\ workqueue' = [workqueue EXCEPT !.queued = @ - 1, !.busy = TRUE]
          \/ workqueue' = [workqueue EXCEPT !.busy = FALSE]
      BY <2>4 DEF WorkerRuns
    <3>2. CASE /\ workqueue.queued > 0
               /\ workqueue' = [workqueue EXCEPT !.queued = @ - 1, !.busy = TRUE]
      <4>1. workqueue.queued \in Nat
        BY <2>1
      <4>2. workqueue.queued - 1 \in Nat
        BY <3>2, <4>1
      <4> QED
        BY <2>1, <3>2, <4>2
    <3>3. CASE workqueue' = [workqueue EXCEPT !.busy = FALSE]
      BY <2>1, <3>3
    <3> QED
      BY <3>1, <3>2, <3>3
  <2> QED
    BY <2>1, <2>2, <2>3, <2>4, Changes
<1>6. thread' \in [{"a", "b"} -> {"none", "up", "told", "ended"}]
  <2>1. thread \in [{"a", "b"} -> {"none", "up", "told", "ended"}]
    BY DEF WorkTypes
  <2>2. ASSUME NEW k \in {"a", "b"}, KthreadCall(k)
        PROVE  thread' \in [{"a", "b"} -> {"none", "up", "told", "ended"}]
    BY <2>1, <2>2 DEF KthreadCall
  <2>3. ASSUME NEW k \in {"a", "b"}, ThreadEnds(k)
        PROVE  thread' \in [{"a", "b"} -> {"none", "up", "told", "ended"}]
    BY <2>1, <2>3 DEF ThreadEnds
  <2> QED
    BY <2>1, <2>2, <2>3, Changes
<1>7. device' \in [there : BOOLEAN, opens : Nat]
  <2>1. device \in [there : BOOLEAN, opens : Nat]
    BY DEF WorkTypes
  <2>2. CASE Cdev
    BY <2>1, <2>2 DEF Cdev
  <2>3. CASE Open
    BY <2>1, <2>3 DEF Open
  <2>4. CASE Release
    BY <2>1, <2>4 DEF Release
  <2> QED
    BY <2>1, <2>2, <2>3, <2>4, Changes
<1>8. is_detect' \in {0, 1} /\ light_status' \in {0, 1}
  <2>1. is_detect \in {0, 1} /\ light_status \in {0, 1}
    BY DEF WorkTypes
  <2>2. CASE TimerRuns
    BY <2>1, <2>2 DEF TimerRuns, Ch3Timer, Ch2Timer
  <2>3. CASE Detect
    BY <2>1, <2>3 DEF Detect, Noted
  <2> QED
    BY <2>1, <2>2, <2>3, Changes
<1> QED
  BY <1>1, <1>2, <1>3, <1>4, <1>5, <1>6, <1>7, <1>8 DEF WorkTypes

-----------------------------------------------------------------------------
(* Where the thread of init and exit is when it makes a call.               *)
LEMMA InTurn ==
  ASSUME WorkTypes, TodoOK, NEW c, Call(c)
  PROVE  /\ c \in Left /\ Working
         /\ c \in Starts => stage = "init" /\ Has(c)
         /\ c \in Stops => stage = "exit"
         /\ \A b : Before(Plan, b, c) => b \notin Left
         /\ \A d : Before(Plan, c, d) => d \in Left
         /\ todo' = Tail(todo) => c \notin Left'
<1>1. Working /\ todo # <<>> /\ Head(todo) = c
  BY DEF Call, Ready, Working
<1>2. c \in Left /\ c \in Names(Plan)
  BY <1>1, CallMoves, PlanFacts
<1>3. c \in Starts => stage = "init" /\ Has(c)
  BY <1>1, <1>2, CallsOfExit DEF Plan, Working, WorkTypes, Has
<1>4. c \in Stops => stage = "exit"
  BY <1>1, <1>2, CallsOfInit DEF Plan, Working, WorkTypes
<1>5. todo' = Tail(todo) => c \notin Left'
  BY <1>1, CallMoves DEF Left
<1> QED
  BY <1>1, <1>2, <1>3, <1>4, <1>5, CallMoves, PlanFacts

LEMMA TimerKept ==
  ASSUME WorkTypes, TodoOK, TimerOK, [WorkNext]_workVars
  PROVE  TimerOK'
<1>1. /\ Moves /\ driver' = driver /\ WorkTypes' /\ faults \subseteq faults'
      /\ (Has("add_timer"))' = Has("add_timer") /\ driver \in Names8
  BY StepMoves, TypesKept, Changes DEF Has, WorkTypes
<1>2. /\ "add_timer" \notin Left => "add_timer" \notin Left'
      /\ Over("del_timer")' => \/ Over("del_timer") \/ Returned("del_timer")
                               \/ "del_timer" \notin Names(ExitCalls[driver])
  BY <1>1, LeftMoves DEF Starts
<1>3. TimerRests => \/ TimerRests'
                    \/ AddTimer
  <2>1. CASE DelTimer
    BY <2>1 DEF DelTimer, TimerRests, WorkTypes
  <2>2. CASE TimerRuns
    BY <2>2 DEF TimerRuns, Ch3Timer, Ch2Timer, TimerRests
  <2>3. CASE TimerFires
    BY <2>3 DEF TimerFires, TimerRests
  <2>4. CASE timer' = timer
    BY <2>4 DEF TimerRests
  <2> QED
    BY <2>1, <2>2, <2>3, <2>4, Changes
<1>4. AddTimer => /\ stage = "init" /\ stage' = "init"
                  /\ Has("add_timer") /\ "add_timer" \notin Left'
  BY InTurn DEF AddTimer, Return, Starts
<1>5. TimerRests' \/ (Has("add_timer") /\ "add_timer" \notin Left')
  BY <1>2, <1>3, <1>4 DEF TimerOK
<1>6. Over("del_timer")' => TimerRests' \/ "late_timer" \in faults'
  <2>1. CASE Over("del_timer")
    <3>1. ~AddTimer
      BY <1>4, <2>1 DEF Over
    <3> QED
      BY <1>1, <1>3, <2>1, <3>1 DEF TimerOK
  <2>2. CASE Returned("del_timer")
    <3>1. DelTimer
      BY <2>2, Called
    <3> QED
      BY <3>1 DEF DelTimer, TimerRests, WorkTypes
  <2>3. CASE "del_timer" \notin Names(ExitCalls[driver])
    BY <1>1, <1>5, <2>3, StopFollowsStart DEF Has
  <2> QED
    BY <1>2, <2>1, <2>2, <2>3
<1> QED
  BY <1>1, <1>5, <1>6 DEF TimerOK

LEMMA TaskletKept ==
  ASSUME WorkTypes, TodoOK, TaskletOK, [WorkNext]_workVars
  PROVE  TaskletOK'
<1>1. /\ Moves /\ driver' = driver /\ faults \subseteq faults'
      /\ (Has("tasklet_schedule"))' = Has("tasklet_schedule") /\ driver \in Names8
  BY StepMoves, Changes DEF Has, WorkTypes
<1>2. Over("tasklet_kill")' => \/ Over("tasklet_kill") \/ Returned("tasklet_kill")
                               \/ "tasklet_kill" \notin Names(ExitCalls[driver])
  BY <1>1, LeftMoves
<1>3. ASSUME TaskletRests
      PROVE  \/ TaskletRests'
             \/ Has("tasklet_schedule") /\ stage = "init"
             \/ /\ driver = "pir_tasklet" /\ stage # "unloaded"
                /\ Over("tasklet_kill") => "late_tasklet" \in faults'
  <2>1. CASE TaskletCall
    <3>1. CASE Call("tasklet_schedule")
      BY <3>1, InTurn DEF Starts
    <3>2. CASE tasklet' = tasklet
      BY <1>3, <3>2 DEF TaskletRests
    <3> QED
      BY <2>1, <3>1, <3>2 DEF TaskletCall
  <2>2. CASE Detect
    BY <1>3, <2>2 DEF Detect, TaskletRests, Present, Done, Over, Left, Names
  <2>3. CASE TaskletRuns
    BY <1>3, <2>3 DEF TaskletRuns, TaskletRests
  <2>4. CASE tasklet' = tasklet
    BY <1>3, <2>4 DEF TaskletRests
  <2> QED
    BY <2>1, <2>2, <2>3, <2>4, Changes
<1>4. TaskletRests' \/ Has("tasklet_schedule")
  BY <1>3, Orders DEF TaskletOK, Has
<1>5. Over("tasklet_kill")' => TaskletRests' \/ "late_tasklet" \in faults'
  <2>1. CASE Over("tasklet_kill")
    BY <1>1, <1>3, <2>1 DEF TaskletOK, Over
  <2>2. CASE Returned("tasklet_kill")
    BY <2>2, Called DEF TaskletRests
  <2>3. CASE "tasklet_kill" \notin Names(ExitCalls[driver])
    BY <1>1, <1>4, <2>3, StopFollowsStart DEF Has
  <2> QED
    BY <1>2, <2>1, <2>2, <2>3
<1> QED
  BY <1>1, <1>4, <1>5 DEF TaskletOK

LEMMA IrqKept ==
  ASSUME WorkTypes, TodoOK, IrqOK, [WorkNext]_workVars
  PROVE  IrqOK'
<1>1. /\ Moves /\ driver' = driver
      /\ (Has("request_irq"))' = Has("request_irq") /\ driver \in Names8
  BY StepMoves DEF Has, WorkTypes
<1>2. /\ "request_irq" \notin Left => "request_irq" \notin Left'
      /\ Over("free_irq")' => \/ Over("free_irq") \/ Returned("free_irq")
                              \/ "free_irq" \notin Names(ExitCalls[driver])
  BY <1>1, LeftMoves DEF Starts
<1>3. ASSUME IrqRests
      PROVE  \/ IrqRests'
             \/ stage = "init" /\ Has("request_irq") /\ "request_irq" \notin Left'
  <2>1. CASE RequestIrq
    <3>1. CASE irq' = irq
      BY <1>3, <3>1 DEF IrqRests
    <3>2. CASE todo' = Tail(todo)
      BY <2>1, <3>2, InTurn DEF RequestIrq, Starts
    <3> QED
      BY <2>1, <3>1, <3>2 DEF RequestIrq
  <2>2. CASE StopIrq
    BY <1>3, <2>2 DEF StopIrq, IrqRests, WorkTypes
  <2>3. CASE Detect \/ Ch3Isr
    BY <1>3, <2>3 DEF Detect, Ch3Isr, IrqRests
  <2>4. CASE Open \/ Release
    BY <1>3, <2>4 DEF Open, Release, IrqRests
  <2>5. CASE irq' = irq
    BY <1>3, <2>5 DEF IrqRests
  <2> QED
    BY <2>1, <2>2, <2>3, <2>4, <2>5, Changes
<1>4. IrqRests' \/ (Has("request_irq") /\ "request_irq" \notin Left')
  BY <1>2, <1>3 DEF IrqOK
<1>5. Over("free_irq")' => IrqRests'
  <2>1. CASE Over("free_irq")
    BY <1>3, <2>1 DEF IrqOK, Over
  <2>2. CASE Returned("free_irq")
    BY <2>2, Called DEF IrqRests
  <2>3. CASE "free_irq" \notin Names(ExitCalls[driver])
    BY <1>1, <1>4, <2>3, StopFollowsStart DEF Has
  <2> QED
    BY <1>2, <2>1, <2>2, <2>3
<1>6. irq'.at # "idle" => driver = "ch3"
  <2>1. CASE RequestIrq
    BY <2>1 DEF RequestIrq, IrqOK, WorkTypes
  <2>2. CASE StopIrq
    BY <2>2 DEF StopIrq, IrqOK, WorkTypes
  <2>3. CASE Detect
    BY <2>3 DEF Detect, IrqOK
  <2>4. CASE Ch3Isr
    BY <2>4 DEF Ch3Isr, IrqOK, WorkTypes
  <2>5. CASE Open \/ Release
    BY <2>5 DEF Open, Release, IrqOK, WorkTypes
  <2>6. CASE irq' = irq
    BY <2>6 DEF IrqOK
  <2> QED
    BY <2>1, <2>2, <2>3, <2>4, <2>5, <2>6, Changes
<1> QED
  BY <1>1, <1>4, <1>5, <1>6 DEF IrqOK

(* An interrupt in exit comes before free_irq has returned, and work before *)
(* flush_workqueue.                                                         *)
LEMMA FlushedLast ==
  ASSUME WorkTypes, TodoOK, IrqOK, Has("create_workqueue"), Over("flush_workqueue")
  PROVE  ~irq.requested
<1>1. CASE stage = "unloaded"
  BY <1>1 DEF IrqOK, Over, IrqRests
<1>2. CASE stage = "exit" /\ "flush_workqueue" \notin Left
  <2>1. Working /\ Plan = ExitCalls[driver] /\ driver \in Names8
    BY <1>2 DEF Working, Plan, WorkTypes
  <2>2. Before(Plan, "free_irq", "flush_workqueue")
    BY <2>1, StopFollowsStart, CallsOfExit DEF Has
  <2>3. "free_irq" \notin Left
    BY <1>2, <2>1, <2>2, PlanFacts
  <2> QED
    BY <1>2, <2>3 DEF IrqOK, Over, IrqRests
<1> QED
  BY <1>1, <1>2 DEF Over

LEMMA QueueKept ==
  ASSUME WorkTypes, TodoOK, IrqOK, QueueOK, [WorkNext]_workVars
  PROVE  QueueOK'
<1>1. /\ Moves /\ driver' = driver
      /\ (Has("create_workqueue"))' = Has("create_workqueue") /\ driver \in Names8
  BY StepMoves DEF Has, WorkTypes
<1>2. Over("flush_workqueue")' => \/ Over("flush_workqueue") \/ Returned("flush_workqueue")
                                  \/ "flush_workqueue" \notin Names(ExitCalls[driver])
  BY <1>1, LeftMoves
<1>3. ASSUME Call("create_workqueue") PROVE stage = "init" /\ Has("create_workqueue")
  BY <1>3, InTurn DEF Starts
<1>4. workqueue'.up \/ ~QueueRests' => Has("create_workqueue")
  <2>1. CASE WorkqueueCall
    BY <1>3, <2>1 DEF WorkqueueCall, QueueOK, QueueRests, WorkTypes
  <2>2. CASE Detect
    BY <2>2 DEF Detect, QueueOK, QueueRests
  <2>3. CASE WorkerRuns
    BY <2>3 DEF WorkerRuns, QueueOK, QueueRests, WorkTypes
  <2>4. CASE workqueue' = workqueue
    BY <2>4 DEF QueueOK, QueueRests
  <2> QED
    BY <2>1, <2>2, <2>3, <2>4, Changes
<1>5. Over("flush_workqueue")' => QueueRests'
  <2>1. CASE Over("flush_workqueue")
    <3>1. QueueRests
      BY <2>1 DEF QueueOK
    <3>2. CASE WorkqueueCall
      BY <1>3, <2>1, <3>1, <3>2 DEF WorkqueueCall, QueueRests, WorkTypes, Over
    <3>3. CASE Detect
      <4>1. ~workqueue.up
        BY <2>1, <3>3, FlushedLast DEF Detect, QueueOK
      <4> QED
        BY <3>1, <3>3, <4>1 DEF Detect, QueueRests
    <3>4. CASE WorkerRuns
      BY <3>1, <3>4 DEF WorkerRuns, QueueRests
    <3>5. CASE workqueue' = workqueue
      BY <3>1, <3>5 DEF QueueRests
    <3> QED
      BY <3>2, <3>3, <3>4, <3>5, Changes
  <2>2. CASE Returned("flush_workqueue")
    BY <2>2, Called DEF QueueRests
  <2>3. CASE "flush_workqueue" \notin Names(ExitCalls[driver])
    BY <1>1, <1>4, <2>3, StopFollowsStart DEF Has
  <2> QED
    BY <1>2, <2>1, <2>2, <2>3
<1> QED
  BY <1>1, <1>4, <1>5 DEF QueueOK

LEMMA ThreadsKept ==
  ASSUME WorkTypes, TodoOK, ThreadsOK, [WorkNext]_workVars
  PROVE  ThreadsOK'
<1> SUFFICES ASSUME NEW k \in {"a", "b"}
             PROVE  /\ thread'[k] # "none" => Has(Create[k])'
                    /\ Over(Stop[k])' => thread'[k] \in {"none", "ended"}
  BY DEF ThreadsOK
<1>1. Moves /\ driver' = driver /\ Has(Create[k])' = Has(Create[k]) /\ driver \in Names8
  BY StepMoves DEF Has, WorkTypes
<1>2. Over(Stop[k])' => \/ Over(Stop[k]) \/ Returned(Stop[k])
                        \/ Stop[k] \notin Names(ExitCalls[driver])
  BY <1>1, LeftMoves
<1>3. \A j \in {"a", "b"} : Create[j] \in Starts
  BY DEF Create, Starts
<1>4. /\ thread[k] \in {"none", "up", "told", "ended"}
      /\ thread \in [{"a", "b"} -> {"none", "up", "told", "ended"}]
  BY DEF WorkTypes
<1>5. \/ thread'[k] = thread[k]
      \/ stage = "init" /\ Has(Create[k])
      \/ thread[k] = "up" /\ thread'[k] = "told"
      \/ thread[k] = "told" /\ thread'[k] = "ended"
  <2>1. ASSUME NEW j \in {"a", "b"}, KthreadCall(j)
        PROVE  \/ thread'[k] = thread[k]
               \/ stage = "init" /\ Has(Create[k])
               \/ thread[k] = "up" /\ thread'[k] = "told"
    <3>1. CASE Call(Create[j])
      <4>1. stage = "init" /\ Has(Create[j])
        BY <1>3, <3>1, InTurn
      <4>2. j # k => thread'[k] = thread[k] \/ Call(Stop[j])
        BY <1>4, <2>1 DEF KthreadCall
      <4>3. ~Call(Stop[j])
        BY <3>1 DEF Call, Create, Stop
      <4> QED
        BY <4>1, <4>2, <4>3
    <3>2. CASE Call(Stop[j]) /\ thread[j] = "up" /\ thread' = [thread EXCEPT ![j] = "told"]
      BY <1>4, <3>2
    <3>3. CASE thread' = thread
      BY <3>3
    <3> QED
      BY <2>1, <3>1, <3>2, <3>3 DEF KthreadCall
  <2>2. ASSUME NEW j \in {"a", "b"}, ThreadEnds(j)
        PROVE  thread'[k] = thread[k] \/ (thread[k] = "told" /\ thread'[k] = "ended")
    BY <1>4, <2>2 DEF ThreadEnds
  <2> QED
    BY <2>1, <2>2, Changes
<1>6. thread'[k] # "none" => Has(Create[k])
  BY <1>4, <1>5 DEF ThreadsOK
<1>7. Over(Stop[k])' => thread'[k] \in {"none", "ended"}
  <2>1. CASE Over(Stop[k])
    BY <1>5, <2>1 DEF ThreadsOK, Over
  <2>2. CASE Returned(Stop[k])
    BY <2>2, Called
  <2>3. CASE Stop[k] \notin Names(ExitCalls[driver])
    <3>1. ~Has(Create[k])
      BY <1>1, <2>3, StopFollowsStart DEF Has, Create, Stop
    <3> QED
      BY <1>6, <3>1
  <2> QED
    BY <1>2, <2>1, <2>2, <2>3
<1> QED
  BY <1>1, <1>6, <1>7

-----------------------------------------------------------------------------
(* A call that is no longer left has returned, or request_irq has failed.   *)
LEMMA LeftLater ==
  ASSUME WorkTypes, TodoOK, Moves, driver' = driver, stage' \in {"init", "loaded"},
         NEW c \in Left, c \notin Left'
  PROVE  \/ Returned(c)
         \/ /\ c \in {"request_irq", "disable_irq"} /\ "request_irq" \in Left
            /\ stage = "init" /\ stage' = stage /\ state' = state
<1>1. CASE stage' = stage /\ todo' = todo
  BY <1>1 DEF Left
<1>2. ASSUME NEW d \in Left, Returned(d) PROVE d = c
  <2>1. Working /\ todo # <<>> /\ Head(todo) = d /\ todo' = Tail(todo)
    BY <1>2 DEF Returned
  <2> QED
    BY <2>1, CallMoves DEF Left
<1>3. CASE /\ stage = "init" /\ stage' = stage /\ todo # <<>> /\ Head(todo) = "request_irq"
           /\ todo' = Skipping("disable_irq", Tail(todo)) /\ state' = state
  BY <1>3, CallMoves, SkippingLeaves DEF Left, Working
<1>4. CASE Working /\ todo = <<>>
  BY <1>4, NothingLeft
<1> QED
  BY <1>1, <1>2, <1>3, <1>4 DEF Moves

(* Once init is over, nothing is left of it.                                *)
LEMMA Settled == TodoOK /\ stage = "loaded" => Left = {}
BY NothingLeft DEF TodoOK

LEMMA PinsKept ==
  ASSUME WorkTypes, TodoOK, PinsOK, [WorkNext]_workVars
  PROVE  PinsOK'
<1>1. /\ Moves /\ driver' = driver /\ driver \in Names8
      /\ (Has("request_leds"))' = Has("request_leds")
  BY StepMoves DEF Has, WorkTypes
<1>2. "leds" \in pins => \/ "leds" \in pins'
                         \/ Call("free_leds") /\ todo' = Tail(todo) /\ stage' = stage
  <2>1. CASE pins' = pins
    BY <2>1
  <2>2. CASE Gpio
    BY <2>2 DEF Gpio, Return
  <2> QED
    BY <2>1, <2>2, Changes
<1>3. Call("free_leds") => stage = "exit" /\ (todo' = Tail(todo) => "free_leds" \notin Left')
  BY InTurn DEF Stops
<1>4. ASSUME Has("request_leds"), stage' \in {"init", "loaded"}, "request_leds" \notin Left'
      PROVE  "leds" \in pins'
  <2>1. stage \in {"init", "loaded"}
    BY <1>1, <1>4, LeftMoves
  <2>2. CASE "request_leds" \notin Left
    BY <1>2, <1>3, <1>4, <2>1, <2>2 DEF PinsOK
  <2>3. CASE "request_leds" \in Left
    BY <1>1, <1>4, <2>3, LeftLater, Called
  <2> QED
    BY <2>2, <2>3
<1>5. ASSUME driver = "ch3", stage' = "exit", "free_leds" \in Left' PROVE "leds" \in pins'
  <2>1. CASE stage = "exit"
    BY <1>1, <1>2, <1>3, <1>5, <2>1, LeftMoves DEF PinsOK
  <2>2. CASE stage = "loaded" /\ state' = state
    <3>1. "leds" \in pins
      BY <1>5, <2>2, Settled, Orders DEF PinsOK, Has
    <3> QED
      BY <2>2, <3>1 DEF state
  <2> QED
    BY <1>1, <1>5, <2>1, <2>2 DEF Moves, Returned
<1> QED
  BY <1>1, <1>4, <1>5 DEF PinsOK

(* In init and after it, what writes ch2's and ch3's LEDs starts after they *)
(* are requested.                                                           *)
LEMMA HeldEarly ==
  ASSUME WorkTypes, TodoOK, TimerOK, IrqOK, PinsOK, stage \in {"init", "loaded"},
         \/ driver \in {"ch2", "ch3"} /\ timer.at # "idle"
         \/ irq.at # "idle"
         \/ driver = "ch5" /\ stage = "loaded"
  PROVE  "leds" \in pins
<1>1. driver \in {"ch2", "ch3", "ch5"} /\ Has("request_leds")
  BY Orders DEF IrqOK, Has
<1>2. CASE stage = "loaded"
  BY <1>1, <1>2, Settled DEF PinsOK
<1>3. CASE stage = "init"
  <2>1. Working /\ Plan = InitCalls[driver]
    BY <1>3 DEF Working, Plan
  <2>2. CASE driver \in {"ch2", "ch3"} /\ timer.at # "idle"
    <3>1. "add_timer" \notin Left /\ Before(Plan, "request_leds", "add_timer")
      BY <2>1, <2>2, Orders DEF TimerOK, TimerRests
    <3> QED
      BY <1>1, <1>3, <2>1, <3>1, PlanFacts DEF PinsOK
  <2>3. CASE irq.at # "idle"
    <3>1. "request_irq" \notin Left /\ Before(Plan, "request_leds", "request_irq")
      BY <2>1, <2>3, Orders DEF IrqOK, IrqRests
    <3> QED
      BY <1>1, <1>3, <2>1, <3>1, PlanFacts DEF PinsOK
  <2> QED
    BY <1>3, <2>2, <2>3
<1> QED
  BY <1>2, <1>3

(* In ch3's exit they have stopped when the LEDs are off, and are freed.    *)
LEMMA StoppedFirst ==
  ASSUME WorkTypes, TodoOK, TimerOK, IrqOK, driver = "ch3", stage \in {"exit", "unloaded"},
         NEW c \in {"leds_off", "free_leds"}, stage = "exit" => c \notin Left
  PROVE  /\ TimerRests \/ "late_timer" \in faults
         /\ IrqRests
<1>1. Over("del_timer") /\ Over("free_irq")
  <2>1. CASE stage = "exit"
    <3>1. Working /\ Plan = ExitCalls["ch3"]
      BY <2>1 DEF Working, Plan
    <3>2. Before(Plan, "del_timer", c) /\ Before(Plan, "free_irq", c)
      BY <3>1, Orders
    <3> QED
      BY <2>1, <3>1, <3>2, PlanFacts DEF Over
  <2>2. CASE stage = "unloaded"
    BY <2>2 DEF Over
  <2> QED
    BY <2>1, <2>2
<1> QED
  BY <1>1 DEF TimerOK, IrqOK

(* Who writes an LED.                                                       *)
Writes ==
  \/ driver \in {"ch2", "ch3"} /\ timer.at # "idle"
  \/ irq.at # "idle"
  \/ driver = "ch5"

LEMMA NewFaults ==
  ASSUME [WorkNext]_workVars, NEW f \in faults', f \notin faults,
         f \notin {"late_timer", "late_tasklet", "crossed", "unbalanced"}
  PROVE  Writes /\ stage # "unloaded" /\ "leds" \notin pins /\ f = UnheldIn[stage]
<1>1. CASE DelTimer \/ TimerFires \/ Detect \/ Open
  BY <1>1 DEF DelTimer, TimerFires, Detect, Open
<1>2. CASE TimerRuns
  BY <1>2 DEF TimerRuns, Ch3Timer, Ch2Timer, Unheld, Writes, Present
<1>3. CASE Ch3Isr
  BY <1>3 DEF Ch3Isr, Unheld, Writes, Present
<1>4. CASE WorkerRuns
  BY <1>4 DEF WorkerRuns, Unheld, Writes, Present
<1>5. ASSUME NEW k \in {"a", "b"}, ThreadLoops(k)
      PROVE  Writes /\ stage # "unloaded" /\ "leds" \notin pins /\ f = UnheldIn[stage]
  BY <1>5 DEF ThreadLoops, Unheld, Writes, Present
<1> QED
  BY <1>1, <1>2, <1>3, <1>4, <1>5, Changes

LEMMA LedsHeldKept ==
  ASSUME WorkTypes, TodoOK, TimerOK, IrqOK, PinsOK, LedsHeld, [WorkNext]_workVars
  PROVE  LedsHeld'
<1>1. driver' = driver /\ faults \subseteq faults'
  BY StepMoves, Changes
<1>2. ASSUME NEW f \in faults', f \notin faults,
             f \in {"unheld_in_init", "unheld_in_loaded", "unheld_in_exit"}
      PROVE  \/ f = "unheld_in_init" /\ driver = "ch5"
             \/ f = "unheld_in_exit" /\ (driver = "ch3" => "late_timer" \in faults)
  <2>1. /\ Writes /\ "leds" \notin pins /\ f = UnheldIn[stage]
        /\ stage \in {"init", "loaded", "exit", "oops"}
    BY <1>2, NewFaults DEF WorkTypes
  <2>2. /\ f = "unheld_in_init" => stage = "init"
        /\ f = "unheld_in_loaded" => stage = "loaded"
        /\ f = "unheld_in_exit" => stage = "exit"
    BY <2>1 DEF UnheldIn
  <2>3. CASE stage \in {"init", "loaded"}
    BY <1>2, <2>1, <2>2, <2>3, HeldEarly DEF Writes
  <2>4. CASE f = "unheld_in_exit" /\ driver = "ch3"
    <3>1. stage = "exit" /\ "free_leds" \notin Left
      BY <2>1, <2>2, <2>4 DEF PinsOK
    <3>2. (TimerRests \/ "late_timer" \in faults) /\ IrqRests
      BY <2>4, <3>1, StoppedFirst
    <3> QED
      BY <2>1, <2>4, <3>2 DEF Writes, TimerRests, IrqRests
  <2> QED
    BY <1>2, <2>2, <2>3, <2>4
<1> QED
  BY <1>1, <1>2 DEF LedsHeld

LEMMA LampKept ==
  ASSUME WorkTypes, TodoOK, TimerOK, IrqOK, LampOK, [WorkNext]_workVars
  PROVE  LampOK'
<1> SUFFICES ASSUME driver = "ch3", Over("leds_off")', "late_timer" \notin faults'
             PROVE  lit' = {}
  BY StepMoves DEF LampOK
<1>1. /\ Moves /\ driver' = driver /\ "late_timer" \notin faults
      /\ "leds_off" \in Names(ExitCalls[driver])
  BY StepMoves, Changes, Orders
<1>2. CASE Over("leds_off")
  <2>1. lit = {} /\ stage \in {"exit", "unloaded"}
    BY <1>1, <1>2 DEF LampOK, Over
  <2>2. TimerRests
    BY <1>1, <1>2, <2>1, StoppedFirst DEF Over
  <2>3. CASE Gpio
    BY <2>1, <2>3 DEF Gpio
  <2>4. CASE TimerRuns
    BY <2>1, <2>2, <2>4 DEF TimerRuns, Ch3Timer, Ch2Timer, TimerRests
  <2>5. CASE Ch3Isr
    BY <2>1, <2>5 DEF Ch3Isr
  <2>6. CASE WorkerRuns
    BY <2>1, <2>6 DEF WorkerRuns
  <2>7. ~ThreadLoops("a") /\ ~ThreadLoops("b")
    BY DEF ThreadLoops
  <2> QED
    BY <2>1, <2>3, <2>4, <2>5, <2>6, <2>7, Changes
<1>3. CASE Returned("leds_off")
  BY <1>3, Called
<1> QED
  BY <1>1, <1>2, <1>3, LeftMoves

(* A tick of ch3 and a detection, as long as they do not overlap.           *)
LEMMA TicksKept ==
  ASSUME WorkTypes, TodoOK, TimerOK, TicksOK, [WorkNext]_workVars
  PROVE  TicksOK'
<1> SUFFICES ASSUME driver = "ch3", stage' \in {"init", "loaded"}, "crossed" \notin faults'
             PROVE  (/\ timer.at = "idle" \/ irq.at = "idle"
                     /\ timer.at \in {"idle", "func", "arm"} => Agrees
                     /\ timer.at \in {"on", "clear"} => lit = {"LED1"}
                     /\ timer.at = "clear" => light_status = 1
                     /\ timer.at = "off" => lit = {} /\ is_detect = 0
                     /\ timer.at = "on" => is_detect = 1
                     /\ irq.at = "look" => is_detect = 1
                     /\ "add_timer" \in Left => light_status = 0)'
  BY StepMoves DEF TicksOK
<1>1. /\ Moves /\ driver' = driver /\ stage \in {"init", "loaded"}
      /\ "crossed" \notin faults
  BY StepMoves, Changes, LeftMoves
<1>2. /\ timer.at = "idle" \/ irq.at = "idle"
      /\ timer.at \in {"idle", "func", "arm"} => Agrees
      /\ timer.at \in {"on", "clear"} => lit = {"LED1"}
      /\ timer.at = "clear" => light_status = 1
      /\ timer.at = "off" => lit = {} /\ is_detect = 0
      /\ timer.at = "on" => is_detect = 1
      /\ irq.at = "look" => is_detect = 1
      /\ "add_timer" \in Left => light_status = 0
  BY <1>1 DEF TicksOK
<1>3. "add_timer" \in Left' => "add_timer" \in Left
  BY LeftMoves, <1>1 DEF Starts
<1>4. timer.at # "idle" => "add_timer" \notin Left'
  BY <1>3 DEF TimerOK, TimerRests
<1>5. CASE TimerRuns
  <2>1. Ch3Timer \/ (timer.at = "arm" /\ timer' = [pending |-> TRUE, at |-> "idle"]
                     /\ UNCHANGED <<lit, is_detect, light_status>>)
    BY <1>5 DEF TimerRuns, Ch2Timer
  <2>2. irq' = irq /\ irq.at = "idle" /\ "add_timer" \notin Left'
    BY <1>2, <1>4, <2>1, <1>5 DEF TimerRuns, Ch3Timer
  <2>3. is_detect \in {0, 1} /\ \A at : timer' = [timer EXCEPT !.at = at] => timer'.at = at
    BY DEF WorkTypes
  <2>4. CASE timer.at = "func" /\ Ch3Timer
    <3>1. CASE is_detect = 1
      BY <2>2, <2>3, <2>4, <3>1 DEF Ch3Timer, TimerStep
    <3>2. CASE is_detect = 0
      BY <2>2, <2>3, <2>4, <3>2 DEF Ch3Timer, TimerStep
    <3> QED
      BY <2>3, <3>1, <3>2
  <2>5. CASE timer.at = "on" /\ Ch3Timer
    BY <1>2, <2>2, <2>3, <2>5 DEF Ch3Timer, TimerStep
  <2>6. CASE timer.at = "clear" /\ Ch3Timer
    BY <1>2, <2>2, <2>3, <2>6 DEF Ch3Timer, TimerStep, Agrees
  <2>7. CASE timer.at = "off" /\ Ch3Timer
    BY <1>2, <2>2, <2>3, <2>7 DEF Ch3Timer, TimerStep, Agrees
  <2>8. CASE /\ timer.at = "arm" /\ timer' = [pending |-> TRUE, at |-> "idle"]
             /\ UNCHANGED <<lit, is_detect, light_status>>
    BY <1>2, <2>2, <2>8 DEF Agrees
  <2> QED
    BY <2>1, <2>4, <2>5, <2>6, <2>7, <2>8 DEF Ch3Timer
<1>6. CASE TimerFires
  BY <1>1, <1>2, <1>3, <1>6 DEF TimerFires, Agrees
<1>7. CASE Detect
  BY <1>1, <1>2, <1>3, <1>7 DEF Detect, Noted, Agrees
<1>8. CASE Ch3Isr
  BY <1>1, <1>2, <1>3, <1>8 DEF Ch3Isr, Agrees
<1>9. CASE Gpio
  <2>1. CASE Call("request_leds")
    <3>1. Working /\ Plan = InitCalls["ch3"]
      BY <2>1, InTurn DEF Starts, Plan, Working
    <3>2. "add_timer" \in Left
      BY <2>1, <3>1, InTurn, Orders
    <3>3. timer.at = "idle" /\ light_status = 0
      BY <1>2, <3>2 DEF TimerOK, TimerRests
    <3>4. lit' = {} /\ UNCHANGED <<timer, irq, is_detect, light_status>>
      BY <1>9, <2>1 DEF Gpio, Call
    <3> QED
      BY <1>2, <3>3, <3>4 DEF Agrees
  <2>2. ~Call("leds_off")
    BY <1>1, <1>9, InTurn DEF Stops
  <2>3. CASE UNCHANGED lit
    BY <1>2, <1>3, <1>9, <2>3 DEF Gpio, Agrees
  <2> QED
    BY <1>9, <2>1, <2>2, <2>3 DEF Gpio
<1>10. CASE timer'.at = timer.at /\ irq'.at = irq.at /\ UNCHANGED <<lit, is_detect, light_status>>
  BY <1>2, <1>3, <1>10 DEF Agrees
<1>11. AddTimer \/ DelTimer => timer'.at = timer.at
  BY DEF AddTimer, DelTimer, WorkTypes
<1>12. RequestIrq \/ StopIrq \/ Open \/ Release => irq'.at = irq.at
  BY DEF RequestIrq, StopIrq, Open, Release, WorkTypes
<1>13. ~WorkerRuns \/ lit' = lit
  BY DEF WorkerRuns
<1>14. ~ThreadLoops("a") /\ ~ThreadLoops("b")
  BY DEF ThreadLoops
<1>15. \/ timer'.at = timer.at /\ irq'.at = irq.at /\ UNCHANGED <<lit, is_detect, light_status>>
       \/ TimerRuns \/ TimerFires \/ Detect \/ Ch3Isr \/ Gpio
  BY <1>11, <1>12, <1>13, <1>14, Changes
<1> QED
  BY <1>5, <1>6, <1>7, <1>8, <1>9, <1>10, <1>15

(* The depth of the interrupt and the opens of the device.                  *)
LEMMA GateKept ==
  ASSUME WorkTypes, TodoOK, IrqOK, GateOK, [WorkNext]_workVars
  PROVE  GateOK'
<1> SUFFICES ASSUME driver \in {"week6", "ch3"}, stage' \in {"init", "loaded"}
             PROVE  (/\ irq.requested => irq.depth + device.opens >= Enabled
                     /\ "unbalanced" \notin faults =>
                          IF irq.requested THEN irq.depth + device.opens = Enabled
                                           ELSE device.opens = 0)'
  BY StepMoves DEF GateOK, Gated
<1>1. /\ Moves /\ driver' = driver /\ stage \in {"init", "loaded"}
      /\ faults \subseteq faults'
  BY StepMoves, Changes, LeftMoves
<1>2. /\ irq.requested => irq.depth + device.opens >= Enabled
      /\ "unbalanced" \notin faults =>
           IF irq.requested THEN irq.depth + device.opens = Enabled ELSE device.opens = 0
  BY <1>1 DEF GateOK, Gated
<1>3. irq \in [requested : BOOLEAN, depth : Nat, at : {"idle", "look"}]
      /\ device \in [there : BOOLEAN, opens : Nat] /\ Enabled \in {0, 1} /\ Enabled' \in {0, 1}
  BY DEF WorkTypes, Enabled
<1>4. "disable_irq" \notin Left => "disable_irq" \notin Left'
  BY <1>1, LeftMoves DEF Starts
<1>5. CASE RequestIrq
  <2>1. /\ Call("request_irq") /\ Working /\ Plan = InitCalls[driver] /\ "request_irq" \in Left
    BY <1>5, InTurn DEF RequestIrq, Starts, Plan, Working
  <2>2. ~irq.requested
    BY <2>1 DEF IrqOK, IrqRests
  <2>3. device' = device /\ faults' = faults
    BY <1>5 DEF RequestIrq
  <2>4. CASE irq' = irq
    BY <1>2, <2>2, <2>3, <2>4
  <2>5. CASE irq' = [irq EXCEPT !.requested = TRUE, !.depth = 0] /\ todo' = Tail(todo)
    <3>1. "disable_irq" \in Left
      BY <2>1, InTurn, Orders
    <3>2. "disable_irq" \in Left'
      BY <2>1, <2>5, <3>1, CallMoves DEF Call, Ready, Left
    <3>3. irq'.requested /\ irq'.depth = 0 /\ Enabled' = 0
      BY <1>3, <2>5, <3>2 DEF Enabled
    <3> QED
      BY <1>2, <1>3, <2>2, <2>3, <3>3
  <2> QED
    BY <1>5, <2>4, <2>5 DEF RequestIrq
<1>6. CASE StopIrq
  <2>1. ~Call("free_irq")
    BY <1>1, InTurn DEF Stops
  <2>2. /\ Call("disable_irq") /\ todo' = Tail(todo)
        /\ irq' = [irq EXCEPT !.depth = @ + 1]
    BY <1>6, <2>1 DEF StopIrq, Return
  <2>3. device' = device /\ faults' = faults
    BY <1>6 DEF StopIrq
  <2>4. "disable_irq" \in Left /\ "disable_irq" \notin Left'
    BY <2>2, InTurn
  <2>5. Enabled = 0 /\ Enabled' = 1
    BY <2>4 DEF Enabled
  <2>6. irq'.depth = irq.depth + 1 /\ irq'.requested = irq.requested
    BY <1>3, <2>2
  <2> QED
    BY <1>2, <1>3, <2>3, <2>5, <2>6
<1>7. CASE ~RequestIrq /\ ~StopIrq
  <2>1. irq.requested => Enabled' = Enabled
    <3>1. ASSUME "disable_irq" \in Left, "disable_irq" \notin Left' PROVE ~irq.requested
      <4>1. ~Returned("disable_irq")
        BY <1>7, Called
      <4>2. "request_irq" \in Left
        BY <1>1, <3>1, <4>1, LeftLater
      <4> QED
        BY <4>2 DEF IrqOK, IrqRests
    <3> QED
      BY <1>4, <3>1 DEF Enabled
  <2>2. CASE Open
    <3>1. CASE irq.requested /\ irq.depth > 0
      BY <1>2, <1>3, <2>1, <2>2, <3>1 DEF Open
    <3>2. CASE ~(irq.requested /\ irq.depth > 0)
      BY <1>2, <1>3, <2>1, <2>2, <3>2 DEF Open
    <3> QED
      BY <3>1, <3>2
  <2>3. CASE Release
    <3>1. CASE irq.requested
      BY <1>2, <1>3, <2>1, <2>3, <3>1 DEF Release
    <3>2. CASE ~irq.requested
      BY <1>2, <1>3, <2>1, <2>3, <3>2 DEF Release
    <3> QED
      BY <3>1, <3>2
  <2>4. CASE /\ irq'.requested = irq.requested /\ irq'.depth = irq.depth
             /\ device'.opens = device.opens
    BY <1>1, <1>2, <1>3, <2>1, <2>4
  <2>5. /\ Detect => irq'.requested = irq.requested /\ irq'.depth = irq.depth /\ device' = device
        /\ Ch3Isr => irq'.requested = irq.requested /\ irq'.depth = irq.depth /\ device' = device
        /\ Cdev => irq' = irq /\ device'.opens = device.opens
    BY <1>3 DEF Detect, Ch3Isr, Cdev
  <2> QED
    BY <1>7, <2>2, <2>3, <2>4, <2>5, Changes
<1> QED
  BY <1>5, <1>6, <1>7

LEMMA BoundedKept ==
  ASSUME WorkTypes, TodoOK, Bounded, [WorkNext]_workVars
  PROVE  Bounded'
<1>1. driver' = driver /\ MaxDetections \in Nat /\ MaxOpens \in Nat
  BY StepMoves, DeferredAssumption
<1>2. pins' \subseteq {"sensor", "leds"}
  BY Changes DEF Gpio, Bounded
<1>3. lit' \subseteq {"LED1", "LED2", "LED3"}
  <2>1. Gpio => lit' = lit \/ lit' = {}
    BY DEF Gpio
  <2>2. TimerRuns => lit' = lit \/ \E L \in SUBSET {"LED1", "LED2", "LED3"} : lit' = L
    BY DEF TimerRuns, Ch3Timer, Ch2Timer
  <2>3. Ch3Isr => lit' = lit \/ lit' = {}
    BY DEF Ch3Isr
  <2>4. WorkerRuns => lit' = lit \/ lit' = Toggled("LED1")
    BY DEF WorkerRuns
  <2>5. \A k \in {"a", "b"} : ThreadLoops(k) => lit' = Toggled("LED2") \/ lit' = Toggled("LED3")
    BY DEF ThreadLoops
  <2>6. \A led \in {"LED1", "LED2", "LED3"} : Toggled(led) \subseteq {"LED1", "LED2", "LED3"}
    BY DEF Toggled, Bounded
  <2>7. lit \subseteq {"LED1", "LED2", "LED3"}
    BY DEF Bounded
  <2> QED
    BY <2>1, <2>2, <2>3, <2>4, <2>5, <2>6, <2>7, Changes
<1>4. detections' \in 0 .. MaxDetections /\ workqueue'.queued <= detections'
  <2>1. /\ detections \in 0 .. MaxDetections /\ workqueue.queued <= detections
        /\ workqueue \in [up : BOOLEAN, queued : Nat, busy : BOOLEAN]
    BY DEF Bounded, WorkTypes
  <2>2. CASE Detect
    BY <1>1, <2>1, <2>2 DEF Detect
  <2>3. CASE WorkerRuns
    <3>1. detections' = detections
      BY <2>3 DEF WorkerRuns
    <3>2. CASE workqueue' = [workqueue EXCEPT !.queued = @ - 1, !.busy = TRUE]
      <4>1. workqueue'.queued = workqueue.queued - 1
        BY <2>1, <3>2
      <4> QED
        BY <2>1, <3>1, <4>1
    <3>3. CASE workqueue' = [workqueue EXCEPT !.busy = FALSE]
      BY <2>1, <3>1, <3>3
    <3> QED
      BY <2>3, <3>2, <3>3 DEF WorkerRuns
  <2>4. CASE WorkqueueCall
    BY <1>1, <2>1, <2>4 DEF WorkqueueCall
  <2> QED
    BY <1>1, <2>1, <2>2, <2>3, <2>4, Changes
<1>5. device'.opens <= MaxOpens
  <2>1. device \in [there : BOOLEAN, opens : Nat] /\ device.opens <= MaxOpens
    BY DEF Bounded, WorkTypes
  <2>2. CASE Open
    BY <1>1, <2>1, <2>2 DEF Open
  <2>3. CASE Release
    BY <1>1, <2>1, <2>3 DEF Release
  <2>4. CASE Cdev
    BY <2>1, <2>4 DEF Cdev
  <2> QED
    BY <2>1, <2>2, <2>3, <2>4, Changes
<1> QED
  BY <1>1, <1>2, <1>3, <1>4, <1>5 DEF Bounded

-----------------------------------------------------------------------------
(* What a driver starts from, and that every step keeps it.                 *)
LEMMA StartsRight == WorkInit => WorkIInv
<1> SUFFICES ASSUME NEW name \in Drivers, WorkStart(name) PROVE WorkIInv
  BY DEF WorkInit
<1>1. /\ name \in Names8 /\ driver = name /\ stage = "init" /\ todo = InitCalls[driver]
      /\ Left = Names(InitCalls[driver])
  BY DeferredAssumption DEF WorkStart, Names8, Left
<1>2. WorkTypes
  BY <1>1 DEF WorkStart, WorkTypes
<1>9. Bounded
  BY DeferredAssumption DEF WorkStart, Bounded
<1>3. TodoOK
  BY <1>1, WholePlan, CallsOfInit DEF TodoOK
<1>4. ~Over("del_timer") /\ ~Over("tasklet_kill") /\ ~Over("free_irq")
      /\ ~Over("flush_workqueue") /\ ~Over("leds_off") /\ \A k \in {"a", "b"} : ~Over(Stop[k])
  BY <1>1 DEF Over
<1>5. TimerOK /\ TaskletOK /\ IrqOK /\ QueueOK
  BY <1>4 DEF WorkStart, TimerOK, TimerRests, TaskletOK, TaskletRests, IrqOK, IrqRests,
              QueueOK, QueueRests
<1>6. ThreadsOK
  BY <1>4 DEF WorkStart, ThreadsOK
<1>7. PinsOK /\ LedsHeld /\ LampOK
  BY <1>1, <1>4 DEF WorkStart, PinsOK, LedsHeld, LampOK, Has
<1>8. TicksOK /\ GateOK
  BY <1>1 DEF WorkStart, TicksOK, Agrees, GateOK, Gated
<1> QED
  BY <1>2, <1>3, <1>5, <1>6, <1>7, <1>8, <1>9 DEF WorkIInv

LEMMA WorkInvariant == WorkSpec => []WorkIInv
<1>1. WorkIInv /\ [WorkNext]_workVars => WorkIInv'
  BY TypesKept, BoundedKept, StepMoves, TodoKept, TimerKept, TaskletKept, IrqKept, QueueKept,
     ThreadsKept,
     PinsKept, LedsHeldKept, LampKept, TicksKept, GateKept DEF WorkIInv
<1> QED
  BY StartsRight, <1>1, PTL DEF WorkSpec

-----------------------------------------------------------------------------
(* The types of the model: no more work is queued (queue_work in the        *)
(* handlers of week9) than there were interrupts.                           *)
THEOREM WorkTypeCorrect == WorkSpec => []WorkTypeOK
<1>1. WorkIInv => WorkTypeOK
  <2> SUFFICES ASSUME WorkTypes, Bounded PROVE WorkTypeOK
    BY DEF WorkIInv
  <2>1. workqueue \in [up : BOOLEAN, queued : 0..MaxDetections, busy : BOOLEAN]
    <3>1. workqueue.queued \in 0 .. MaxDetections
      BY DeferredAssumption DEF WorkTypes, Bounded
    <3> QED
      BY <3>1 DEF WorkTypes
  <2>2. device \in [there : BOOLEAN, opens : 0..MaxOpens]
    <3>1. device.opens \in 0 .. MaxOpens
      BY DeferredAssumption DEF WorkTypes, Bounded
    <3> QED
      BY <3>1 DEF WorkTypes
  <2> QED
    BY <2>1, <2>2 DEF WorkTypes, Bounded, WorkTypeOK
<1> QED
  BY WorkInvariant, <1>1, PTL

(* After exit of any of these drivers (ch2_timer_exit, dev_exit of ch3,     *)
(* kernthread_exit, ...) no timer, tasklet, interrupt, work or thread is    *)
(* left that would call into it, but a timer whose function was running     *)
(* when del_timer was called, and a tasklet scheduled after tasklet_kill.   *)
THEOREM NoneOutlives == WorkSpec => []NothingOutlives
<1>1. WorkIInv => NothingOutlives
  BY DEF WorkIInv, NothingOutlives, TimerOK, TimerRests, TaskletOK, TaskletRests, IrqOK, IrqRests,
         QueueOK, QueueRests, ThreadsOK, Over
<1> QED
  BY WorkInvariant, <1>1, PTL

(* Nothing writes an LED that the driver has not requested or has freed,    *)
(* but in the exit of ch2 and ch5, in ch5's init, whose interrupt is        *)
(* requested before its LEDs, and in ch3's exit after a late timer.         *)
THEOREM LedsAreHeld == WorkSpec => []LedsHeld
<1>1. WorkIInv => LedsHeld
  BY DEF WorkIInv
<1> QED
  BY WorkInvariant, <1>1, PTL

(* ch3's exit leaves the lamp off: nothing lights it again after the        *)
(* gpio_set_value of dev_exit, unless a timer was late.                     *)
THEOREM LampIsOut == WorkSpec => []LampOut
<1>1. WorkIInv => LampOut
  BY DEF WorkIInv, LampOK, LampOut, Over
<1> QED
  BY WorkInvariant, <1>1, PTL

(* ch3's light_status tells whether the lamp is lit, but between a          *)
(* detection and the tick that follows, for as long as ch3's interrupt      *)
(* handler and its timer function have not overlapped.                      *)
THEOREM LampIsKnown == WorkSpec => []LampAgrees
<1>1. WorkIInv => LampAgrees
  BY DEF WorkIInv, TicksOK, Agrees, LampAgrees
<1> QED
  BY WorkInvariant, <1>1, PTL

(* The sensor of week6 and of ch3 can interrupt only while the device is    *)
(* open, and then can, unless an open has met an enabled interrupt: what    *)
(* enable_irq in open takes from the depth, disable_irq in release puts     *)
(* back (simple_sensor_open, simple_sensor_release).                        *)
THEOREM SensorIsGated == WorkSpec => []SensorGate
<1>1. WorkIInv => SensorGate
  <2> SUFFICES ASSUME WorkIInv, driver \in {"week6", "ch3"}, stage = "loaded", irq.requested
               PROVE  /\ irq.depth = 0 => device.opens > 0
                      /\ device.opens > 0 => irq.depth = 0 \/ "unbalanced" \in faults
    BY DEF SensorGate
  <2>1. Enabled = 1
    BY Settled DEF WorkIInv, Enabled
  <2>2. irq.depth \in Nat /\ device.opens \in Nat
    BY DEF WorkIInv, WorkTypes
  <2> QED
    BY <2>1, <2>2 DEF WorkIInv, GateOK, Gated
<1> QED
  BY WorkInvariant, <1>1, PTL
=============================================================================
