---------------------------- MODULE DeferredWork -----------------------------
(***************************************************************************)
(* The exercises that leave work for later: to a timer (week5, ch2, ch3),  *)
(* to an interrupt (week6, ch3), to a tasklet or to a work queue and       *)
(* kernel threads (week9).  Every one of them is kernel calls: those of    *)
(* its init and of its exit are sequences, each run a call at a time while *)
(* what earlier calls started goes on.                                     *)
(***************************************************************************)
EXTENDS Integers, Sequences

CONSTANTS
  Drivers,        \* the exercises that may be loaded
  MaxDetections,  \* a bound: so often does the sensor interrupt
  MaxOpens        \* a bound: so many have the device open

VARIABLES
  driver,         \* the exercise that is loaded, or "none"
  stage,          \* "init", "loaded", "exit", "unloaded", or "oops"
  todo,           \* the calls that init or exit has yet to make
  pins,           \* the GPIOs the driver holds: "sensor", "leds"
  lit,            \* the LEDs that are on
  timer,          \* pending, and where its function is
  tasklet,        \* scheduled, and running
  irq,            \* requested, how often disabled, and where the handler is
  workqueue,      \* whether there is one, what is queued, what is executed
  thread,         \* thread[k]: a kernel thread
  device,         \* whether there is a device, and how often it is open
  is_detect, light_status,  \* of ch3
  detections,     \* interrupts so far
  faults          \* history: what went wrong between these parts

state == <<pins, lit, timer, tasklet, irq, workqueue, thread, device,
           is_detect, light_status, detections, faults>>
workVars == <<driver, stage, todo, state>>

ASSUME DeferredAssumption ==
  /\ Drivers \subseteq {"simple_timer", "ch2", "ch3", "week6", "simple_tasklet",
                        "pir_tasklet", "kthreadNworkq", "ch5"}
  /\ MaxDetections \in Nat /\ MaxOpens \in Nat

-----------------------------------------------------------------------------
(* The calls of each driver's init and exit.                                *)
SimpleTimerInit == <<"add_timer">>
SimpleTimerExit == <<"del_timer">>

(* A mutant of Ch2Init: the timer comes first.                              *)
Ch2InitTimerFirst == <<"add_timer", "request_leds">>
Ch2Init == <<"request_leds", "add_timer">>
Ch2Exit == <<"leds_off", "free_leds", "del_timer">>

Ch3Init == <<"cdev_add", "request_sensor", "request_leds", "add_timer",
             "request_irq", "disable_irq">>
(* A mutant of Ch3Exit: the order of ch2.                                   *)
Ch3ExitLikeCh2 == <<"cdev_del", "free_irq", "leds_off", "free_sensor", "free_leds",
                    "del_timer">>
Ch3Exit == <<"cdev_del", "free_irq", "del_timer", "leds_off", "free_sensor", "free_leds">>

(* A mutant of SensorInit: it leaves the interrupt enabled.                 *)
SensorInitEnabled == <<"cdev_add", "request_sensor", "request_irq">>
SensorInit == <<"cdev_add", "request_sensor", "request_irq", "disable_irq">>
SensorExit == <<"cdev_del", "free_irq", "free_sensor">>

TaskletInit == <<"tasklet_schedule">>
TaskletExit == <<"tasklet_kill">>

PirTaskletInit == <<"tasklet_schedule", "request_sensor", "request_irq">>
PirTaskletExit == <<"tasklet_kill", "free_irq", "free_sensor">>

KernthreadInit == <<"create_workqueue", "request_sensor", "request_irq",
                    "kthread_create_a">>
(* A mutant of KernthreadExit: nobody waits for the work.                   *)
KernthreadExitUnflushed == <<"free_irq", "free_sensor", "kthread_stop_a">>
KernthreadExit == <<"free_irq", "free_sensor", "kthread_stop_a",
                    "flush_workqueue", "destroy_workqueue">>

Ch5Init == <<"create_workqueue", "request_sensor", "request_irq", "request_leds",
             "kthread_create_a", "kthread_create_b">>
Ch5Exit == <<"free_irq", "free_sensor", "leds_off", "free_leds", "kthread_stop_a",
             "kthread_stop_b", "flush_workqueue", "destroy_workqueue">>

InitCalls == [simple_timer |-> SimpleTimerInit, ch2 |-> Ch2Init, ch3 |-> Ch3Init,
              week6 |-> SensorInit, simple_tasklet |-> TaskletInit,
              pir_tasklet |-> PirTaskletInit, kthreadNworkq |-> KernthreadInit,
              ch5 |-> Ch5Init]
ExitCalls == [simple_timer |-> SimpleTimerExit, ch2 |-> Ch2Exit, ch3 |-> Ch3Exit,
              week6 |-> SensorExit, simple_tasklet |-> TaskletExit,
              pir_tasklet |-> PirTaskletExit, kthreadNworkq |-> KernthreadExit,
              ch5 |-> Ch5Exit]

WorkStart(name) ==
  /\ driver = name
  /\ stage = IF name = "none" THEN "unloaded" ELSE "init"
  /\ todo = IF name = "none" THEN <<>> ELSE InitCalls[name]
  /\ pins = {} /\ lit = {}
  /\ timer = [pending |-> FALSE, at |-> "idle"]
  /\ tasklet = [scheduled |-> FALSE, running |-> FALSE]
  /\ irq = [requested |-> FALSE, depth |-> 1, at |-> "idle"]
  /\ workqueue = [up |-> FALSE, queued |-> 0, busy |-> FALSE]
  /\ thread = [k \in {"a", "b"} |-> "none"]
  /\ device = [there |-> FALSE, opens |-> 0]
  /\ is_detect = 0 /\ light_status = 0
  /\ detections = 0
  /\ faults = {}

WorkInit == \E name \in Drivers : WorkStart(name)

-----------------------------------------------------------------------------
(* The calls of the thread that runs init or exit.  A Call changes what it  *)
(* names; the next one follows when it has returned.                        *)
Ready == stage \in {"init", "exit"} /\ todo # <<>>
Call(name) == Ready /\ Head(todo) = name
Return == todo' = Tail(todo) /\ UNCHANGED stage

AddTimer ==
  /\ Call("add_timer") /\ Return
  /\ timer' = [timer EXCEPT !.pending = TRUE]
  /\ UNCHANGED <<driver, pins, lit, tasklet, irq, workqueue, thread, device,
                 is_detect, light_status, detections, faults>>

(* del_timer stops a pending timer; for a running function it does not wait.*)
DelTimer ==
  /\ Call("del_timer") /\ Return
  /\ timer' = [timer EXCEPT !.pending = FALSE]
  /\ faults' = IF timer.at = "idle" THEN faults ELSE faults \cup {"late_timer"}
  /\ UNCHANGED <<driver, pins, lit, tasklet, irq, workqueue, thread, device,
                 is_detect, light_status, detections>>

(* tasklet_schedule; tasklet_kill, which waits until the tasklet has run.   *)
TaskletCall ==
  /\ \/ Call("tasklet_schedule") /\ tasklet' = [tasklet EXCEPT !.scheduled = TRUE]
     \/ /\ Call("tasklet_kill") /\ ~tasklet.scheduled /\ ~tasklet.running
        /\ UNCHANGED tasklet
  /\ Return
  /\ UNCHANGED <<driver, pins, lit, timer, irq, workqueue, thread, device,
                 is_detect, light_status, detections, faults>>

(* The calls that are left, without the next one if it is that.             *)
Skipping(name, calls) ==
  IF calls # <<>> /\ Head(calls) = name THEN Tail(calls) ELSE calls

(* request_irq enables the interrupt.  When it fails the driver frees what  *)
(* it did not get, which only warns, and goes on without disable_irq.       *)
RequestIrq ==
  /\ Call("request_irq") /\ UNCHANGED stage
  /\ \/ /\ irq' = [irq EXCEPT !.requested = TRUE, !.depth = 0]
        /\ todo' = Tail(todo)
     \/ UNCHANGED irq /\ todo' = Skipping("disable_irq", Tail(todo))
  /\ UNCHANGED <<driver, pins, lit, timer, tasklet, workqueue, thread, device,
                 is_detect, light_status, detections, faults>>

(* disable_irq and free_irq wait for a handler that runs.                   *)
StopIrq ==
  /\ \/ /\ Call("disable_irq") /\ irq.at = "idle" /\ Return
        /\ irq' = [irq EXCEPT !.depth = @ + 1]
     \/ /\ Call("free_irq") /\ irq.requested /\ UNCHANGED <<stage, todo>>
        /\ irq' = [irq EXCEPT !.requested = FALSE]
     \/ Call("free_irq") /\ ~irq.requested /\ irq.at = "idle" /\ Return /\ UNCHANGED irq
  /\ UNCHANGED <<driver, pins, lit, timer, tasklet, workqueue, thread, device,
                 is_detect, light_status, detections, faults>>

(* gpio_request_one, gpio_free, and the LEDs set to 0 by exit.              *)
Gpio ==
  /\ \/ Call("request_sensor") /\ pins' = pins \cup {"sensor"} /\ UNCHANGED lit
     \/ Call("free_sensor") /\ pins' = pins \ {"sensor"} /\ UNCHANGED lit
     \/ Call("request_leds") /\ pins' = pins \cup {"leds"} /\ lit' = {}
     \/ Call("free_leds") /\ pins' = pins \ {"leds"} /\ UNCHANGED lit
     \/ Call("leds_off") /\ lit' = {} /\ UNCHANGED pins
  /\ Return
  /\ UNCHANGED <<driver, timer, tasklet, irq, workqueue, thread, device,
                 is_detect, light_status, detections, faults>>

(* The work queue, which may not be had: exit flushes NULL then, an oops.   *)
WorkqueueCall ==
  /\ \/ /\ Call("create_workqueue") /\ Return
        /\ \/ workqueue' = [workqueue EXCEPT !.up = TRUE]
           \/ UNCHANGED workqueue
     \/ /\ Call("flush_workqueue") /\ workqueue.up /\ Return
        /\ workqueue.queued = 0 /\ ~workqueue.busy
        /\ UNCHANGED workqueue
     \/ /\ Call("destroy_workqueue") /\ Return
        /\ workqueue.queued = 0 /\ ~workqueue.busy
        /\ workqueue' = [workqueue EXCEPT !.up = FALSE]
     \/ /\ Call("flush_workqueue") /\ ~workqueue.up
        /\ stage' = "oops" /\ UNCHANGED <<todo, workqueue>>
  /\ UNCHANGED <<driver, pins, lit, timer, tasklet, irq, thread, device,
                 is_detect, light_status, detections, faults>>

(* The calls for each thread.                                               *)
Create == [a |-> "kthread_create_a", b |-> "kthread_create_b"]
Stop == [a |-> "kthread_stop_a", b |-> "kthread_stop_b"]

(* kthread_create and wake_up_process, of NULL when there is no thread; and *)
(* kthread_stop, which tells the thread and waits for its end.              *)
KthreadCall(k) ==
  /\ \/ /\ Call(Create[k]) /\ Return
        /\ thread' = [thread EXCEPT ![k] = "up"]
     \/ /\ Call(Create[k])
        /\ stage' = "oops" /\ UNCHANGED <<todo, thread>>
     \/ /\ Call(Stop[k]) /\ thread[k] = "up"
        /\ thread' = [thread EXCEPT ![k] = "told"] /\ UNCHANGED <<stage, todo>>
     \/ /\ Call(Stop[k]) /\ thread[k] \in {"none", "ended"} /\ Return
        /\ UNCHANGED thread
  /\ UNCHANGED <<driver, pins, lit, timer, tasklet, irq, workqueue, device,
                 is_detect, light_status, detections, faults>>

Cdev ==
  /\ \/ Call("cdev_add") /\ device' = [device EXCEPT !.there = TRUE]
     \/ Call("cdev_del") /\ device' = [device EXCEPT !.there = FALSE]
  /\ Return
  /\ UNCHANGED <<driver, pins, lit, timer, tasklet, irq, workqueue, thread,
                 is_detect, light_status, detections, faults>>

(* The end of init and of exit; and rmmod, at any time after init.          *)
Ends ==
  /\ stage \in {"init", "exit"} /\ todo = <<>>
  /\ stage' = IF stage = "init" THEN "loaded" ELSE "unloaded"
  /\ UNCHANGED <<driver, todo, state>>

WorkExit ==
  /\ stage = "loaded"
  /\ stage' = "exit" /\ todo' = ExitCalls[driver]
  /\ UNCHANGED <<driver, state>>

WorkCall ==
  \/ AddTimer \/ DelTimer \/ TaskletCall \/ RequestIrq \/ StopIrq \/ Gpio
  \/ WorkqueueCall \/ (\E k \in {"a", "b"} : KthreadCall(k)) \/ Cdev \/ Ends

-----------------------------------------------------------------------------
(* What runs beside them.  A write of an LED that the driver does not hold  *)
(* is remembered with the stage it came in.                                 *)
Present == stage # "unloaded"
UnheldIn == [init |-> "unheld_in_init", loaded |-> "unheld_in_loaded",
             exit |-> "unheld_in_exit", oops |-> "unheld_in_oops"]
Unheld == IF "leds" \in pins THEN {} ELSE {UnheldIn[stage]}

TimerStep(at) == timer' = [timer EXCEPT !.at = at]

(* ch3's function: the lamp and light_status follow is_detect, which a lit  *)
(* lamp uses up.  A handler on another CPU can come between any two of them.*)
Ch3Timer ==
  /\ driver = "ch3"
  /\ \/ /\ timer.at = "func" /\ TimerStep(IF is_detect = 1 THEN "on" ELSE "off")
        /\ lit' = IF is_detect = 1 THEN {"LED1"} ELSE {}
        /\ faults' = faults \cup Unheld
        /\ UNCHANGED <<is_detect, light_status>>
     \/ /\ timer.at = "on" /\ TimerStep("clear")
        /\ light_status' = 1 /\ UNCHANGED <<lit, is_detect, faults>>
     \/ /\ timer.at = "clear" /\ TimerStep("arm")
        /\ is_detect' = 0 /\ UNCHANGED <<lit, light_status, faults>>
     \/ /\ timer.at = "off" /\ TimerStep("arm")
        /\ light_status' = 0 /\ UNCHANGED <<lit, is_detect, faults>>

(* ch2's lights one of three LEDs, as tick_tock tells.                      *)
Ch2Timer ==
  /\ driver = "ch2" /\ timer.at = "func" /\ TimerStep("arm")
  /\ \E led \in {"LED1", "LED2", "LED3"} : lit' = {led}
  /\ faults' = faults \cup Unheld
  /\ UNCHANGED <<is_detect, light_status>>

(* Every function ends by adding its timer again.                           *)
TimerRuns ==
  /\ Present
  /\ \/ Ch3Timer \/ Ch2Timer
     \/ /\ driver = "simple_timer" /\ timer.at = "func" /\ TimerStep("arm")
        /\ UNCHANGED <<lit, is_detect, light_status, faults>>
     \/ /\ timer.at = "arm" /\ timer' = [pending |-> TRUE, at |-> "idle"]
        /\ UNCHANGED <<lit, is_detect, light_status, faults>>
  /\ UNCHANGED <<driver, stage, todo, pins, tasklet, irq, workqueue, thread, device,
                 detections>>

TimerFires ==
  /\ Present /\ timer.pending /\ timer.at = "idle"
  /\ timer' = [pending |-> FALSE, at |-> "func"]
  /\ faults' = IF irq.at = "idle" THEN faults ELSE faults \cup {"crossed"}
  /\ UNCHANGED <<driver, stage, todo, pins, lit, tasklet, irq, workqueue, thread,
                 device, is_detect, light_status, detections>>

(* A mutant of Noted: only a dark lamp has it noted.                        *)
NotedInTheDark == IF driver = "ch3" /\ light_status = 0 THEN 1 ELSE is_detect

Noted == IF driver = "ch3" THEN 1 ELSE is_detect

(* Whether exit has made a call of it.                                      *)
Done(name) == stage = "exit" /\ \A i \in 1..Len(todo) : todo[i] # name

(* The handler: ch3's notes the detection and, in a second step, puts a lit *)
(* lamp out; a tasklet is scheduled; work is queued if memory can be had.   *)
Detect ==
  /\ Present /\ irq.requested /\ irq.depth = 0 /\ irq.at = "idle"
  /\ detections < MaxDetections /\ detections' = detections + 1
  /\ irq' = IF driver = "ch3" THEN [irq EXCEPT !.at = "look"] ELSE irq
  /\ is_detect' = Noted
  /\ tasklet' = IF driver = "pir_tasklet" THEN [tasklet EXCEPT !.scheduled = TRUE]
                                          ELSE tasklet
  /\ workqueue' \in IF workqueue.up THEN {workqueue, [workqueue EXCEPT !.queued = @ + 1]}
                                    ELSE {workqueue}
  /\ faults' = faults \cup (IF driver = "ch3" /\ timer.at # "idle" THEN {"crossed"} ELSE {})
                      \cup (IF driver = "pir_tasklet" /\ Done("tasklet_kill")
                            THEN {"late_tasklet"} ELSE {})
  /\ UNCHANGED <<driver, stage, todo, pins, lit, timer, thread, device, light_status>>

Ch3Isr ==
  /\ Present /\ irq.at = "look" /\ irq' = [irq EXCEPT !.at = "idle"]
  /\ IF light_status = 1 THEN lit' = {} /\ faults' = faults \cup Unheld
                         ELSE UNCHANGED <<lit, faults>>
  /\ UNCHANGED <<driver, stage, todo, pins, timer, tasklet, workqueue, thread, device,
                 is_detect, light_status, detections>>

TaskletRuns ==
  /\ Present
  /\ \/ /\ tasklet.scheduled /\ ~tasklet.running
        /\ tasklet' = [scheduled |-> FALSE, running |-> TRUE]
     \/ tasklet.running /\ tasklet' = [tasklet EXCEPT !.running = FALSE]
  /\ UNCHANGED <<driver, stage, todo, pins, lit, timer, irq, workqueue, thread, device,
                 is_detect, light_status, detections, faults>>

Toggled(led) == IF led \in lit THEN lit \ {led} ELSE lit \cup {led}

(* A worker takes what is queued and, in ch5, toggles LED1; then it frees   *)
(* the work.                                                                *)
WorkerRuns ==
  /\ Present
  /\ \/ /\ workqueue.queued > 0 /\ ~workqueue.busy
        /\ workqueue' = [workqueue EXCEPT !.queued = @ - 1, !.busy = TRUE]
        /\ UNCHANGED <<lit, faults>>
     \/ /\ workqueue.busy /\ workqueue' = [workqueue EXCEPT !.busy = FALSE]
        /\ IF driver = "ch5" THEN lit' = Toggled("LED1") /\ faults' = faults \cup Unheld
                             ELSE UNCHANGED <<lit, faults>>
  /\ UNCHANGED <<driver, stage, todo, pins, timer, tasklet, irq, thread, device,
                 is_detect, light_status, detections>>

(* A mutant of ThreadEnds: nobody asks whether the thread should stop.      *)
ThreadSticks(k) == Present /\ thread[k] = "told" /\ UNCHANGED workVars

(* A thread ends when it finds itself told to stop; a turn of its loop that *)
(* began earlier may come first.                                            *)
ThreadEnds(k) ==
  /\ Present /\ thread[k] = "told" /\ thread' = [thread EXCEPT ![k] = "ended"]
  /\ UNCHANGED <<driver, stage, todo, pins, lit, timer, tasklet, irq, workqueue, device,
                 is_detect, light_status, detections, faults>>

(* A turn of a thread's loop: in ch5 it toggles its LED.                    *)
ThreadLoops(k) ==
  /\ Present /\ driver = "ch5" /\ thread[k] \in {"up", "told"}
  /\ lit' = Toggled(IF k = "a" THEN "LED2" ELSE "LED3")
  /\ faults' = faults \cup Unheld
  /\ UNCHANGED <<driver, stage, todo, pins, timer, tasklet, irq, workqueue, thread,
                 device, is_detect, light_status, detections>>

(* open and release: enable_irq and disable_irq.  An enable that finds the  *)
(* interrupt enabled, or not requested yet, only warns.                     *)
Open ==
  /\ Present /\ device.there /\ device.opens < MaxOpens
  /\ device' = [device EXCEPT !.opens = @ + 1]
  /\ IF irq.requested /\ irq.depth > 0
     THEN irq' = [irq EXCEPT !.depth = @ - 1] /\ UNCHANGED faults
     ELSE faults' = faults \cup {"unbalanced"} /\ UNCHANGED irq
  /\ UNCHANGED <<driver, stage, todo, pins, lit, timer, tasklet, workqueue, thread,
                 is_detect, light_status, detections>>

Release ==
  /\ Present /\ device.opens > 0 /\ irq.at = "idle"
  /\ device' = [device EXCEPT !.opens = @ - 1]
  /\ irq' = IF irq.requested THEN [irq EXCEPT !.depth = @ + 1] ELSE irq
  /\ UNCHANGED <<driver, stage, todo, pins, lit, timer, tasklet, workqueue, thread,
                 is_detect, light_status, detections, faults>>

WorkNext ==
  \/ WorkCall \/ WorkExit
  \/ TimerFires \/ TimerRuns \/ Detect \/ Ch3Isr \/ TaskletRuns \/ WorkerRuns
  \/ \E k \in {"a", "b"} : ThreadEnds(k) \/ ThreadLoops(k)
  \/ Open \/ Release

(* What runs goes on, and what is scheduled runs; nobody has to open the    *)
(* device, unload the driver or pass the sensor.                            *)
WorkFairness ==
  /\ WF_workVars(WorkCall) /\ WF_workVars(TimerRuns) /\ WF_workVars(Ch3Isr)
  /\ WF_workVars(TaskletRuns) /\ WF_workVars(WorkerRuns)
  /\ \A k \in {"a", "b"} : WF_workVars(ThreadEnds(k))

WorkSpec == WorkInit /\ [][WorkNext]_workVars /\ WorkFairness

-----------------------------------------------------------------------------
WorkTypeOK ==
  /\ driver \in Drivers \cup {"none"}
  /\ stage \in {"init", "loaded", "exit", "unloaded", "oops"}
  /\ pins \subseteq {"sensor", "leds"} /\ lit \subseteq {"LED1", "LED2", "LED3"}
  /\ timer \in [pending : BOOLEAN, at : {"idle", "func", "on", "off", "clear", "arm"}]
  /\ tasklet \in [scheduled : BOOLEAN, running : BOOLEAN]
  /\ irq \in [requested : BOOLEAN, depth : Nat, at : {"idle", "look"}]
  /\ workqueue \in [up : BOOLEAN, queued : 0..MaxDetections, busy : BOOLEAN]
  /\ thread \in [{"a", "b"} -> {"none", "up", "told", "ended"}]
  /\ device \in [there : BOOLEAN, opens : 0..MaxOpens]
  /\ is_detect \in {0, 1} /\ light_status \in {0, 1}

(* After exit nothing is left that would call into the driver, but a timer  *)
(* whose function was running when exit deleted the timer, and a tasklet    *)
(* that the interrupt scheduled after exit had killed the tasklet.          *)
NothingOutlives ==
  stage = "unloaded" =>
    /\ timer.pending \/ timer.at # "idle" => "late_timer" \in faults
    /\ tasklet.scheduled \/ tasklet.running => "late_tasklet" \in faults
    /\ ~irq.requested /\ irq.at = "idle"
    /\ workqueue.queued = 0 /\ ~workqueue.busy
    /\ \A k \in {"a", "b"} : thread[k] \in {"none", "ended"}

(* No LED is written that the driver does not hold: ch2 and ch5, whose exit *)
(* frees the LEDs first, can do so in exit only, ch5 in init also, whose    *)
(* interrupt comes before the LEDs; and ch3 only if a timer was late.       *)
LedsHeld ==
  /\ driver = "ch3" /\ "unheld_in_exit" \in faults => "late_timer" \in faults
  /\ "unheld_in_init" \in faults => driver = "ch5"
  /\ "unheld_in_loaded" \notin faults

(* ch3 leaves the lamp off behind, unless a timer was late.                 *)
LampOut ==
  driver = "ch3" /\ stage = "unloaded" /\ "late_timer" \notin faults => lit = {}

(* ch3: light_status is wrong about the lamp only from a detection to the   *)
(* next tick, as long as handler and timer function do not overlap.         *)
LampAgrees ==
  timer.at = "idle" /\ irq.at = "idle" /\ stage = "loaded" /\ driver = "ch3"
    /\ "crossed" \notin faults =>
      is_detect = 1 \/ ((light_status = 1) <=> (lit = {"LED1"}))

(* week6 and ch3: the sensor can interrupt while the device is open, and    *)
(* only then; unless it is opened twice, or before init has gone on.        *)
SensorGate ==
  driver \in {"week6", "ch3"} /\ stage = "loaded" /\ irq.requested =>
    /\ irq.depth = 0 => device.opens > 0
    /\ device.opens > 0 => irq.depth = 0 \/ "unbalanced" \in faults

(* exit ends: all that it waits for comes to an end, but flush_workqueue of *)
(* a queue that was never there.                                            *)
ExitEnds == stage = "exit" ~> stage \in {"unloaded", "oops"}
=============================================================================
