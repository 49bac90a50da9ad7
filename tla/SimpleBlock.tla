----------------------------- MODULE SimpleBlock -----------------------------
(***************************************************************************)
(* The blocking producer and consumer of week7: simple_block.c, and the    *)
(* exercise of chapter 4, whose read waits for a limited time.  A reader   *)
(* tests my_data without the lock that its writers take.                   *)
(*                                                                         *)
(* A critical section is one step: my_data is written in one only.         *)
(***************************************************************************)
EXTENDS Integers, FiniteSets

CONSTANTS
  Consumers,  \* threads that call read
  Producers,  \* threads that call write
  MaxData     \* a bound: nobody produces when there are so many data

ASSUME BlockAssumption ==
  /\ IsFiniteSet(Consumers) /\ Consumers # {}
  /\ Consumers \cap Producers = {}
  /\ MaxData \in Nat

VARIABLES
  blockDriver,  \* "simple_block" or "ch4", whose wait times out, or "none"
  blockModule,  \* "adding" from cdev_add to the end of init, "loaded", "unloaded"
  my_data,
  blockPc,      \* where each thread is
  overlapped    \* history: a reader passed its test when another had passed it
                \* and not yet consumed

blockVars == <<blockDriver, blockModule, my_data, blockPc, overlapped>>

BlockThreads == Consumers \cup Producers

BlockStart(driver) ==
  /\ blockDriver = driver
  /\ blockModule = IF driver = "none" THEN "unloaded" ELSE "adding"
  /\ my_data = 0
  /\ blockPc = [t \in BlockThreads |-> "idle"]
  /\ overlapped = FALSE

BlockInit == \E driver \in {"simple_block", "ch4"} : BlockStart(driver)

-----------------------------------------------------------------------------
BlockAt(t, label) == blockModule # "unloaded" /\ blockPc[t] = label
BlockGoto(t, label) == blockPc' = [blockPc EXCEPT ![t] = label]

(* The readers between their test and their critical section.               *)
PastTest == {r \in Consumers : blockPc[r] = "lock"}

Pass(r) ==
  /\ my_data > 0
  /\ BlockGoto(r, "lock")
  /\ overlapped' = (overlapped \/ PastTest # {})

(* wait_event: the first test, and the last one before sleeping.  A reader  *)
(* cannot queue on a wait queue that init has not set up yet.               *)
Read(r) ==
  /\ BlockAt(r, "idle")
  /\ \/ Pass(r)
     \/ /\ my_data <= 0
        /\ BlockGoto(r, IF blockModule = "adding" THEN "oops" ELSE "asleep")
        /\ UNCHANGED overlapped
  /\ UNCHANGED <<blockDriver, blockModule, my_data>>

(* A mutant of Woken: it takes its wake-up for data.                        *)
WokenTrusting(r) ==
  /\ BlockAt(r, "woken")
  /\ BlockGoto(r, "lock")
  /\ overlapped' = (overlapped \/ PastTest # {})
  /\ UNCHANGED <<blockDriver, blockModule, my_data>>

(* A woken reader tests again.                                              *)
Woken(r) ==
  /\ BlockAt(r, "woken")
  /\ \/ Pass(r)
     \/ my_data <= 0 /\ BlockGoto(r, "asleep") /\ UNCHANGED overlapped
  /\ UNCHANGED <<blockDriver, blockModule, my_data>>

(* A mutant of Timeout: the wait is begun again.                            *)
TimeoutRetried(r) ==
  /\ blockDriver = "ch4"
  /\ BlockAt(r, "asleep") \/ BlockAt(r, "woken")
  /\ my_data > 0
  /\ Pass(r)
  /\ UNCHANGED <<blockDriver, blockModule, my_data>>

(* The two seconds, which a wake-up does not start again, are over: read    *)
(* returns -1, unless there are data by now.                                *)
Timeout(r) ==
  /\ blockDriver = "ch4"
  /\ BlockAt(r, "asleep") \/ BlockAt(r, "woken")
  /\ \/ Pass(r)
     \/ my_data <= 0 /\ BlockGoto(r, "idle") /\ UNCHANGED overlapped
  /\ UNCHANGED <<blockDriver, blockModule, my_data>>

(* The critical section of read; it returns what my_data is by then.        *)
Consume(r) ==
  /\ BlockAt(r, "lock")
  /\ my_data' = my_data - 1
  /\ BlockGoto(r, "idle")
  /\ UNCHANGED <<blockDriver, blockModule, overlapped>>

(* The critical section of write.                                           *)
Produce(w) ==
  /\ BlockAt(w, "idle")
  /\ my_data < MaxData
  /\ my_data' = my_data + 1
  /\ BlockGoto(w, "wake")
  /\ UNCHANGED <<blockDriver, blockModule, overlapped>>

(* A mutant of WakeUp: it wakes one of the sleepers.                        *)
WakeOne(w) ==
  /\ BlockAt(w, "wake")
  /\ blockPc' = LET asleep == {r \in Consumers : blockPc[r] = "asleep"}
                IN  IF blockModule = "adding" THEN [blockPc EXCEPT ![w] = "oops"]
                    ELSE IF asleep = {} THEN [blockPc EXCEPT ![w] = "idle"]
                    ELSE [blockPc EXCEPT ![w] = "idle",
                                         ![CHOOSE r \in asleep : TRUE] = "woken"]
  /\ UNCHANGED <<blockDriver, blockModule, my_data, overlapped>>

(* wake_up: every sleeper, for none of them is exclusive.                   *)
WakeUp(w) ==
  /\ BlockAt(w, "wake")
  /\ blockPc' = [t \in BlockThreads |->
                   IF t = w THEN IF blockModule = "adding" THEN "oops" ELSE "idle"
                   ELSE IF blockPc[t] = "asleep" THEN "woken" ELSE blockPc[t]]
  /\ UNCHANGED <<blockDriver, blockModule, my_data, overlapped>>

(* The end of init, after which the wait queue is there; and exit, which no *)
(* open file holds up: what is still in a call then has no code to run.     *)
BlockLoaded ==
  /\ blockModule = "adding" /\ blockModule' = "loaded"
  /\ UNCHANGED <<blockDriver, my_data, blockPc, overlapped>>

BlockExit ==
  /\ blockModule = "loaded" /\ blockModule' = "unloaded"
  /\ UNCHANGED <<blockDriver, my_data, blockPc, overlapped>>

BlockNext ==
  \/ \E r \in Consumers : Read(r) \/ Woken(r) \/ Timeout(r) \/ Consume(r)
  \/ \E w \in Producers : Produce(w) \/ WakeUp(w)
  \/ BlockLoaded \/ BlockExit

(* Threads that can run do, and time goes on; nobody has to call.           *)
BlockFairness ==
  /\ \A r \in Consumers : /\ WF_blockVars(Woken(r) \/ Consume(r))
                          /\ WF_blockVars(Timeout(r))
  /\ \A w \in Producers : WF_blockVars(WakeUp(w))

BlockSpec == BlockInit /\ [][BlockNext]_blockVars /\ BlockFairness

-----------------------------------------------------------------------------
BlockTypeOK ==
  /\ blockDriver \in {"simple_block", "ch4", "none"}
  /\ blockModule \in {"adding", "loaded", "unloaded"}
  /\ my_data \in Int
  /\ blockPc \in [BlockThreads -> {"idle", "asleep", "woken", "lock", "wake", "oops"}]
  /\ overlapped \in BOOLEAN

(* The test and the decrement are not one step, so two readers can take one *)
(* item and my_data, the result of either, falls below zero; but only if    *)
(* their tests overlapped, and by less than there are readers.  Those past  *)
(* their test have their decrement to come.                                 *)
BlockDebt ==
  my_data - Cardinality(PastTest) >= IF overlapped THEN 1 - Cardinality(Consumers) ELSE 0

(* No reader sleeps on data that no writer is about to wake it for: a test  *)
(* is repeated after the reader has queued.                                 *)
BlockSleepersWoken ==
  my_data > 0 /\ (\E r \in Consumers : blockPc[r] = "asleep") =>
    \E w \in Producers : blockPc[w] = "wake"

(* Chapter 4: a read returns, with data or without, or its module is gone.  *)
BlockReadReturns ==
  \A r \in Consumers : blockDriver = "ch4" /\ blockPc[r] = "asleep" ~>
                         blockPc[r] = "idle" \/ blockModule = "unloaded"
=============================================================================
