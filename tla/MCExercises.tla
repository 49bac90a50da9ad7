---------------------------- MODULE MCExercises ------------------------------
(***************************************************************************)
(* The exercises side by side: in each behaviour one of them is loaded, and *)
(* the others are not there.  They share nothing, so what one behaves like *)
(* does not depend on the others.                                          *)
(***************************************************************************)
EXTENDS SimpleBlock, SimpleSpin, SimpleRcu, DeferredWork, Dht11, StepMotor, SharedCounter

AllDrivers == {"simple_timer", "ch2", "ch3", "week6", "simple_tasklet",
               "pir_tasklet", "kthreadNworkq", "ch5"}

vars == <<blockVars, spinVars, rcuVars, workVars, dhtVars, motorVars, counterVars>>

NoBlock == BlockStart("none")
NoSpin == SpinStart("absent")
NoRcu == RcuStart("absent")
NoWork == WorkStart("none")
NoDht == DhtStart("absent")
NoMotor == MotorStart("none")
NoCounter == CounterStart({"absent"})

Init ==
  \/ BlockInit /\ NoSpin /\ NoRcu /\ NoWork /\ NoDht /\ NoMotor /\ NoCounter
  \/ NoBlock /\ SpinInit /\ NoRcu /\ NoWork /\ NoDht /\ NoMotor /\ NoCounter
  \/ NoBlock /\ NoSpin /\ RcuInit /\ NoWork /\ NoDht /\ NoMotor /\ NoCounter
  \/ NoBlock /\ NoSpin /\ NoRcu /\ WorkInit /\ NoDht /\ NoMotor /\ NoCounter
  \/ NoBlock /\ NoSpin /\ NoRcu /\ NoWork /\ DhtInit /\ NoMotor /\ NoCounter
  \/ NoBlock /\ NoSpin /\ NoRcu /\ NoWork /\ NoDht /\ MotorInit /\ NoCounter
  \/ NoBlock /\ NoSpin /\ NoRcu /\ NoWork /\ NoDht /\ NoMotor /\ CounterInit

Next ==
  \/ BlockNext /\ UNCHANGED <<spinVars, rcuVars, workVars, dhtVars, motorVars, counterVars>>
  \/ SpinNext /\ UNCHANGED <<blockVars, rcuVars, workVars, dhtVars, motorVars, counterVars>>
  \/ RcuNextStep /\ UNCHANGED <<blockVars, spinVars, workVars, dhtVars, motorVars, counterVars>>
  \/ WorkNext /\ UNCHANGED <<blockVars, spinVars, rcuVars, dhtVars, motorVars, counterVars>>
  \/ DhtNext /\ UNCHANGED <<blockVars, spinVars, rcuVars, workVars, motorVars, counterVars>>
  \/ MotorNext /\ UNCHANGED <<blockVars, spinVars, rcuVars, workVars, dhtVars, counterVars>>
  \/ CounterNext /\ UNCHANGED <<blockVars, spinVars, rcuVars, workVars, dhtVars, motorVars>>

Spec == Init /\ [][Next]_vars /\ BlockFairness /\ WorkFairness

-----------------------------------------------------------------------------
(* Every variable of the exercise that is loaded has its type.              *)
ExercisesTypeOK ==
  BlockTypeOK /\ SpinTypeOK /\ RcuTypeOK /\ WorkTypeOK /\ DhtTypeOK /\ MotorTypeOK
    /\ CounterTypeOK
=============================================================================
