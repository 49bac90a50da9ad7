------------------------------ MODULE StepMotor ------------------------------
(***************************************************************************)
(* The stepping motor of week11: stepping_motor.c and the copy of it under *)
(* temp.  init turns the motor to and fro through half steps, and sets the *)
(* four pins of its coils one after another for each of them.              *)
(***************************************************************************)
EXTENDS Integers, Sequences

CONSTANT Turns   \* a bound: what 512 turns of the table are here

ASSUME MotorAssumption == Turns \in Nat \ {0}

STEPS == 8

VARIABLES
  motorDriver,  \* "stepping_motor", "temp", or "none"
  moves,        \* the calls of forward and backward that init has yet to make
  halfSteps,    \* half steps of the first of them that are over
  pin,          \* the pin that is set next
  energised,    \* the coils that are on
  rotor         \* history: half steps that the rotor has turned

motorVars == <<motorDriver, moves, halfSteps, pin, energised, rotor>>

-----------------------------------------------------------------------------
(* A mutant of Steps: the fourth coil follows the second.                   *)
StepsSwapped == << {1}, {1, 2}, {2}, {2, 4}, {4}, {3, 4}, {3}, {1, 3} >>

(* The tables: the coils that are on in each phase.                         *)
Steps == << {1}, {1, 2}, {2}, {2, 3}, {3}, {3, 4}, {4}, {1, 4} >>
TempSteps == << {1, 4}, {4}, {3, 4}, {3}, {2, 3}, {2}, {1, 2}, {1} >>

Table == IF motorDriver = "temp" THEN TempSteps ELSE Steps

forward(round) == [by |-> 1, n |-> Turns * round * STEPS]
backward(round) == [by |-> -1, n |-> Turns * round * STEPS]

moveDegree(degree, direction) ==
  CASE direction = 0 -> forward(degree)
    [] direction = 1 -> backward(degree)
    [] OTHER -> [by |-> 1, n |-> 0]

InitMoves == <<forward(5), forward(5), backward(5), backward(5),
               moveDegree(5, 0), moveDegree(5, 1)>>
TempMoves == <<forward(1), backward(1)>>
Moves == CASE motorDriver = "stepping_motor" -> InitMoves
           [] motorDriver = "temp" -> TempMoves
           [] OTHER -> << >>

MotorStart(name) ==
  /\ motorDriver = name
  /\ moves = Moves
  /\ halfSteps = 0 /\ pin = 1
  /\ energised = {}
  /\ rotor = 0

MotorInit == \E name \in {"stepping_motor", "temp"} : MotorStart(name)

-----------------------------------------------------------------------------
(* The k-th of the directions that the field of the coils can have: that of *)
(* a coil, or between two neighbours.                                       *)
Coils(k) == {(k \div 2) + 1, (((k + 1) \div 2) % 4) + 1}
Turned(from, to, by) == \E k \in 0 .. STEPS - 1 : from = Coils(k) /\ to = Coils((k + by) % STEPS)

(* The rotor follows a field that turns by one half step, and stays behind  *)
(* one that turns by more.                                                  *)
RotorTurns(to) == IF Turned(energised, to, 1) THEN 1
                  ELSE IF Turned(energised, to, STEPS - 1) THEN -1 ELSE 0

(* j of forward runs up, and j of backward down.                            *)
Phase == LET j == halfSteps % STEPS
         IN  Table[IF Head(moves).by = 1 THEN j + 1 ELSE STEPS - j]

(* The first half step brings the rotor to wherever it starts from.         *)
Homing == moves = Moves /\ halfSteps = 0

(* A gpio_set_value of setStep; behind the last one, the next j.            *)
setStep ==
  /\ moves # << >> /\ halfSteps < Head(moves).n
  /\ energised' = IF pin \in Phase THEN energised \cup {pin} ELSE energised \ {pin}
  /\ rotor' = IF Homing THEN 0 ELSE rotor + RotorTurns(energised')
  /\ pin' = (pin % 4) + 1
  /\ halfSteps' = IF pin = 4 THEN halfSteps + 1 ELSE halfSteps
  /\ UNCHANGED <<motorDriver, moves>>

NextMove ==
  /\ moves # << >> /\ halfSteps = Head(moves).n
  /\ moves' = Tail(moves) /\ halfSteps' = 0
  /\ UNCHANGED <<motorDriver, pin, energised, rotor>>

(* exit, which switches the coils off, but not under temp.                  *)
MotorExit ==
  /\ motorDriver \in {"stepping_motor", "temp"} /\ moves = << >>
  /\ energised' = IF motorDriver = "temp" THEN energised ELSE {}
  /\ motorDriver' = "none"
  /\ UNCHANGED <<moves, halfSteps, pin, rotor>>

MotorNext == setStep \/ NextMove \/ MotorExit

MotorSpec == MotorInit /\ [][MotorNext]_motorVars

-----------------------------------------------------------------------------
MotorTypeOK ==
  /\ motorDriver \in {"stepping_motor", "temp", "none"}
  /\ halfSteps \in Nat /\ pin \in 1..4
  /\ energised \subseteq 1..4 /\ rotor \in Int

(* The pins are set one by one, forward follows backward in any order, and  *)
(* the tables are read round: the field never vanishes, splits or turns by  *)
(* more than a half step, so the rotor stays under it; and init leaves the  *)
(* rotor where its first half step had brought it.                          *)
MotorInStep ==
  motorDriver # "none" =>
    /\ Homing \/ \E k \in 0 .. STEPS - 1 :
                   /\ Table[1] = Coils(k)
                   /\ energised = Coils((k + rotor) % STEPS)
    /\ moves = << >> => rotor = 0
=============================================================================
