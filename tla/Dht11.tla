-------------------------------- MODULE Dht11 --------------------------------
(***************************************************************************)
(* The humidity sensor of week10/dht11/dht11.c: dht11_read times the       *)
(* pulses of a frame and takes its bits from the lengths of the high ones. *)
(*                                                                         *)
(* A frame is a sequence of pulses, high and low in turn: the line before  *)
(* the sensor answers, its answer (low, high, low), a high pulse for every *)
(* bit with a low one behind it, and the idle line.  The line, external,   *)
(* may have noise; and the loop, whose iterations nothing protects from an *)
(* interrupt, may misread a length or miss pulses.  It reads the line twice*)
(* for a pulse: in the while loop, and once more for last_state.           *)
(***************************************************************************)
EXTENDS Integers, Sequences

CONSTANTS
  Bytes,      \* bytes in a frame; the last one is the sum of the others
  Width,      \* bits in a byte
  Faults      \* a bound: so many disturbances in a frame

ASSUME DhtAssumption == Bytes \in Nat \ {0, 1} /\ Width \in Nat \ {0} /\ Faults \in Nat

Bits == Bytes * Width
MAX_TIMING == 2 * Bits + 5   \* 85, for 5 bytes of 8 bits

VARIABLES
  dhtStage,   \* "absent" (the module), "idle", "reading", "done"
  sent,       \* the bytes of the frame, or << >>: the sensor is silent
  pulse,      \* pulses of the frame that are over
  split,      \* a pulse of noise is to follow
  dhtI, dhtJ, \* i and j of dht11_read
  dht11_data,
  overrun,    \* history: a bit was stored behind dht11_data
  disturbed   \* history: bits misread, pulses lost, and pulses with noise

dhtVars == <<dhtStage, sent, pulse, split, dhtI, dhtJ, dht11_data, overrun, disturbed>>

(* 1 << n                                                                   *)
Pow2[n \in 0..Width] == IF n = 0 THEN 1 ELSE 2 * Pow2[n - 1]

Byte == 0 .. Pow2[Width] - 1
Undisturbed == [misread |-> 0, lost |-> 0, noise |-> 0]
Total(d) == d.misread + d.lost + d.noise

(* What dht11_data must add up to.                                          *)
Sums(data) == LET sum[k \in 0 .. Bytes - 1] == IF k = 0 THEN 0 ELSE sum[k - 1] + data[k]
              IN  sum
CheckSum(data) == Sums(data)[Bytes - 1] % Pow2[Width]

Frames == {data \in [1..Bytes -> Byte] : data[Bytes] = CheckSum(data)}

DhtStart(dht) ==
  /\ dhtStage = dht
  /\ sent = << >> /\ pulse = 0 /\ split = FALSE
  /\ dhtI = 0 /\ dhtJ = 0
  /\ dht11_data = [k \in 1..Bytes |-> 0]
  /\ overrun = FALSE
  /\ disturbed = Undisturbed

DhtInit == DhtStart("idle")

-----------------------------------------------------------------------------
(* dht11_read clears its data and wakes the sensor.                         *)
DhtWake ==
  /\ dhtStage \in {"idle", "done"} /\ dhtStage' = "reading"
  /\ sent' \in Frames \cup {<< >>}
  /\ pulse' = 0 /\ split' = FALSE
  /\ dhtI' = 0 /\ dhtJ' = 0
  /\ dht11_data' = [k \in 1..Bytes |-> 0]
  /\ disturbed' = Undisturbed /\ overrun' = FALSE

(* The pulse that is on the line: whether it does not end within 255 turns  *)
(* of the loop, and what its length is taken for.  Low pulses are long.     *)
Idle255 == pulse >= 4 + 2 * Bits \/ sent = << >>

IsBit(i) == i >= 4 /\ i % 2 = 0
BitOnLine == LET b == (pulse - 4) \div 2
             IN  (sent[(b \div Width) + 1] \div Pow2[Width - 1 - (b % Width)]) % 2
Timed == IF IsBit(pulse) THEN BitOnLine ELSE 1

(* A mutant of Stored: the sensor's answer is taken for a bit.              *)
StoredEarly(bit) ==
  IF dhtI >= 2 /\ dhtI % 2 = 0
  THEN /\ dhtJ' = dhtJ + 1
       /\ overrun' = (overrun \/ dhtJ >= Bits)
       /\ dht11_data' = IF dhtJ >= Bits THEN dht11_data
                        ELSE [dht11_data EXCEPT ![(dhtJ \div Width) + 1] = 2 * @ + bit]
  ELSE UNCHANGED <<dhtJ, overrun, dht11_data>>

(* The bit goes into the byte that j says, which may not be there.          *)
Stored(bit) ==
  IF IsBit(dhtI)
  THEN /\ dhtJ' = dhtJ + 1
       /\ overrun' = (overrun \/ dhtJ >= Bits)
       /\ dht11_data' = IF dhtJ >= Bits THEN dht11_data
                        ELSE [dht11_data EXCEPT ![(dhtJ \div Width) + 1] = 2 * @ + bit]
  ELSE UNCHANGED <<dhtJ, overrun, dht11_data>>

Looping == dhtStage = "reading" /\ dhtI < MAX_TIMING
Disturb(kind, n) == /\ Total(disturbed) + n <= Faults
                    /\ disturbed' = [disturbed EXCEPT ![kind] = @ + n]

(* A turn of the outer loop that times one pulse of the frame.              *)
DhtPulse ==
  /\ Looping /\ ~Idle255 /\ ~split
  /\ dhtI' = dhtI + 1 /\ pulse' = pulse + 1
  /\ \/ Stored(Timed) /\ UNCHANGED disturbed
     \/ IsBit(dhtI) /\ Stored(1 - Timed) /\ Disturb("misread", 1)
  /\ UNCHANGED <<dhtStage, sent, split>>

(* A turn that is held up while n more pulses pass: between two readings of *)
(* the while loop, which then times the pulses it did see for one, or       *)
(* between its last reading (line 32) and the one for last_state (39), which*)
(* loses an odd number as well: from then on the turns that store a bit     *)
(* time low pulses.                                                         *)
DhtLose ==
  /\ Looping /\ ~Idle255 /\ ~split
  /\ \E n \in 1 .. 3 + 2 * Bits - pulse : pulse' = pulse + 1 + n /\ Disturb("lost", n)
  /\ dhtI' = dhtI + 1
  /\ \E bit \in {0, 1} : Stored(bit)
  /\ UNCHANGED <<dhtStage, sent, split>>

(* Noise cuts a pulse in two: the part before it, the noise, and the rest.  *)
DhtNoise ==
  /\ Looping
  /\ \/ ~split /\ split' = TRUE /\ Disturb("noise", 1)
     \/ split /\ split' = FALSE /\ UNCHANGED disturbed
  /\ \E bit \in {0, 1} : Stored(bit)
  /\ dhtI' = dhtI + 1
  /\ UNCHANGED <<dhtStage, sent, pulse>>

(* The loop ends, by its bound or by an idle line.                          *)
DhtDone ==
  /\ dhtStage = "reading"
  /\ dhtI = MAX_TIMING \/ (Idle255 /\ ~split)
  /\ dhtStage' = "done"
  /\ UNCHANGED <<sent, pulse, split, dhtI, dhtJ, dht11_data, overrun, disturbed>>

DhtNext == DhtWake \/ DhtPulse \/ DhtLose \/ DhtNoise \/ DhtDone

DhtSpec == DhtInit /\ [][DhtNext]_dhtVars

(* A mutant of Accepted: the number of bits is not looked at.               *)
AcceptedShort == dhtStage = "done" /\ dht11_data[Bytes] = CheckSum(dht11_data)

(* Whether dht11_read shows its data, or says they are not good.            *)
Accepted == dhtStage = "done" /\ dhtJ >= Bits /\ dht11_data[Bytes] = CheckSum(dht11_data)

-----------------------------------------------------------------------------
DhtTypeOK ==
  /\ dhtStage \in {"absent", "idle", "reading", "done"}
  /\ pulse \in 0 .. 5 + 2 * Bits
  /\ dhtI \in 0..MAX_TIMING /\ dhtJ \in 0..MAX_TIMING
  /\ dht11_data \in [1..Bytes -> Byte]

(* What is shown was sent, though one bit may have been misread, or any     *)
(* number of pulses but one lost: the sum finds the bit, the number of bits *)
(* the pulses.  A single pulse, lost between the readings of lines 32 and   *)
(* 39, leaves the number right: the bits behind it are the lengths of low   *)
(* pulses, and only the sum may find that.  Noise, which adds a bit, or a   *)
(* second misreading can deceive both.                                      *)
DhtShowsSent ==
  /\ Accepted
  /\ disturbed.noise = 0 /\ disturbed.misread <= 1 /\ disturbed.lost # 1
  => dht11_data = sent

(* The loop has one more turn than the frame needs, so it can store a bit   *)
(* behind dht11_data; but only if the line was noisy.                       *)
DhtInBounds == overrun => disturbed.noise > 0
=============================================================================
