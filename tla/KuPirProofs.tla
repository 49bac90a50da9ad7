----------------------------- MODULE KuPirProofs -----------------------------
(***************************************************************************)
(* Theorems about the motion-sensor driver, for any number of threads,     *)
(* descriptors and entries.                                                *)
(***************************************************************************)
EXTENDS KuPir, TLAPS

(***************************************************************************)
(* Where an actor may be in what it runs, and what its frame holds there.  *)
(***************************************************************************)
InLoop == {"walk", "unlink", "free"}
InDrop == InLoop \cup {"dec", "dec2"}
InAdd == {"add", "add2", "add3", "inc", "inc2", "wake"}
Leaving == {"release", "sync"}

Placed(fr) ==
  /\ fr.op = "read" => fr.at \in {"read", "wait", "asleep", "pick", "copy"} \cup InDrop \cup Leaving
  /\ fr.op = "write" => fr.at \in {"write", "full"} \cup InDrop \cup InAdd \cup Leaving
  /\ fr.op = "KU_OPEN" => fr.at \in {"find", "take", "init", "zero"} \cup Leaving
  /\ fr.op = "KU_CLOSE" => fr.at \in {"close", "zero"} \cup InLoop \cup Leaving
  /\ fr.op = "KU_FLUSH" => fr.at \in {"init", "zero"} \cup InLoop \cup Leaving
  /\ fr.op = "isr" => fr.at \in {"fd", "next"} \cup InDrop \cup InAdd
  /\ fr.op = "exit" => fr.at \in {"next", "free_irq"} \cup InLoop
  /\ fr.op = "dead" => fr.at \in {"oops"} \cup Leaving

Owned(a, fr) ==
  /\ a = Isr => fr.op = "isr" \/ (fr.op = "dead" /\ fr.at = "oops")
  /\ a = Rmmod => fr.op = "exit" \/ (fr.op = "dead" /\ fr.at = "oops")
  /\ a \in Procs => fr.op \in Ops \cup {"dead"} /\ fr.at # "oops"

Holds(fr) ==
  /\ fr.at \in {"unlink", "free", "copy"} => fr.pos \in Cells
  /\ fr.at = "free" => fr.prv \in Cells /\ fr.nxt \in Cells
  /\ fr.at = "add2" => fr.prv \in Cells \cup {Poison}
  /\ fr.op = "isr" => fr.item \in Nodes
  /\ fr.op = "write" /\ fr.at \notin {"write"} \cup Leaving => fr.item \in Nodes

FrameOK(a, fr) ==
  \/ fr \in NoFrames
  \/ fr \in CallFrames /\ Placed(fr) /\ Owned(a, fr) /\ Holds(fr)

FramesOK == \A a \in Actors : FrameOK(a, pc[a])

(***************************************************************************)
(* The interrupt gate.  A thread that has called disable_irq keeps the     *)
(* device until the handler is over, but the interrupt no more: while it   *)
(* is enabled, some thread that has the device has not called it.  Init    *)
(* has enabled it too, until it disables it and waits for the handler.     *)
(***************************************************************************)
Enables(p) == pc[p].at \notin {"idle", "dead", "sync"}

GateHeld ==
  /\ module \notin {"request", "disable", "unloaded"} /\ depth = 0
       => \E p \in Procs : Enables(p)
  /\ module \in {"queues", "loaded", "exiting"} /\ pc[Isr] # Idle
       => \E p \in Procs : HasDevice(p)

IInv == TypeOK /\ FramesOK /\ GateHeld

(***************************************************************************)
(* Frames.                                                                 *)
(***************************************************************************)
LEMMA ActorsAre == /\ \A a \in Actors : a \in Procs \/ a = Isr \/ a = Rmmod
                   /\ Isr \in Actors /\ Rmmod \in Actors /\ Procs \subseteq Actors
                   /\ Isr \notin Procs /\ Rmmod \notin Procs /\ Isr # Rmmod
                   /\ 1 \in Fds
BY KuPirAssumption DEF Actors, Fds

LEMMA CellFacts == /\ Fds \subseteq Cells /\ Nodes \subseteq Cells
                   /\ Poison \notin Cells /\ 0 \notin Cells
                   /\ Fds \cap Nodes = {}
BY KuPirAssumption DEF Cells, Fds, Poison

(* An actor at a label of the code is in a frame that fits it.              *)
LEMMA Here ==
  ASSUME FramesOK, NEW a \in Actors, pc[a].at \notin {"idle", "dead"}
  PROVE  pc[a] \in CallFrames /\ Placed(pc[a]) /\ Owned(a, pc[a]) /\ Holds(pc[a])
BY DEF FramesOK, FrameOK, NoFrames

(* A step that moves one actor to another frame.                            *)
LEMMA Moved ==
  ASSUME TypeOK, FramesOK, NEW a \in Actors, NEW fr, FrameOK(a, fr), Become(a, fr)
  PROVE  /\ FramesOK' /\ pc' \in [Actors -> Frames]
         /\ pc'[a] = fr /\ \A b \in Actors \ {a} : pc'[b] = pc[b]
<1>1. fr \in Frames
  BY DEF FrameOK, Frames
<1>2. pc' \in [Actors -> Frames] /\ pc'[a] = fr /\ \A b \in Actors \ {a} : pc'[b] = pc[b]
  BY <1>1 DEF Become, TypeOK
<1>3. ASSUME NEW b \in Actors PROVE FrameOK(b, pc'[b])
  BY <1>2 DEF FramesOK
<1>4. FramesOK'
  BY <1>3 DEF FramesOK, FrameOK, Placed, Owned, Holds
<1> QED
  BY <1>2, <1>4

LEMMA GotoIsBecome ==
  ASSUME TypeOK, NEW a \in Actors, NEW l, Goto(a, l)
  PROVE  Become(a, [pc[a] EXCEPT !.at = l])
BY DEF Goto, Become, TypeOK

LEMMA OopsFrame ==
  ASSUME NEW a \in Actors
  PROVE  FrameOK(a, Frame(IF a \in Procs THEN "release" ELSE "oops", "dead", 1))
<1> DEFINE fr == Frame(IF a \in Procs THEN "release" ELSE "oops", "dead", 1)
<1>1. fr \in CallFrames
  BY ActorsAre DEF Frame, CallFrames, Labels
<1>2. Placed(fr) /\ Holds(fr)
  BY DEF Frame, Placed, Holds, Leaving
<1>3. Owned(a, fr)
  BY ActorsAre DEF Frame, Owned
<1> QED
  BY <1>1, <1>2, <1>3 DEF FrameOK

(***************************************************************************)
(* The steps on the lists: types and frames.                               *)
(***************************************************************************)
Framed == TypeOK /\ FramesOK

LEMMA AfterLoops ==
  /\ AfterLoop["read"] = "release" /\ AfterLoop["write"] = "add" /\ AfterLoop["isr"] = "add"
  /\ AfterLoop["KU_FLUSH"] = "init" /\ AfterLoop["KU_CLOSE"] = "zero" /\ AfterLoop["exit"] = "next"
BY DEF AfterLoop

LEMMA WalkFramed ==
  ASSUME Framed, NEW a \in Actors, Walk(a)
  PROVE  Framed'
<1> DEFINE fr == pc[a]
           f == fr.fd
           x == IF fr.q = 0 THEN next[f] ELSE fr.q
<1>1. /\ fr \in CallFrames /\ Placed(fr) /\ Owned(a, fr) /\ Holds(fr)
      /\ fr.at = "walk" /\ TypeOK /\ FramesOK
  BY Here DEF Walk, At, Framed
<1>2. f \in Fds /\ x \in Cells /\ next[x] \in Cells /\ next[x] # 0
  BY <1>1, CellFacts DEF CallFrames, TypeOK
<1>3. fr.op \in {"read", "write", "isr", "KU_FLUSH", "KU_CLOSE", "exit"}
  BY <1>1 DEF CallFrames, Placed, Ops, InLoop, InDrop, InAdd, Leaving
<1>4. ASSUME NEW l, l = AfterLoop[fr.op] PROVE FrameOK(a, [fr EXCEPT !.at = l, !.q = 0])
  <2> DEFINE to == [fr EXCEPT !.at = l, !.q = 0]
  <2>1. l \in {"release", "add", "init", "zero", "next"}
    BY <1>3, <1>4, AfterLoops
  <2>4. l \in Labels
    BY <2>1 DEF Labels
  <2>2. /\ to.at = l /\ to.op = fr.op /\ to.item = fr.item
        /\ to \in CallFrames
    BY <1>1, <2>4 DEF CallFrames
  <2>3. Placed(to)
    BY <1>3, <1>4, <2>2, AfterLoops DEF Placed, InAdd, Leaving, InLoop, InDrop
  <2> QED
    BY <1>1, <2>1, <2>2, <2>3 DEF FrameOK, Owned, Holds, Leaving
<1>5. FrameOK(a, [fr EXCEPT !.at = "unlink", !.pos = x, !.q = next[x]])
  <2> DEFINE to == [fr EXCEPT !.at = "unlink", !.pos = x, !.q = next[x]]
  <2>1. /\ to.at = "unlink" /\ to.op = fr.op /\ to.item = fr.item /\ to.pos = x
        /\ to \in CallFrames
    BY <1>1, <1>2 DEF CallFrames, Labels
  <2>2. Placed(to)
    BY <1>1, <2>1 DEF Placed, InLoop, InDrop, InAdd, Leaving
  <2> QED
    BY <1>1, <1>2, <2>1, <2>2 DEF FrameOK, Owned, Holds, Leaving
<1>6. FramesOK' /\ pc' \in [Actors -> Frames]
  BY <1>1, <1>4, <1>5, OopsFrame, Moved DEF Walk, Oops
<1>7. contended' \in BOOLEAN
  BY DEF Walk
<1> QED
  BY <1>1, <1>6, <1>7 DEF Walk, Framed, TypeOK, memory, gate

(* A frame that another takes the place of, with the same call and entry.   *)
LEMMA NextFrame ==
  ASSUME NEW a \in Actors, NEW fr \in CallFrames, Placed(fr), Owned(a, fr), Holds(fr),
         fr.at # "oops",
         NEW to \in CallFrames, to.op = fr.op, to.item = fr.item, Placed(to),
         fr.at \in {"write"} \cup Leaving => to.at \in Leaving,
         to.at \notin {"unlink", "free", "copy", "add2", "oops"}
  PROVE  FrameOK(a, to)
BY DEF FrameOK, Owned, Holds

LEMMA UnlinkFramed ==
  ASSUME Framed, NEW a \in Actors, Unlink(a)
  PROVE  Framed'
<1> DEFINE fr == pc[a]
           x == fr.pos
<1>1. /\ fr \in CallFrames /\ Placed(fr) /\ Owned(a, fr) /\ Holds(fr)
      /\ fr.at = "unlink" /\ TypeOK /\ FramesOK
  BY Here DEF Unlink, At, Framed
<1>2. x \in Cells /\ next[x] \in Cells /\ prev[x] \in Cells \cup {Poison}
  BY <1>1 DEF Holds, TypeOK
<1>3. ASSUME prev[x] # Poison
      PROVE  FrameOK(a, [fr EXCEPT !.at = "free", !.prv = prev[x], !.nxt = next[x]])
  <2> DEFINE to == [fr EXCEPT !.at = "free", !.prv = prev[x], !.nxt = next[x]]
  <2>1. "free" \in Labels
    BY DEF Labels
  <2>2. /\ to.at = "free" /\ to.op = fr.op /\ to.item = fr.item /\ to.pos = x
        /\ to.prv = prev[x] /\ to.nxt = next[x] /\ to \in CallFrames
    BY <1>1, <1>2, <1>3, <2>1 DEF CallFrames
  <2>3. Placed(to)
    BY <1>1, <2>2 DEF Placed, InLoop, InDrop, InAdd, Leaving
  <2> QED
    BY <1>1, <1>2, <1>3, <2>2, <2>3 DEF FrameOK, Owned, Holds, Leaving
<1>4. FramesOK' /\ pc' \in [Actors -> Frames]
  BY <1>1, <1>3, OopsFrame, Moved DEF Unlink, Oops
<1>5. prev' \in [Cells -> Cells \cup {Poison}]
  BY <1>1, <1>2 DEF Unlink, TypeOK
<1> QED
  BY <1>1, <1>4, <1>5 DEF Unlink, Framed, TypeOK, gate, history

LEMMA FreeFramed ==
  ASSUME Framed, NEW a \in Actors, Free(a)
  PROVE  Framed'
<1> DEFINE fr == pc[a]
           x == fr.pos
<1>1. /\ fr \in CallFrames /\ Placed(fr) /\ Owned(a, fr) /\ Holds(fr)
      /\ fr.at = "free" /\ TypeOK /\ FramesOK
  BY Here DEF Free, At, Framed
<1>2. x \in Cells /\ fr.prv \in Cells /\ fr.nxt \in Cells
  BY <1>1 DEF Holds
<1>3. ASSUME NEW l, l = IF DropsOne(a) THEN "dec" ELSE "walk",
             NEW q, q = IF DropsOne(a) THEN 0 ELSE fr.q
      PROVE  FrameOK(a, [fr EXCEPT !.at = l, !.q = q, !.pos = 0, !.prv = 0, !.nxt = 0])
  <2> DEFINE to == [fr EXCEPT !.at = l, !.q = q, !.pos = 0, !.prv = 0, !.nxt = 0]
  <2>1. l \in Labels /\ l \in {"dec", "walk"}
    BY <1>3 DEF Labels
  <2>2. q \in Cells \cup {0}
    BY <1>1, <1>3 DEF CallFrames
  <2>3. /\ to.at = l /\ to.op = fr.op /\ to.item = fr.item /\ to \in CallFrames
    BY <1>1, <2>1, <2>2 DEF CallFrames
  <2>4. Placed(to)
    BY <1>1, <1>3, <2>3 DEF DropsOne, Placed, InLoop, InDrop, InAdd, Leaving
  <2> QED
    BY <1>1, <2>1, <2>3, <2>4, NextFrame DEF Leaving
<1>4. FramesOK' /\ pc' \in [Actors -> Frames]
  BY <1>1, <1>3, OopsFrame, Moved DEF Free, Oops
<1>5. next' \in [Cells -> Cells] /\ prev' \in [Cells -> Cells \cup {Poison}]
  BY <1>1, <1>2 DEF Free, TypeOK
<1>6. data' \in [Nodes -> {UserEntry, Junk} \cup (1..MaxTime)] /\ allocated' \subseteq Nodes
  BY <1>1 DEF Free, TypeOK
<1> QED
  BY <1>1, <1>4, <1>5, <1>6 DEF Free, Framed, TypeOK, gate, history

(* The counters: a load and a store.                                        *)
LEMMA Uncounted ==
  ASSUME NEW fr \in CallFrames, NEW m \in Labels
  PROVE  [fr EXCEPT !.at = m, !.n = 0] \in CallFrames
<1> DEFINE v == 0
<1>1. v \in Int
  OBVIOUS
<1> HIDE DEF v
<1>2. [fr EXCEPT !.at = m, !.n = v] \in CallFrames
  BY <1>1 DEF CallFrames
<1> QED
  BY <1>2 DEF v

LoadEnds(l, m) == (l = "dec" /\ m = "dec2") \/ (l = "inc" /\ m = "inc2")

LEMMA LoadFramed ==
  ASSUME Framed, NEW a \in Actors, NEW c \in Int,
         NEW l, NEW m, LoadEnds(l, m),
         Load(a, l, m, c)
  PROVE  Framed'
<1> DEFINE fr == pc[a]
           v == ku_pir_volume[fr.fd] + c
           to == [fr EXCEPT !.at = m, !.n = v]
<1>1. /\ fr \in CallFrames /\ Placed(fr) /\ Owned(a, fr) /\ Holds(fr)
      /\ fr.at = l /\ TypeOK /\ FramesOK
  BY Here DEF LoadEnds, Load, At, Framed
<1>2. v \in Int /\ m \in Labels
  BY <1>1 DEF LoadEnds, CallFrames, TypeOK, Labels
<1>3. /\ to.at = m /\ to.op = fr.op /\ to.item = fr.item /\ to \in CallFrames
  BY <1>1, <1>2 DEF CallFrames
<1>4. Placed(to)
  BY <1>1, <1>3 DEF LoadEnds, Placed, InLoop, InDrop, InAdd, Leaving
<1>5. FrameOK(a, to)
  BY <1>1, <1>3, <1>4, NextFrame DEF LoadEnds, Leaving
<1>6. FramesOK' /\ pc' \in [Actors -> Frames]
  BY <1>1, <1>5, Moved DEF Load
<1> QED
  BY <1>1, <1>6 DEF Load, Framed, TypeOK, memory, gate, history

StoreEnds(a, l, m) ==
  \/ l = "dec2" /\ m = IF pc[a].op = "read" THEN "release" ELSE "add"
  \/ l = "inc2" /\ m = IF a = Isr THEN "next" ELSE "wake"

LEMMA StoreFramed ==
  ASSUME Framed, NEW a \in Actors, NEW l, NEW m, StoreEnds(a, l, m), Store(a, l, m)
  PROVE  Framed'
<1> DEFINE fr == pc[a]
           to == [fr EXCEPT !.at = m, !.n = 0]
<1>1. /\ fr \in CallFrames /\ Placed(fr) /\ Owned(a, fr) /\ Holds(fr)
      /\ fr.at = l /\ TypeOK /\ FramesOK
  BY Here DEF StoreEnds, Store, At, Framed
<1>2. m \in {"release", "add", "next", "wake"}
  BY DEF StoreEnds
<1>8. m \in Labels
  BY <1>2 DEF Labels
<1>3. /\ to.at = m /\ to.op = fr.op /\ to.item = fr.item /\ to \in CallFrames
  <2>1. to \in CallFrames
    BY <1>1, <1>8, Uncounted
  <2> QED
    BY <1>1, <2>1 DEF CallFrames
<1>4. Placed(to)
  <2>1. CASE l = "dec2"
    BY <1>1, <1>3, <2>1 DEF StoreEnds, Placed, InLoop, InDrop, InAdd, Leaving
  <2>2. CASE l = "inc2"
    <3>1. fr.op = "isr" <=> a = Isr
      BY <1>1, <2>2, ActorsAre DEF Placed, Owned, Ops, CallFrames, InLoop, InDrop, InAdd, Leaving
    <3> QED
      BY <1>1, <1>3, <2>2, <3>1 DEF StoreEnds, Placed, InLoop, InDrop, InAdd, Leaving
  <2> QED
    BY <2>1, <2>2 DEF StoreEnds
<1>5. FrameOK(a, to)
  <2>1. fr.at \in {"dec2", "inc2"}
    BY <1>1 DEF StoreEnds
  <2> QED
    BY <1>1, <1>2, <1>3, <1>4, <2>1, NextFrame DEF Leaving
<1>6. FramesOK' /\ pc' \in [Actors -> Frames]
  BY <1>1, <1>5, Moved DEF Store
<1>7. ku_pir_volume' \in [Fds -> Int]
  BY <1>1 DEF Store, TypeOK, CallFrames
<1> QED
  BY <1>1, <1>6, <1>7 DEF Store, Framed, TypeOK, memory, gate, history

LEMMA Relabelled ==
  ASSUME Framed, NEW a \in Actors, pc[a].at \notin {"idle", "dead", "oops"},
         NEW l \in Labels, l \notin {"unlink", "free", "copy", "add2", "oops"},
         pc[a].at \in {"write"} \cup Leaving => l \in Leaving,
         \A to : to.op = pc[a].op /\ to.at = l => Placed(to),
         Goto(a, l)
  PROVE  FramesOK' /\ pc' \in [Actors -> Frames]
<1> DEFINE fr == pc[a]
           to == [fr EXCEPT !.at = l]
<1>1. /\ fr \in CallFrames /\ Placed(fr) /\ Owned(a, fr) /\ Holds(fr) /\ TypeOK /\ FramesOK
  BY Here DEF Framed
<1>2. to.at = l /\ to.op = fr.op /\ to.item = fr.item /\ to \in CallFrames
  BY <1>1 DEF CallFrames
<1>3. Placed(to)
  BY <1>2
<1>4. FrameOK(a, to)
  BY <1>1, <1>2, <1>3, NextFrame
<1> QED
  BY <1>1, <1>4, GotoIsBecome, Moved

LEMMA AddTailFramed ==
  ASSUME Framed, NEW a \in Actors, AddTail(a)
  PROVE  Framed'
<1> DEFINE fr == pc[a]
           f == fr.fd
           x == fr.item
<1>1. /\ fr \in CallFrames /\ Placed(fr) /\ Owned(a, fr) /\ Holds(fr)
      /\ fr.at \in {"add", "add2", "add3"} /\ TypeOK /\ FramesOK
  BY Here DEF AddTail, At, Framed
<1>2. f \in Cells /\ x \in Cells /\ prev[f] \in Cells \cup {Poison}
  <2>1. fr.op \in {"isr", "write"}
    BY <1>1 DEF CallFrames, Placed, Ops, InLoop, InDrop, InAdd, Leaving
  <2>2. x \in Nodes /\ f \in Fds
    BY <1>1, <2>1 DEF Holds, Leaving, CallFrames
  <2> QED
    BY <1>1, <2>2, CellFacts DEF TypeOK
<1>3. ASSUME fr.at = "add", Become(a, [fr EXCEPT !.at = "add2", !.prv = prev[f]])
      PROVE  FramesOK' /\ pc' \in [Actors -> Frames]
  <2> DEFINE to == [fr EXCEPT !.at = "add2", !.prv = prev[f]]
  <2>1. "add2" \in Labels
    BY DEF Labels
  <2>2. /\ to.at = "add2" /\ to.op = fr.op /\ to.item = fr.item /\ to.prv = prev[f]
        /\ to \in CallFrames
    BY <1>1, <1>2, <2>1 DEF CallFrames
  <2>3. Placed(to)
    BY <1>1, <1>3, <2>2 DEF Placed, InLoop, InDrop, InAdd, Leaving
  <2>4. FrameOK(a, to)
    BY <1>1, <1>2, <1>3, <2>2, <2>3 DEF FrameOK, Owned, Holds, Leaving
  <2> QED
    BY <1>1, <1>3, <2>4, Moved
<1>4. ASSUME fr.at = "add2", Become(a, [fr EXCEPT !.at = "add3", !.prv = 0])
      PROVE  FramesOK' /\ pc' \in [Actors -> Frames]
  <2> DEFINE to == [fr EXCEPT !.at = "add3", !.prv = 0]
  <2>1. "add3" \in Labels
    BY DEF Labels
  <2>2. /\ to.at = "add3" /\ to.op = fr.op /\ to.item = fr.item /\ to \in CallFrames
    BY <1>1, <2>1 DEF CallFrames
  <2>3. Placed(to)
    BY <1>1, <1>4, <2>2 DEF Placed, InLoop, InDrop, InAdd, Leaving
  <2>4. FrameOK(a, to)
    BY <1>1, <1>4, <2>2, <2>3, NextFrame DEF Leaving
  <2> QED
    BY <1>1, <1>4, <2>4, Moved
<1>5. ASSUME fr.at = "add3", Goto(a, "inc")
      PROVE  FramesOK' /\ pc' \in [Actors -> Frames]
  <2>1. "inc" \in Labels
    BY DEF Labels
  <2>2. \A to : to.op = fr.op /\ to.at = "inc" => Placed(to)
    BY <1>1, <1>5 DEF Placed, InLoop, InDrop, InAdd, Leaving
  <2> QED
    BY <1>5, <2>1, <2>2, Relabelled DEF Leaving
<1>6. FramesOK' /\ pc' \in [Actors -> Frames]
  BY <1>1, <1>3, <1>4, <1>5, OopsFrame, Moved DEF AddTail, At, Oops
<1>7. next' \in [Cells -> Cells] /\ prev' \in [Cells -> Cells \cup {Poison}]
  BY <1>1, <1>2 DEF AddTail, TypeOK
<1> QED
  BY <1>1, <1>6, <1>7 DEF AddTail, Framed, TypeOK, gate, history

LEMMA WakeFramed ==
  ASSUME Framed, NEW a \in Actors, Wake(a)
  PROVE  Framed'
<1>1. ASSUME NEW b \in Actors PROVE FrameOK(b, pc'[b])
  <2>1. CASE b = a
    <3>1. CASE a = Isr
      BY <2>1, <3>1 DEF Wake, Idle, FrameOK, NoFrames
    <3>2. CASE a # Isr
      <4> DEFINE fr == pc[a]
                 to == [fr EXCEPT !.at = "release"]
      <4>1. /\ fr \in CallFrames /\ Placed(fr) /\ Owned(a, fr) /\ Holds(fr) /\ fr.at = "wake"
        BY Here DEF Wake, At, Framed
      <4>2. "release" \in Labels
        BY DEF Labels
      <4>3. to.at = "release" /\ to.op = fr.op /\ to.item = fr.item /\ to \in CallFrames
        BY <4>1, <4>2 DEF CallFrames
      <4>4. fr.op = "write"
        BY <3>2, <4>1, ActorsAre
           DEF CallFrames, Placed, Owned, Ops, InLoop, InDrop, InAdd, Leaving
      <4>5. Placed(to)
        BY <4>3, <4>4 DEF Placed, Leaving
      <4>6. FrameOK(a, to)
        BY <4>1, <4>3, <4>5, NextFrame DEF Leaving
      <4> QED
        BY <2>1, <3>2, <4>6 DEF Wake
    <3> QED
      BY <3>1, <3>2
  <2>2. CASE b # a /\ pc[b].at = "asleep"
    <3> DEFINE fr == pc[b]
               to == [fr EXCEPT !.at = "wait"]
    <3>1. /\ fr \in CallFrames /\ Placed(fr) /\ Owned(b, fr) /\ Holds(fr)
      BY <2>2, Here DEF Framed
    <3>2. "wait" \in Labels
      BY DEF Labels
    <3>3. to.at = "wait" /\ to.op = fr.op /\ to.item = fr.item /\ to \in CallFrames
      BY <3>1, <3>2 DEF CallFrames
    <3>4. Placed(to)
      BY <2>2, <3>1, <3>3 DEF Placed, InLoop, InDrop, InAdd, Leaving
    <3>5. FrameOK(b, to)
      BY <2>2, <3>1, <3>3, <3>4, NextFrame DEF Leaving
    <3> QED
      BY <2>2, <3>5 DEF Wake
  <2>3. CASE b # a /\ pc[b].at # "asleep"
    BY <2>3 DEF Wake, Framed, FramesOK
  <2> QED
    BY <2>1, <2>2, <2>3
<1>2. FramesOK'
  BY <1>1 DEF FramesOK, FrameOK, Placed, Owned, Holds
<1>3. pc' \in [Actors -> Frames]
  <2>1. \A b \in Actors : pc'[b] \in Frames
    BY <1>1 DEF FrameOK, Frames
  <2>2. DOMAIN pc' = Actors /\ pc' = [b \in Actors |-> pc'[b]]
    BY DEF Wake
  <2> QED
    BY <2>1, <2>2
<1> QED
  BY <1>2, <1>3 DEF Wake, Framed, TypeOK, memory, gate, history

LEMMA PrematureFramed ==
  ASSUME Framed, NEW a \in Actors, Premature(a)
  PROVE  Framed'
<1>1. TypeOK /\ FramesOK' /\ pc' \in [Actors -> Frames]
  BY OopsFrame, Moved DEF Premature, Oops, Framed
<1> QED
  BY <1>1 DEF Premature, Framed, TypeOK, memory, gate, history

LEMMA ListStepFramed ==
  ASSUME Framed, NEW a \in Actors, ListStep(a)
  PROVE  Framed'
<1>1. CASE Decrement(a)
  <2> DEFINE m == IF pc[a].op = "read" THEN "release" ELSE "add"
  <2>1. StoreEnds(a, "dec2", m)
    BY DEF StoreEnds
  <2> HIDE DEF m
  <2>2. CASE Store(a, "dec2", m)
    BY <2>1, <2>2, StoreFramed
  <2>3. CASE Load(a, "dec", "dec2", -1)
    <3>1. PICK c \in Int : c = -1
      OBVIOUS
    <3>2. Load(a, "dec", "dec2", c)
      BY <2>3, <3>1
    <3>3. LoadEnds("dec", "dec2")
      BY DEF LoadEnds
    <3> QED
      BY <3>2, <3>3, LoadFramed
  <2> QED
    BY <1>1, <2>2, <2>3 DEF Decrement, m
<1>2. CASE Increment(a)
  <2> DEFINE m == IF a = Isr THEN "next" ELSE "wake"
  <2>1. StoreEnds(a, "inc2", m)
    BY DEF StoreEnds
  <2> HIDE DEF m
  <2>2. CASE Store(a, "inc2", m)
    BY <2>1, <2>2, StoreFramed
  <2>3. CASE Load(a, "inc", "inc2", 1)
    <3>1. LoadEnds("inc", "inc2")
      BY DEF LoadEnds
    <3> QED
      BY <2>3, <3>1, LoadFramed
  <2> QED
    BY <1>2, <2>2, <2>3 DEF Increment, m
<1> QED
  BY <1>1, <1>2, WalkFramed, UnlinkFramed, FreeFramed, AddTailFramed, WakeFramed,
     PrematureFramed DEF ListStep

(***************************************************************************)
(* The calls.                                                              *)
(***************************************************************************)
LEMMA OpenFramed ==
  ASSUME Framed, NEW call \in Programs \cap (Procs \X Ops), NEW f \in Fds,
         ku_pir_open(call[1], call[2], f)
  PROVE  Framed'
<1> DEFINE p == call[1]
           op == call[2]
<1>1. p \in Procs /\ op \in Ops /\ p \in Actors /\ TypeOK /\ FramesOK
  BY ActorsAre DEF Framed
<1>2. ASSUME NEW e, e = Entry[op] PROVE FrameOK(p, Frame(e, op, f))
  <2> DEFINE fr == Frame(e, op, f)
  <2>1. /\ op = "read" => e = "read"
        /\ op = "write" => e = "write"
        /\ op = "KU_OPEN" => e = "find"
        /\ op = "KU_CLOSE" => e = "close"
        /\ op = "KU_FLUSH" => e = "walk"
    BY <1>2 DEF Entry
  <2>2. e \in Labels
    BY <1>1, <2>1 DEF Ops, Labels
  <2>3. fr.at = e /\ fr.op = op
    BY DEF Frame
  <2>4. fr \in CallFrames
    BY <1>1, <2>2 DEF Frame, CallFrames
  <2>5. Placed(fr)
    BY <1>1, <2>1, <2>3 DEF Ops, Placed, InLoop, InDrop, InAdd, Leaving
  <2>6. Owned(p, fr) /\ Holds(fr)
    BY <1>1, <2>1, <2>3, ActorsAre DEF Ops, Owned, Holds
  <2> QED
    BY <2>4, <2>5, <2>6 DEF FrameOK
<1>3. FramesOK' /\ pc' \in [Actors -> Frames]
  BY <1>1, <1>2, Moved DEF ku_pir_open
<1>4. depth' \in Nat
  BY <1>1 DEF ku_pir_open, TypeOK
<1>5. early' \in BOOLEAN
  BY <1>1 DEF ku_pir_open, TypeOK
<1> QED
  BY <1>1, <1>3, <1>4, <1>5 DEF ku_pir_open, Framed, TypeOK, memory

LEMMA LabelFacts ==
  {"pick", "wait", "asleep", "release", "sync", "walk", "add", "take", "init", "zero",
   "full", "copy", "find", "fd", "next", "wake", "free_irq"} \subseteq Labels
BY DEF Labels

LEMMA SimpleFramed ==
  ASSUME Framed, NEW p \in Procs, Wait(p) \/ Signal(p) \/ Full(p) \/ Take(p) \/ Reset(p)
  PROVE  Framed'
<1> DEFINE fr == pc[p]
<1>1. /\ p \in Actors /\ TypeOK /\ FramesOK
      /\ fr.at \in {"read", "wait", "asleep", "full", "take", "close", "init", "zero"}
  BY ActorsAre DEF Wait, Signal, Full, Take, Reset, At, Framed
<1>2. fr \in CallFrames /\ Placed(fr) /\ Owned(p, fr) /\ Holds(fr)
  BY <1>1, Here
<1>3. ASSUME NEW l, Goto(p, l),
             \/ fr.at \in {"read", "wait", "asleep"} /\ l \in {"wait", "pick", "asleep"}
             \/ fr.at = "full" /\ l \in {"walk", "add"}
             \/ fr.at = "take" /\ l = "init"
             \/ fr.at = "close" /\ l = "walk"
             \/ fr.at = "init" /\ l = "zero"
             \/ fr.at = "zero" /\ l = "release"
      PROVE  FramesOK' /\ pc' \in [Actors -> Frames]
  <2>1. l \in Labels /\ l \notin {"unlink", "free", "copy", "add2", "oops"}
    BY <1>3, LabelFacts
  <2>2. \A to : to.op = fr.op /\ to.at = l => Placed(to)
    BY <1>2, <1>3 DEF Placed, InLoop, InDrop, InAdd, Leaving
  <2>3. fr.at \notin {"idle", "dead", "oops"} \cup {"write"} \cup Leaving
    BY <1>1 DEF Leaving
  <2> QED
    BY <1>1, <1>3, <2>1, <2>2, <2>3, Relabelled
<1>4. FramesOK' /\ pc' \in [Actors -> Frames]
  BY <1>3 DEF Wait, Signal, Full, Take, Reset, At
<1>5. fr.fd \in Fds /\ fr.fd \in Cells
  BY <1>2, CellFacts DEF CallFrames
<1>6. CASE Wait(p) \/ Signal(p) \/ Full(p)
  BY <1>1, <1>4, <1>6 DEF Wait, Signal, Full, Framed, TypeOK, memory, gate, history
<1>7. CASE Take(p)
  <2>1. fd_list' \in [Fds -> {0, 1}]
    BY <1>1, <1>7 DEF Take, TypeOK
  <2> QED
    BY <1>1, <1>4, <1>7, <2>1 DEF Take, Framed, TypeOK, memory, gate, history
<1>8. CASE Reset(p)
  <2>1. next' \in [Cells -> Cells] /\ prev' \in [Cells -> Cells \cup {Poison}]
    BY <1>1, <1>5, <1>8 DEF Reset, TypeOK
  <2>2. ku_pir_volume' \in [Fds -> Int]
    BY <1>1, <1>8 DEF Reset, TypeOK
  <2>3. made' \subseteq Fds
    BY <1>1, <1>5, <1>8 DEF Reset, TypeOK, gate
  <2> QED
    BY <1>1, <1>4, <1>8, <2>1, <2>2, <2>3 DEF Reset, Framed, TypeOK, gate, history
<1> QED
  BY <1>6, <1>7, <1>8

LEMMA PickFramed ==
  ASSUME Framed, NEW p \in Procs, Pick(p)
  PROVE  Framed'
<1> DEFINE fr == pc[p]
           x == next[fr.fd]
           to == [fr EXCEPT !.at = "copy", !.pos = x]
<1>1. /\ fr \in CallFrames /\ Placed(fr) /\ Owned(p, fr) /\ Holds(fr)
      /\ fr.at = "pick" /\ TypeOK /\ FramesOK /\ p \in Actors
  BY Here, ActorsAre DEF Pick, At, Framed
<1>2. x \in Cells
  BY <1>1, CellFacts DEF CallFrames, TypeOK
<1>3. /\ to.at = "copy" /\ to.op = fr.op /\ to.item = fr.item /\ to.pos = x /\ to \in CallFrames
  BY <1>1, <1>2, LabelFacts DEF CallFrames
<1>4. Placed(to)
  BY <1>1, <1>3 DEF Placed, InLoop, InDrop, InAdd, Leaving
<1>5. FrameOK(p, to)
  BY <1>1, <1>2, <1>3, <1>4 DEF FrameOK, Owned, Holds, Leaving
<1>6. FramesOK' /\ pc' \in [Actors -> Frames]
  BY <1>1, <1>5, Moved DEF Pick
<1>7. contended' \in BOOLEAN
  BY DEF Pick
<1> QED
  BY <1>1, <1>6, <1>7 DEF Pick, Framed, TypeOK, memory, gate

LEMMA CopyFramed ==
  ASSUME Framed, NEW p \in Procs, Copy(p)
  PROVE  Framed'
<1> DEFINE fr == pc[p]
           value == IF fr.pos \in Fds THEN NoEntry ELSE data[fr.pos]
<1>1. /\ fr \in CallFrames /\ Placed(fr) /\ Owned(p, fr) /\ Holds(fr)
      /\ fr.at = "copy" /\ TypeOK /\ FramesOK /\ p \in Actors
  BY Here, ActorsAre DEF Copy, At, Framed
<1>2. ASSUME NEW l \in {"walk", "release"}
      PROVE  FrameOK(p, [fr EXCEPT !.at = l, !.pos = 0])
  <2> DEFINE to == [fr EXCEPT !.at = l, !.pos = 0]
  <2>1. l \in Labels
    BY LabelFacts
  <2>2. to.at = l /\ to.op = fr.op /\ to.item = fr.item /\ to \in CallFrames
    BY <1>1, <2>1 DEF CallFrames
  <2>3. Placed(to)
    BY <1>1, <2>2 DEF Placed, InLoop, InDrop, InAdd, Leaving
  <2> QED
    BY <1>1, <2>2, <2>3, NextFrame DEF Leaving
<1>3. FramesOK' /\ pc' \in [Actors -> Frames]
  BY <1>1, <1>2, Moved DEF Copy
<1>4. value \in {UserEntry, Junk} \cup (0..MaxTime)
  <2>1. CASE fr.pos \in Fds
    BY <2>1, KuPirAssumption DEF NoEntry
  <2>2. CASE fr.pos \notin Fds
    <3>1. fr.pos \in Nodes
      BY <1>1, <2>2 DEF Holds, Cells
    <3> QED
      BY <1>1, <2>2, <3>1, KuPirAssumption DEF TypeOK
  <2> QED
    BY <2>1, <2>2
<1>5. got' \in [Procs -> [now: {UserEntry, Junk} \cup (0..MaxTime), last: 0..MaxTime]]
  <2>1. CASE UNCHANGED got
    BY <1>1, <2>1 DEF TypeOK
  <2>2. CASE got' = [got EXCEPT ![p] = [now |-> value,
                                        last |-> IF @.now > 0 THEN @.now ELSE @.last]]
    <3> DEFINE g == got[p]
               e == IF g.now > 0 THEN g.now ELSE g.last
    <3>1. g \in [now: {UserEntry, Junk} \cup (0..MaxTime), last: 0..MaxTime]
      BY <1>1 DEF TypeOK
    <3>2. e \in 0..MaxTime
      BY <3>1 DEF UserEntry, Junk
    <3> HIDE DEF e, value
    <3>3. [now |-> value, last |-> e] \in
            [now: {UserEntry, Junk} \cup (0..MaxTime), last: 0..MaxTime]
      BY <1>4, <3>2
    <3>4. got' = [got EXCEPT ![p] = [now |-> value, last |-> e]]
      BY <2>2 DEF e
    <3> QED
      BY <1>1, <3>3, <3>4 DEF TypeOK
  <2> QED
    BY <2>1, <2>2 DEF Copy
<1> QED
  BY <1>1, <1>3, <1>5 DEF Copy, Framed, TypeOK, memory, gate

LEMMA WriteFramed ==
  ASSUME Framed, NEW p \in Procs, Write(p)
  PROVE  Framed'
<1> DEFINE fr == pc[p]
<1>1. /\ fr \in CallFrames /\ Placed(fr) /\ Owned(p, fr) /\ Holds(fr)
      /\ fr.at = "write" /\ TypeOK /\ FramesOK /\ p \in Actors
  BY Here, ActorsAre DEF Write, At, Framed
<1>2. ASSUME NEW n \in Nodes, Become(p, [fr EXCEPT !.at = "full", !.item = n])
      PROVE  FramesOK' /\ pc' \in [Actors -> Frames]
  <2> DEFINE to == [fr EXCEPT !.at = "full", !.item = n]
  <2>1. to.at = "full" /\ to.op = fr.op /\ to.item = n /\ to \in CallFrames
    BY <1>1, LabelFacts DEF CallFrames
  <2>2. fr.op = "write"
    BY <1>1 DEF CallFrames, Placed, Ops, InLoop, InDrop, InAdd, Leaving
  <2>3. Placed(to)
    BY <2>1, <2>2 DEF Placed
  <2>4. FrameOK(p, to)
    BY <1>1, <2>1, <2>2, <2>3 DEF FrameOK, Owned, Holds
  <2> QED
    BY <1>1, <1>2, <2>4, Moved
<1>3. ASSUME Goto(p, "release") PROVE FramesOK' /\ pc' \in [Actors -> Frames]
  <2>1. \A to : to.op = fr.op /\ to.at = "release" => Placed(to)
    BY <1>1 DEF Placed, InLoop, InDrop, InAdd, Leaving
  <2> QED
    BY <1>1, <1>3, <2>1, LabelFacts, Relabelled DEF Leaving
<1>4. FramesOK' /\ pc' \in [Actors -> Frames]
  BY <1>2, <1>3 DEF Write
<1>5. data' \in [Nodes -> {UserEntry, Junk} \cup (1..MaxTime)] /\ allocated' \subseteq Nodes
  BY <1>1 DEF Write, TypeOK
<1> QED
  BY <1>1, <1>4, <1>5 DEF Write, Framed, TypeOK, gate, history

LEMMA FindFramed ==
  ASSUME Framed, NEW p \in Procs, Find(p)
  PROVE  Framed'
<1> DEFINE fr == pc[p]
<1>1. /\ fr \in CallFrames /\ Placed(fr) /\ Owned(p, fr) /\ Holds(fr)
      /\ fr.at = "find" /\ TypeOK /\ FramesOK /\ p \in Actors
  BY Here, ActorsAre DEF Find, At, Framed
<1>2. ASSUME NEW f \in Fds, Become(p, [fr EXCEPT !.at = "take", !.fd = f])
      PROVE  FramesOK' /\ pc' \in [Actors -> Frames]
  <2> DEFINE to == [fr EXCEPT !.at = "take", !.fd = f]
  <2>1. to.at = "take" /\ to.op = fr.op /\ to.item = fr.item /\ to \in CallFrames
    BY <1>1, LabelFacts DEF CallFrames
  <2>2. Placed(to)
    BY <1>1, <2>1 DEF Placed, InLoop, InDrop, InAdd, Leaving
  <2>3. FrameOK(p, to)
    BY <1>1, <2>1, <2>2, NextFrame DEF Leaving
  <2> QED
    BY <1>1, <1>2, <2>3, Moved
<1>3. ASSUME Goto(p, "release") PROVE FramesOK' /\ pc' \in [Actors -> Frames]
  <2>1. \A to : to.op = fr.op /\ to.at = "release" => Placed(to)
    BY <1>1 DEF Placed, InLoop, InDrop, InAdd, Leaving
  <2> QED
    BY <1>1, <1>3, <2>1, LabelFacts, Relabelled DEF Leaving
<1>4. FramesOK' /\ pc' \in [Actors -> Frames]
  BY <1>2, <1>3 DEF Find
<1> QED
  BY <1>1, <1>4 DEF Find, Framed, TypeOK, memory, gate, history

LEMMA NoFrameOK ==
  ASSUME NEW a
  PROVE  FrameOK(a, Idle) /\ FrameOK(a, [at |-> "dead"])
BY DEF FrameOK, NoFrames, Idle

LEMMA ReleaseFramed ==
  ASSUME Framed, NEW p \in Procs, ku_pir_release(p)
  PROVE  Framed'
<1> DEFINE fr == pc[p]
<1>1. /\ fr \in CallFrames /\ Placed(fr) /\ Owned(p, fr) /\ Holds(fr)
      /\ fr.at \in Leaving /\ TypeOK /\ FramesOK /\ p \in Actors
  BY Here, ActorsAre DEF ku_pir_release, At, Framed, Leaving
<1>2. ASSUME fr.at = "release", Goto(p, "sync") PROVE FramesOK' /\ pc' \in [Actors -> Frames]
  <2>1. \A to : to.op = fr.op /\ to.at = "sync" => Placed(to)
    BY <1>1, <1>2 DEF Placed, InLoop, InDrop, InAdd, Leaving
  <2> QED
    BY <1>1, <1>2, <2>1, LabelFacts, Relabelled DEF Leaving
<1>3. FramesOK' /\ pc' \in [Actors -> Frames]
  BY <1>1, <1>2, NoFrameOK, Moved DEF ku_pir_release, At
<1>4. depth' \in Nat
  BY <1>1 DEF ku_pir_release, TypeOK
<1> QED
  BY <1>1, <1>3, <1>4 DEF ku_pir_release, Framed, TypeOK, memory, history

LEMMA FaultFramed ==
  ASSUME Framed, NEW p \in Procs, Fault(p)
  PROVE  Framed'
<1>1. TypeOK /\ FramesOK' /\ pc' \in [Actors -> Frames]
  BY NoFrameOK, Moved, ActorsAre DEF Fault, Framed
<1> QED
  BY <1>1 DEF Fault, Framed, TypeOK, memory, gate, history

(***************************************************************************)
(* The handler and rmmod.                                                  *)
(***************************************************************************)
LEMMA IsrFramed ==
  ASSUME Framed, ku_pir_isr
  PROVE  Framed'
<1>1. TypeOK /\ FramesOK /\ jiffies' \in 1..MaxTime
  BY KuPirAssumption DEF ku_pir_isr, Framed, TypeOK
<1>2. PICK n \in Nodes : /\ allocated' = allocated \cup {n}
                         /\ data' = [data EXCEPT ![n] = jiffies']
                         /\ Become(Isr, [Frame("fd", "isr", 1) EXCEPT !.item = n])
  BY DEF ku_pir_isr
<1> DEFINE fr == [Frame("fd", "isr", 1) EXCEPT !.item = n]
<1>3. fr.at = "fd" /\ fr.op = "isr" /\ fr.item = n /\ fr \in CallFrames
  BY ActorsAre, LabelFacts DEF Frame, CallFrames
<1>4. Placed(fr) /\ Holds(fr) /\ Owned(Isr, fr)
  BY <1>3, ActorsAre DEF Placed, Holds, Owned
<1>5. FramesOK' /\ pc' \in [Actors -> Frames]
  BY <1>1, <1>2, <1>3, <1>4, ActorsAre, Moved DEF FrameOK
<1>6. data' \in [Nodes -> {UserEntry, Junk} \cup (1..MaxTime)] /\ allocated' \subseteq Nodes
  BY <1>1, <1>2 DEF TypeOK
<1>7. jiffies' \in 0..MaxTime
  BY <1>1
<1> QED
  BY <1>1, <1>5, <1>6, <1>7 DEF ku_pir_isr, Framed, TypeOK, gate, history

LEMMA GlitchFramed ==
  ASSUME Framed, Glitch
  PROVE  Framed'
BY DEF Glitch, Framed, TypeOK, FramesOK, FrameOK, Placed, Owned, Holds, gate, history

LEMMA PushFramed ==
  ASSUME Framed, Push
  PROVE  Framed'
<1> DEFINE fr == pc[Isr]
<1>1. /\ fr \in CallFrames /\ Placed(fr) /\ Owned(Isr, fr) /\ Holds(fr)
      /\ fr.at \in {"fd", "next"} /\ TypeOK /\ FramesOK /\ Isr \in Actors
  BY Here, ActorsAre DEF Push, At, Framed
<1>2. fr.op = "isr" /\ fr.fd \in Fds
  BY <1>1 DEF Owned, CallFrames
<1>3. ASSUME NEW l \in {"next", "walk", "add", "wake"}, Goto(Isr, l)
      PROVE  FramesOK' /\ pc' \in [Actors -> Frames]
  <2>1. \A to : to.op = fr.op /\ to.at = l => Placed(to)
    BY <1>2 DEF Placed, InLoop, InDrop, InAdd
  <2> QED
    BY <1>1, <1>3, <2>1, LabelFacts, Relabelled DEF Leaving
<1>4. ASSUME NEW g \in Fds, Become(Isr, [fr EXCEPT !.at = "fd", !.fd = g])
      PROVE  FramesOK' /\ pc' \in [Actors -> Frames]
  <2> DEFINE to == [fr EXCEPT !.at = "fd", !.fd = g]
  <2>1. "fd" \in Labels
    BY LabelFacts
  <2>2. to.at = "fd" /\ to.op = fr.op /\ to.item = fr.item /\ to \in CallFrames
    BY <1>1, <2>1 DEF CallFrames
  <2>3. Placed(to)
    BY <1>2, <2>2 DEF Placed
  <2> QED
    BY <1>1, <1>4, <2>2, <2>3, NextFrame, Moved DEF Leaving
<1>5. At(Isr, "fd") => ~At(Isr, "next")
  BY DEF At
<1>6. \/ \E l \in {"next", "walk", "add"} : At(Isr, "fd") /\ Goto(Isr, l)
      \/ /\ At(Isr, "next")
         /\ Become(Isr, IF fr.fd < KUPIR_MAX_DEV THEN [fr EXCEPT !.at = "fd", !.fd = fr.fd + 1]
                                                 ELSE [fr EXCEPT !.at = "wake"])
  <2>1. CASE At(Isr, "fd") /\ fd_list[fr.fd] = 0
    BY <2>1, <1>5 DEF Push
  <2>2. CASE At(Isr, "fd") /\ fd_list[fr.fd] # 0 /\ ku_pir_volume[fr.fd] = KUPIR_MAX_MSG
    BY <2>2, <1>5 DEF Push
  <2>3. CASE At(Isr, "fd") /\ fd_list[fr.fd] # 0 /\ ku_pir_volume[fr.fd] # KUPIR_MAX_MSG
    BY <2>3, <1>5 DEF Push
  <2>4. CASE ~At(Isr, "fd")
    BY <2>4 DEF Push
  <2> QED
    BY <2>1, <2>2, <2>3, <2>4
<1>7. ASSUME Become(Isr, IF fr.fd < KUPIR_MAX_DEV
                         THEN [fr EXCEPT !.at = "fd", !.fd = fr.fd + 1]
                         ELSE [fr EXCEPT !.at = "wake"])
      PROVE  FramesOK' /\ pc' \in [Actors -> Frames]
  <2>1. CASE fr.fd < KUPIR_MAX_DEV
    <3>1. fr.fd + 1 \in Fds
      BY <1>2, <2>1, KuPirAssumption DEF Fds
    <3>2. Become(Isr, [fr EXCEPT !.at = "fd", !.fd = fr.fd + 1])
      BY <1>7, <2>1
    <3> QED
      BY <1>4, <3>1, <3>2
  <2>2. CASE ~(fr.fd < KUPIR_MAX_DEV)
    <3>1. pc' = [pc EXCEPT ![Isr] = [fr EXCEPT !.at = "wake"]]
      BY <1>7, <2>2 DEF Become
    <3>2. Goto(Isr, "wake")
      BY <3>1 DEF Goto
    <3> QED
      BY <1>3, <3>2
  <2> QED
    BY <2>1, <2>2
<1>8. FramesOK' /\ pc' \in [Actors -> Frames]
  BY <1>3, <1>6, <1>7
<1> QED
  BY <1>1, <1>8 DEF Push, Framed, TypeOK, memory, gate, history

LEMMA ExitFrame ==
  ASSUME NEW l \in {"walk", "free_irq"}, NEW f \in Fds
  PROVE  FrameOK(Rmmod, Frame(l, "exit", f))
<1> DEFINE fr == Frame(l, "exit", f)
<1>1. fr.at = l /\ fr.op = "exit" /\ fr \in CallFrames
  BY LabelFacts DEF Frame, CallFrames
<1>2. Placed(fr) /\ Owned(Rmmod, fr) /\ Holds(fr)
  BY <1>1, ActorsAre DEF Placed, Owned, Holds, InLoop
<1> QED
  BY <1>1, <1>2 DEF FrameOK

LEMMA ExitFramed ==
  ASSUME Framed, ExitBegin \/ ExitNext \/ ExitEnd
  PROVE  Framed'
<1>1. TypeOK /\ FramesOK /\ Rmmod \in Actors /\ 1 \in Fds
  BY ActorsAre DEF Framed
<1>2. CASE ExitBegin
  <2>1. FramesOK' /\ pc' \in [Actors -> Frames]
    BY <1>1, <1>2, ExitFrame, Moved DEF ExitBegin
  <2> QED
    BY <1>1, <1>2, <2>1 DEF ExitBegin, Framed, TypeOK, memory, history
<1>3. CASE ExitNext
  <2>1. pc[Rmmod] \in CallFrames
    BY <1>1, <1>3, Here DEF ExitNext, At
  <2>2. pc[Rmmod].fd < KUPIR_MAX_DEV => pc[Rmmod].fd + 1 \in Fds
    BY <2>1, KuPirAssumption DEF CallFrames, Fds
  <2>3. FramesOK' /\ pc' \in [Actors -> Frames]
    BY <1>1, <1>3, <2>2, ExitFrame, Moved DEF ExitNext
  <2> QED
    BY <1>1, <1>3, <2>3 DEF ExitNext, Framed, TypeOK, memory, gate, history
<1>4. CASE ExitEnd
  <2>1. FramesOK' /\ pc' \in [Actors -> Frames]
    BY <1>1, <1>4, NoFrameOK, Moved DEF ExitEnd
  <2> QED
    BY <1>1, <1>4, <2>1 DEF ExitEnd, Framed, TypeOK, memory, history
<1> QED
  BY <1>2, <1>3, <1>4

LEMMA InitFramed == Init => Framed
<1> SUFFICES ASSUME Init PROVE Framed
  OBVIOUS
<1>1. FramesOK /\ pc \in [Actors -> Frames]
  BY NoFrameOK DEF Init, FramesOK, Frames, NoFrames, Idle
<1>2. [now |-> Junk, last |-> 0] \in [now: {UserEntry, Junk} \cup (0..MaxTime), last: 0..MaxTime]
  BY KuPirAssumption
<1>3. next \in [Cells -> Cells] /\ prev \in [Cells -> Cells \cup {Poison}]
  BY DEF Init, Cells
<1>4. got \in [Procs -> [now: {UserEntry, Junk} \cup (0..MaxTime), last: 0..MaxTime]]
  BY <1>2 DEF Init
<1>5. jiffies \in 0..MaxTime
  <2>1. 0 \in 0..MaxTime
    BY KuPirAssumption
  <2> QED
    BY <2>1 DEF Init
<1>6. depth \in Nat /\ ku_pir_volume \in [Fds -> Int] /\ fd_list \in [Fds -> {0, 1}]
  BY DEF Init
<1>7. data \in [Nodes -> {UserEntry, Junk} \cup (1..MaxTime)]
  BY DEF Init
<1>8. /\ allocated \subseteq Nodes /\ contended \in BOOLEAN /\ early \in BOOLEAN
      /\ module = "request" /\ made \subseteq Fds
  BY DEF Init
<1> QED
  BY <1>1, <1>3, <1>4, <1>5, <1>6, <1>7, <1>8 DEF Framed, TypeOK

(* ku_pir_init leaves the actors where they are.                            *)
LEMMA InitStepFramed ==
  ASSUME Framed, InitIrq \/ InitQueues
  PROVE  Framed'
<1>1. TypeOK /\ FramesOK /\ pc' = pc
  BY DEF Framed, InitIrq, InitQueues
<1>2. FramesOK'
  BY <1>1 DEF FramesOK, FrameOK, Placed, Owned, Holds
<1>3. CASE InitIrq
  <2>1. depth' \in Nat /\ module' \in {"disable", "quiet", "queues"}
    <3>1. CASE module' = "disable" /\ depth' = 0
      BY <3>1
    <3>2. CASE module' = "quiet" /\ depth' = depth + 1
      BY <1>1, <3>2 DEF TypeOK
    <3>3. CASE module' = "queues" /\ UNCHANGED depth
      BY <1>1, <3>3 DEF TypeOK
    <3> QED
      BY <1>3, <3>1, <3>2, <3>3 DEF InitIrq
  <2>2. early' \in BOOLEAN
    <3>1. CASE early' = early
      BY <1>1, <3>1 DEF TypeOK
    <3>2. CASE early' = \E p \in Procs : HasDevice(p) /\ pc[p].at # "sync"
      BY <3>2, Zenon
    <3> QED
      BY <1>3, <3>1, <3>2 DEF InitIrq
  <2> QED
    BY <1>1, <1>2, <1>3, <2>1, <2>2 DEF InitIrq, Framed, TypeOK, memory
<1>4. CASE InitQueues
  <2>1. next' \in [Cells -> Cells] /\ prev' \in [Cells -> Cells \cup {Poison}]
    BY <1>1, <1>4 DEF InitQueues, TypeOK
  <2> QED
    BY <1>1, <1>2, <1>4, <2>1 DEF InitQueues, Framed, TypeOK, history
<1> QED
  BY <1>3, <1>4

LEMMA NextFramed == Framed /\ [Next]_vars => Framed'
<1> SUFFICES ASSUME Framed, [Next]_vars PROVE Framed'
  OBVIOUS
<1>1. CASE UNCHANGED vars
  BY <1>1 DEF vars, memory, gate, history, Framed, TypeOK, FramesOK, FrameOK, Placed, Owned, Holds
<1>2. ASSUME NEW p \in Procs, ThreadStep(p) \/ Signal(p) PROVE Framed'
  BY <1>2, SimpleFramed, PickFramed, CopyFramed, WriteFramed, FindFramed, ReleaseFramed,
     FaultFramed DEF ThreadStep
<1>3. ASSUME NEW call \in Programs \cap (Procs \X Ops), NEW f \in Fds,
             ku_pir_open(call[1], call[2], f)
      PROVE  Framed'
  BY <1>3, OpenFramed
<1>4. ASSUME NEW a \in Actors, ListStep(a) PROVE Framed'
  BY <1>4, ListStepFramed
<1> QED
  BY <1>1, <1>2, <1>3, <1>4, IsrFramed, GlitchFramed, PushFramed, InitStepFramed, ExitFramed
     DEF Next

(* Every pointer is to a cell or poisoned, every frame holds what its label *)
(* needs, and the handler's loop stays within the descriptors, though no    *)
(* access of ku_pir.c to the lists is locked (list_del_rcu, list_add_tail). *)
THEOREM PirTypeCorrect == Spec => []TypeOK
<1>1. Framed => TypeOK
  BY DEF Framed
<1> QED
  BY <1>1, InitFramed, NextFramed, PTL DEF Spec

(***************************************************************************)
(* Moves.  All steps but the opens, the releases, init's and rmmod's leave *)
(* the gate alone, and an actor that they move stays in its call, if it is not *)
(* killed.                                                                 *)
(***************************************************************************)
Moves(a, L) ==
  /\ pc[a].at \notin {"idle", "dead"}
  /\ \A b \in Actors \ {a} : pc'[b] = pc[b]
  /\ pc'[a].op = pc[a].op /\ pc'[a].at \in L

ListLabels == InDrop \cup InAdd \cup {"release", "init", "zero", "next"}
CallLabels == {"pick", "wait", "asleep", "walk", "add", "init", "zero", "release",
               "copy", "full", "take"}

(* Where a step on a list leads: a write that adds its entry goes on until  *)
(* it has woken the readers.                                                *)
Onward(a) == IF pc[a].at \in InAdd /\ pc[a].op = "write" THEN InAdd ELSE ListLabels

(* Or the actor is killed.                                                  *)
Killed(a) == Oops(a) /\ UNCHANGED ku_pir_volume

LEMMA MovesTo ==
  ASSUME Framed, NEW a \in Actors, pc[a].at \notin {"idle", "dead"},
         NEW fr, Become(a, fr), fr.op = pc[a].op, NEW L, fr.at \in L
  PROVE  Moves(a, L)
BY DEF Become, Framed, TypeOK, Moves

LEMMA MovesGoto ==
  ASSUME Framed, NEW a \in Actors, pc[a].at \notin {"idle", "dead"},
         NEW L, NEW l \in L, Goto(a, l)
  PROVE  Moves(a, L)
<1>1. pc[a] \in CallFrames
  BY Here DEF Framed
<1>2. LET to == [pc[a] EXCEPT !.at = l]
      IN  Become(a, to) /\ to.at = l /\ to.op = pc[a].op
  BY <1>1, GotoIsBecome DEF Framed, CallFrames
<1> QED
  BY <1>2, MovesTo

LEMMA ListStepMoves ==
  ASSUME Framed, NEW a \in Actors, ListStep(a), ~Wake(a)
  PROVE  Killed(a) \/ Moves(a, Onward(a))
<1> DEFINE fr == pc[a]
<1>1. fr.at \notin {"idle", "dead"}
  BY DEF ListStep, Premature, Walk, Unlink, Free, Decrement, Increment, Load, Store, AddTail, At
<1>2. fr \in CallFrames /\ Placed(fr) /\ Owned(a, fr)
  BY <1>1, Here DEF Framed
<1>3. fr.at \notin InAdd => Onward(a) = ListLabels
  BY DEF Onward
<1>4. CASE Walk(a)
  <2>1. fr.op \in {"read", "write", "isr", "KU_FLUSH", "KU_CLOSE", "exit"} /\ fr.at = "walk"
    BY <1>2, <1>4 DEF Walk, At, CallFrames, Placed, Ops, InLoop, InDrop, InAdd, Leaving
  <2>2. Onward(a) = ListLabels
    BY <1>3, <2>1 DEF InAdd
  <2>3. ASSUME NEW l, l = AfterLoop[fr.op], Become(a, [fr EXCEPT !.at = l, !.q = 0])
        PROVE  Moves(a, ListLabels)
    <3>1. l \in ListLabels
      BY <2>1, <2>3, AfterLoops DEF ListLabels, InAdd
    <3> DEFINE to == [fr EXCEPT !.at = l, !.q = 0]
    <3>2. to.at = l /\ to.op = fr.op /\ Become(a, to)
      BY <1>2, <2>3 DEF CallFrames
    <3> HIDE DEF to
    <3> QED
      BY <1>1, <2>3, <3>1, <3>2, MovesTo
  <2>4. ASSUME NEW x, NEW q, Become(a, [fr EXCEPT !.at = "unlink", !.pos = x, !.q = q])
        PROVE  Moves(a, ListLabels)
    <3> DEFINE to == [fr EXCEPT !.at = "unlink", !.pos = x, !.q = q]
    <3>1. to.at = "unlink" /\ to.op = fr.op /\ Become(a, to)
      BY <1>2, <2>4 DEF CallFrames
    <3> HIDE DEF to
    <3>2. "unlink" \in ListLabels
      BY DEF ListLabels, InDrop, InLoop
    <3> QED
      BY <1>1, <2>4, <3>1, <3>2, MovesTo
  <2>5. Oops(a) => Killed(a)
    BY <1>4, <2>1 DEF Walk, Killed, InAdd
  <2> QED
    BY <1>4, <2>2, <2>3, <2>4, <2>5 DEF Walk
<1>5. CASE Unlink(a)
  <2>1. Onward(a) = ListLabels
    BY <1>3, <1>5 DEF Unlink, At, InAdd
  <2>2. ASSUME NEW x, NEW y, Become(a, [fr EXCEPT !.at = "free", !.prv = x, !.nxt = y])
        PROVE  Moves(a, ListLabels)
    <3> DEFINE to == [fr EXCEPT !.at = "free", !.prv = x, !.nxt = y]
    <3>1. to.at = "free" /\ to.op = fr.op /\ Become(a, to)
      BY <1>2, <2>2 DEF CallFrames
    <3> HIDE DEF to
    <3>2. "free" \in ListLabels
      BY DEF ListLabels, InDrop, InLoop
    <3> QED
      BY <1>1, <2>2, <3>1, <3>2, MovesTo
  <2>3. Oops(a) => Killed(a)
    BY <1>5 DEF Unlink, At, Killed, InAdd
  <2> QED
    BY <1>5, <2>1, <2>2, <2>3 DEF Unlink
<1>6. CASE Free(a)
  <2>1. Onward(a) = ListLabels
    BY <1>3, <1>6 DEF Free, At, InAdd
  <2>2. ASSUME NEW l \in {"dec", "walk"}, NEW q,
               Become(a, [fr EXCEPT !.at = l, !.q = q, !.pos = 0, !.prv = 0, !.nxt = 0])
        PROVE  Moves(a, ListLabels)
    <3> DEFINE to == [fr EXCEPT !.at = l, !.q = q, !.pos = 0, !.prv = 0, !.nxt = 0]
    <3>1. to.at = l /\ to.op = fr.op /\ Become(a, to)
      BY <1>2, <2>2 DEF CallFrames
    <3> HIDE DEF to
    <3>2. l \in ListLabels
      BY DEF ListLabels, InDrop, InLoop
    <3> QED
      BY <1>1, <2>2, <3>1, <3>2, MovesTo
  <2>3. Oops(a) => Killed(a)
    BY <1>6 DEF Free, At, Killed, InAdd
  <2> QED
    BY <1>6, <2>1, <2>2, <2>3 DEF Free
<1>7. ASSUME NEW l, NEW m \in Onward(a), NEW v, Load(a, l, m, v)
      PROVE  Moves(a, Onward(a))
  <2> DEFINE to == [fr EXCEPT !.at = m, !.n = ku_pir_volume[fr.fd] + v]
  <2>1. to.at = m /\ to.op = fr.op /\ Become(a, to)
    BY <1>2, <1>7 DEF Load, CallFrames
  <2> QED
    BY <1>1, <1>7, <2>1, MovesTo
<1>8. ASSUME NEW l, NEW m \in Onward(a), Store(a, l, m)
      PROVE  Moves(a, Onward(a))
  <2> DEFINE to == [fr EXCEPT !.at = m, !.n = 0]
  <2>1. to.at = m /\ to.op = fr.op /\ Become(a, to)
    BY <1>2, <1>8 DEF Store, CallFrames
  <2> QED
    BY <1>1, <1>8, <2>1, MovesTo
<1>9. CASE Decrement(a)
  <2>1. {"dec2", "release", "add"} \subseteq Onward(a)
    BY <1>3, <1>9 DEF Decrement, Load, Store, At, InAdd, ListLabels, InDrop
  <2> QED
    BY <1>7, <1>8, <1>9, <2>1 DEF Decrement
<1>10. CASE Increment(a)
  <2>1. {"inc2", "wake"} \subseteq Onward(a)
    BY DEF Onward, InAdd, ListLabels
  <2>2. a = Isr => "next" \in Onward(a)
    BY <1>2, ActorsAre DEF Onward, ListLabels, Owned
  <2> QED
    BY <1>7, <1>8, <1>10, <2>1, <2>2 DEF Increment
<1>11. CASE AddTail(a)
  <2>1. {"add2", "add3", "inc"} \subseteq Onward(a)
    BY DEF Onward, InAdd, ListLabels
  <2>2. ASSUME NEW l \in {"add2", "add3"}, NEW v, Become(a, [fr EXCEPT !.at = l, !.prv = v])
        PROVE  Moves(a, Onward(a))
    <3> DEFINE to == [fr EXCEPT !.at = l, !.prv = v]
    <3>1. to.at = l /\ to.op = fr.op /\ Become(a, to)
      BY <1>2, <2>2 DEF CallFrames
    <3> HIDE DEF to
    <3> QED
      BY <1>1, <2>1, <2>2, <3>1, MovesTo
  <2>3. \/ \E v : Become(a, [fr EXCEPT !.at = "add2", !.prv = v])
        \/ \E v : Become(a, [fr EXCEPT !.at = "add3", !.prv = v])
        \/ Goto(a, "inc") \/ Killed(a)
    BY <1>11 DEF AddTail, At, Killed
  <2> QED
    BY <1>1, <2>1, <2>2, <2>3, MovesGoto
<1>12. CASE Premature(a)
  BY <1>12 DEF Premature, Killed
<1> QED
  BY <1>4, <1>5, <1>6, <1>9, <1>10, <1>11, <1>12 DEF ListStep

LEMMA CallMoves ==
  ASSUME Framed, NEW p \in Procs,
         \/ Wait(p) \/ Signal(p) \/ Pick(p) \/ Copy(p) \/ Write(p)
         \/ Full(p) \/ Find(p) \/ Take(p) \/ Reset(p)
  PROVE  Moves(p, CallLabels)
<1> DEFINE fr == pc[p]
<1>1. fr.at \notin {"idle", "dead"} /\ p \in Actors
  BY ActorsAre DEF Wait, Signal, Pick, Copy, Write, Full, Find, Take, Reset, At
<1>2. fr \in CallFrames
  BY <1>1, Here DEF Framed
<1>3. CASE Wait(p) \/ Signal(p) \/ Full(p) \/ Take(p) \/ Reset(p)
  <2>1. \E l \in CallLabels : Goto(p, l)
    BY <1>3 DEF Wait, Signal, Full, Take, Reset, CallLabels
  <2> QED
    BY <1>1, <2>1, MovesGoto
<1>4. ASSUME NEW l \in {"copy", "walk", "release"}, NEW x, Become(p, [fr EXCEPT !.at = l, !.pos = x])
      PROVE  Moves(p, CallLabels)
  <2> DEFINE to == [fr EXCEPT !.at = l, !.pos = x]
  <2>1. to.at = l /\ to.op = fr.op /\ Become(p, to)
    BY <1>2, <1>4 DEF CallFrames
  <2> HIDE DEF to
  <2>2. l \in CallLabels
    BY DEF CallLabels
  <2> QED
    BY <1>1, <1>4, <2>1, <2>2, MovesTo
<1>5. CASE Pick(p)
  BY <1>4, <1>5 DEF Pick
<1>6. CASE Copy(p)
  BY <1>4, <1>6 DEF Copy
<1>7. "full" \in CallLabels /\ "take" \in CallLabels /\ "release" \in CallLabels
  BY DEF CallLabels
<1>8. CASE Write(p)
  <2>1. ASSUME NEW x, Become(p, [fr EXCEPT !.at = "full", !.item = x])
        PROVE  Moves(p, CallLabels)
    <3> DEFINE to == [fr EXCEPT !.at = "full", !.item = x]
    <3>1. to.at = "full" /\ to.op = fr.op /\ Become(p, to)
      BY <1>2, <2>1 DEF CallFrames
    <3> HIDE DEF to
    <3> QED
      BY <1>1, <1>7, <2>1, <3>1, MovesTo
  <2> QED
    BY <1>1, <1>7, <1>8, <2>1, MovesGoto DEF Write
<1>9. CASE Find(p)
  <2>1. ASSUME NEW x, Become(p, [fr EXCEPT !.at = "take", !.fd = x])
        PROVE  Moves(p, CallLabels)
    <3> DEFINE to == [fr EXCEPT !.at = "take", !.fd = x]
    <3>1. to.at = "take" /\ to.op = fr.op /\ Become(p, to)
      BY <1>2, <2>1 DEF CallFrames
    <3> HIDE DEF to
    <3> QED
      BY <1>1, <1>7, <2>1, <3>1, MovesTo
  <2> QED
    BY <1>1, <1>7, <1>9, <2>1, MovesGoto DEF Find
<1> QED
  BY <1>3, <1>5, <1>6, <1>8, <1>9

LEMMA OopsEnds ==
  ASSUME Framed, NEW a \in Actors, Oops(a)
  PROVE  /\ \A b \in Actors \ {a} : pc'[b] = pc[b]
         /\ pc'[a].op = "dead"
         /\ pc'[a].at = IF a \in Procs THEN "release" ELSE "oops"
BY DEF Oops, Become, Frame, Framed, TypeOK

(***************************************************************************)
(* The handler runs only while a thread has the device.                    *)
(***************************************************************************)
GoesOn ==
  /\ \A p \in Procs : pc'[p] = pc[p] \/ pc'[p].at \notin {"idle", "dead", "sync"}
  /\ pc[Isr] = Idle => pc'[Isr] = Idle

LEMMA GateKept ==
  ASSUME GateHeld, GoesOn, UNCHANGED <<depth, module>>
  PROVE  GateHeld'
BY DEF GateHeld, GoesOn, Enables, HasDevice

LEMMA GoesOnMoves ==
  ASSUME NEW a \in Actors, NEW L, Moves(a, L), L \cap {"idle", "dead", "sync"} = {}
  PROVE  GoesOn
<1>1. pc[a] # Idle
  BY DEF Moves, Idle
<1> QED
  BY <1>1, ActorsAre DEF Moves, GoesOn

LEMMA WakeKeeps ==
  ASSUME Framed, NEW a \in Actors, Wake(a), NEW b \in Actors
  PROVE  /\ pc'[b] = pc[b] \/ pc'[b].at \in {"wait", "release"} \/ (b = Isr /\ pc[b] # Idle)
         /\ pc'[b].at # "asleep"
         /\ pc'[b] = Idle \/ (pc'[b].op = pc[b].op /\ (pc[b].at \in {"idle", "dead"} => pc'[b] = pc[b]))
<1>1. CASE b = a \/ pc[b].at = "asleep"
  <2>1. pc[b].at \notin {"idle", "dead"}
    BY <1>1 DEF Wake, At
  <2>2. pc[b] \in CallFrames
    BY <2>1, Here DEF Framed
  <2>3. /\ [pc[b] EXCEPT !.at = "wait"].at = "wait" /\ [pc[b] EXCEPT !.at = "wait"].op = pc[b].op
        /\ [pc[b] EXCEPT !.at = "release"].at = "release"
        /\ [pc[b] EXCEPT !.at = "release"].op = pc[b].op
    BY <2>2 DEF CallFrames
  <2> QED
    BY <1>1, <2>1, <2>3 DEF Wake, Idle
<1>2. CASE ~(b = a \/ pc[b].at = "asleep")
  BY <1>2 DEF Wake
<1> QED
  BY <1>1, <1>2

LEMMA ListStepGoesOn ==
  ASSUME Framed, NEW a \in Actors, ListStep(a)
  PROVE  GoesOn
<1>1. CASE Wake(a)
  <2>1. ASSUME NEW p \in Procs PROVE pc'[p] = pc[p] \/ pc'[p].at \notin {"idle", "dead", "sync"}
    <3>1. p \in Actors /\ p # Isr
      BY ActorsAre
    <3> QED
      BY <1>1, <3>1, WakeKeeps
  <2>2. pc[Isr] = Idle => pc'[Isr] = Idle
    BY <1>1, ActorsAre DEF Wake, Idle
  <2> QED
    BY <2>1, <2>2 DEF GoesOn
<1>2. CASE ~Wake(a) /\ Killed(a)
  <2>1. pc[a] # Idle
    BY <1>2 DEF ListStep, Premature, Walk, Unlink, Free, Decrement, Increment, Load, Store, AddTail, At, Idle
  <2> QED
    BY <1>2, <2>1, OopsEnds, ActorsAre DEF GoesOn, Killed
<1>3. CASE ~Wake(a) /\ Moves(a, Onward(a))
  <2>1. Onward(a) \cap {"idle", "dead", "sync"} = {}
    BY DEF Onward, ListLabels, InAdd, InDrop, InLoop
  <2> QED
    BY <1>3, <2>1, GoesOnMoves
<1> QED
  BY <1>1, <1>2, <1>3, ListStepMoves

LEMMA CallGoesOn ==
  ASSUME Framed, NEW p \in Procs,
         \/ Wait(p) \/ Signal(p) \/ Pick(p) \/ Copy(p) \/ Write(p)
         \/ Full(p) \/ Find(p) \/ Take(p) \/ Reset(p)
  PROVE  GoesOn
<1>1. CallLabels \cap {"idle", "dead", "sync"} = {}
  BY DEF CallLabels
<1> QED
  BY <1>1, CallMoves, GoesOnMoves, ActorsAre

LEMMA PushMoves ==
  ASSUME Framed, Push
  PROVE  Moves(Isr, {"next", "walk", "add", "fd", "wake"})
<1> DEFINE fr == pc[Isr]
<1>1. fr.at \notin {"idle", "dead"} /\ Isr \in Actors
  BY ActorsAre DEF Push, At
<1>2. fr \in CallFrames
  BY <1>1, Here DEF Framed
<1>3. CASE \E l \in {"next", "walk", "add"} : Goto(Isr, l)
  <2>1. PICK l \in {"next", "walk", "add"} : Goto(Isr, l)
    BY <1>3
  <2>2. l \in {"next", "walk", "add", "fd", "wake"}
    OBVIOUS
  <2> QED
    BY <1>1, <2>1, <2>2, MovesGoto
<1>4. CASE \E to \in {[fr EXCEPT !.at = "fd", !.fd = fr.fd + 1], [fr EXCEPT !.at = "wake"]} :
             Become(Isr, to)
  <2>1. PICK to \in {[fr EXCEPT !.at = "fd", !.fd = fr.fd + 1], [fr EXCEPT !.at = "wake"]} :
               Become(Isr, to)
    BY <1>4
  <2>2. to.at \in {"fd", "wake"} /\ to.op = fr.op
    BY <1>2 DEF CallFrames
  <2>3. to.at \in {"next", "walk", "add", "fd", "wake"}
    BY <2>2
  <2> QED
    BY <1>1, <2>1, <2>2, <2>3, MovesTo
<1> QED
  BY <1>3, <1>4 DEF Push

LEMMA PushGoesOn ==
  ASSUME Framed, Push
  PROVE  GoesOn
<1>1. {"next", "walk", "add", "fd", "wake"} \cap {"idle", "dead", "sync"} = {}
  OBVIOUS
<1> QED
  BY <1>1, PushMoves, GoesOnMoves, ActorsAre

LEMMA OpenGate ==
  ASSUME Framed, GateHeld, NEW call \in Programs \cap (Procs \X Ops), NEW f \in Fds,
         ku_pir_open(call[1], call[2], f)
  PROVE  GateHeld'
<1> DEFINE p == call[1]
           e == Entry[call[2]]
<1>1. p \in Procs /\ call[2] \in Ops /\ p \in Actors
  BY ActorsAre
<1>2. e \in {"read", "write", "find", "close", "walk"}
  BY <1>1 DEF Entry, Ops
<1>3. pc'[p].at = e /\ pc'[Isr] = pc[Isr]
  BY <1>1, ActorsAre DEF ku_pir_open, Become, Frame, Framed, TypeOK
<1>4. Enables(p)' /\ HasDevice(p)'
  BY <1>2, <1>3 DEF Enables, HasDevice
<1> QED
  BY <1>1, <1>4 DEF GateHeld

LEMMA ReleaseGate ==
  ASSUME Framed, GateHeld, NEW p \in Procs, ku_pir_release(p)
  PROVE  GateHeld'
<1>1. p \in Actors /\ Isr \in Actors \ {p} /\ Procs \subseteq Actors
  BY ActorsAre
<1>2. CASE At(p, "release") /\ depth' = depth + 1 /\ Goto(p, "sync")
  <2>1. pc[p] \in CallFrames
    BY <1>1, <1>2, Here DEF At, Framed
  <2>2. pc'[p].at = "sync"
    BY <1>1, <1>2, <2>1 DEF Goto, CallFrames, Framed, TypeOK
  <2>3. depth' # 0
    BY <1>2 DEF Framed, TypeOK
  <2> QED
    BY <2>2, <2>3 DEF GateHeld, HasDevice
<1>3. CASE /\ At(p, "sync") /\ pc[Isr] = Idle
           /\ Become(p, IF pc[p].op = "dead" THEN [at |-> "dead"] ELSE Idle)
           /\ UNCHANGED depth
  <2>1. \A b \in Actors \ {p} : pc'[b] = pc[b]
    BY <1>3 DEF Become, Framed, TypeOK
  <2>2. ~Enables(p)
    BY <1>3 DEF At, Enables
  <2>3. module' = module /\ depth' = depth /\ pc'[Isr] = Idle
    BY <1>1, <1>3, <2>1 DEF ku_pir_release
  <2>4. \A q \in Procs : Enables(q) => Enables(q)'
    BY <1>1, <2>1, <2>2 DEF Enables
  <2> QED
    BY <2>3, <2>4 DEF GateHeld
<1> QED
  BY <1>2, <1>3 DEF ku_pir_release

LEMMA ExitGate ==
  ASSUME Framed, GateHeld, ExitBegin \/ ExitNext \/ ExitEnd
  PROVE  GateHeld'
<1>1. \A b \in Actors \ {Rmmod} : pc'[b] = pc[b]
  BY DEF ExitBegin, ExitNext, ExitEnd, Become, Framed, TypeOK
<1>2. pc'[Isr] = pc[Isr] /\ \A p \in Procs : pc'[p] = pc[p]
  BY <1>1, ActorsAre
<1>3. CASE ExitBegin
  BY <1>2, <1>3 DEF ExitBegin, Running, GateHeld, Enables, HasDevice
<1>4. CASE ExitNext
  BY <1>2, <1>4, GateKept DEF ExitNext, GoesOn, gate
<1>5. CASE ExitEnd
  BY <1>5 DEF ExitEnd, GateHeld
<1> QED
  BY <1>3, <1>4, <1>5

LEMMA IsrGate ==
  ASSUME Framed, GateHeld, ku_pir_isr
  PROVE  GateHeld'
<1>1. module # "unloaded" /\ depth = 0 /\ UNCHANGED <<depth, module>>
  BY DEF ku_pir_isr, Running, gate
<1>2. \A p \in Procs : pc'[p] = pc[p]
  BY ActorsAre DEF ku_pir_isr, Become, Framed, TypeOK
<1> SUFFICES ASSUME module \notin {"request", "disable"} PROVE GateHeld'
  BY <1>1 DEF GateHeld
<1>3. PICK p \in Procs : Enables(p)
  BY <1>1 DEF GateHeld
<1>4. Enables(p)' /\ HasDevice(p)'
  BY <1>2, <1>3 DEF Enables, HasDevice
<1> QED
  BY <1>4 DEF GateHeld

(* request_irq enables the interrupt, whoever has the device; disable_irq   *)
(* takes that back, and waits.                                              *)
LEMMA InitStepGate ==
  ASSUME Framed, GateHeld, InitIrq \/ InitQueues
  PROVE  GateHeld'
<1>1. pc' = pc /\ depth \in Nat
  BY DEF InitIrq, InitQueues, Framed, TypeOK
<1>2. CASE InitIrq
  <2>1. CASE module = "request" /\ module' = "disable"
    BY <2>1 DEF GateHeld
  <2>2. CASE module = "disable" /\ module' = "quiet" /\ depth' = depth + 1
    <3>1. depth' # 0
      BY <1>1, <2>2
    <3> QED
      BY <2>2, <3>1 DEF GateHeld
  <2>3. CASE module = "quiet" /\ pc[Isr] = Idle /\ module' = "queues" /\ depth' = depth
    BY <1>1, <2>3 DEF GateHeld, Enables
  <2> QED
    BY <1>2, <2>1, <2>2, <2>3 DEF InitIrq
<1>3. CASE InitQueues
  BY <1>1, <1>3 DEF InitQueues, GateHeld, Enables, HasDevice
<1> QED
  BY <1>2, <1>3

LEMMA NextGate ==
  ASSUME IInv, [Next]_vars
  PROVE  GateHeld'
<1>1. Framed /\ GateHeld
  BY DEF IInv, Framed
<1>2. CASE UNCHANGED vars \/ Glitch
  BY <1>1, <1>2, GateKept DEF vars, gate, Glitch, GoesOn
<1>3. ASSUME NEW a \in Actors, ListStep(a) PROVE GateHeld'
  <2>1. UNCHANGED <<depth, module>>
    BY <1>3 DEF ListStep, Premature, Walk, Unlink, Free, Decrement, Increment, Load, Store, AddTail, Wake, gate
  <2> QED
    BY <1>1, <1>3, <2>1, ListStepGoesOn, GateKept
<1>4. ASSUME NEW p \in Procs, ThreadStep(p) \/ Signal(p) PROVE GateHeld'
  <2>1. CASE ku_pir_release(p)
    BY <1>1, <2>1, ReleaseGate
  <2>2. CASE Fault(p)
    BY <2>2 DEF Fault, GateHeld, gate
  <2>3. CASE ~ku_pir_release(p) /\ ~Fault(p)
    <3>1. UNCHANGED <<depth, module>>
      BY <1>4, <2>3 DEF ThreadStep, Wait, Signal, Pick, Copy, Write, Full, Find, Take, Reset, gate
    <3> QED
      BY <1>1, <1>4, <2>3, <3>1, CallGoesOn, GateKept DEF ThreadStep
  <2> QED
    BY <2>1, <2>2, <2>3
<1>5. CASE Push
  BY <1>1, <1>5, PushGoesOn, GateKept DEF Push, gate
<1>6. ASSUME NEW call \in Programs \cap (Procs \X Ops), NEW f \in Fds,
             ku_pir_open(call[1], call[2], f)
      PROVE  GateHeld'
  BY <1>1, <1>6, OpenGate
<1>7. CASE ku_pir_isr \/ ExitBegin \/ ExitNext \/ ExitEnd
  BY <1>1, <1>7, IsrGate, ExitGate
<1>8. CASE InitIrq \/ InitQueues
  BY <1>1, <1>8, InitStepGate
<1> QED
  BY <1>2, <1>3, <1>4, <1>5, <1>6, <1>7, <1>8 DEF Next

(* The driver enables the interrupt when the device is opened and disables *)
(* it, waiting for a handler that runs, when it is released; init takes    *)
(* back that request_irq enabled it.  However opens and releases of any    *)
(* number of threads overlap with each other, with init and with exit,     *)
(* the interrupt is enabled, and its handler runs, only while a thread has *)
(* the device open (ku_pir.c:36, 44, 279-286): once disable_irq of init    *)
(* has been called, and has returned.                                      *)
THEOREM HandlerHeld == Spec => []HandlerNeedsDevice
<1>1. Init => IInv
  <2>1. Init => GateHeld
    BY ActorsAre DEF Init, GateHeld
  <2> QED
    BY <2>1, InitFramed DEF IInv, Framed
<1>2. IInv /\ [Next]_vars => IInv'
  BY NextFramed, NextGate DEF IInv, Framed
<1>3. IInv => HandlerNeedsDevice
  BY DEF IInv, GateHeld, HandlerNeedsDevice, Enables, HasDevice
<1> QED
  BY <1>1, <1>2, <1>3, PTL DEF Spec

(***************************************************************************)
(* No reader sleeps over an entry.  That needs one reading thread only: of *)
(* two readers, the one that takes an entry stores the counter after the   *)
(* handler has woken both, and wakes nobody.  And it needs producers that  *)
(* reach their wake-up: a write that adds an entry is killed by a poisoned *)
(* head of a list, which two actors that take one entry off it may leave.  *)
(* If the handler is killed, the machine is.                               *)
(***************************************************************************)
OneReader ==
  \A p, q \in Procs : <<p, "read">> \in Programs /\ <<q, "read">> \in Programs => p = q

NoWriters == \A p \in Procs : <<p, "write">> \notin Programs

(* What a thread runs is a call of its program.                             *)
Called ==
  \A p \in Procs : \/ pc[p].at \in {"idle", "dead"} \/ pc[p].op = "dead"
                   \/ <<p, pc[p].op>> \in Programs

(* The head of the only descriptor is never taken for an entry.             *)
HeadWhole ==
  KUPIR_MAX_DEV = 1 =>
    /\ prev[1] # Poison
    /\ \A a \in Actors : /\ pc[a].at \in {"unlink", "free"} => pc[a].pos \in Nodes
                         /\ pc[a].at = "add2" => pc[a].prv # Poison

(* It stays so as long as no entry is taken off whose prev is poisoned.     *)
SafeUnlinks == \A a \in Actors : pc[a].at = "unlink" => prev[pc[a].pos] # Poison

(* The actors that store a counter and will then wake the readers.          *)
Rouses(a) ==
  /\ pc[a].at \notin {"idle", "dead"}
  /\ pc[a].op = "isr" \/ (pc[a].op = "write" /\ pc[a].at \in InAdd)

Roused ==
  \A p \in Procs :
    Running /\ pc[p].at = "asleep" /\ ku_pir_volume[pc[p].fd] > 0
      => \E a \in Actors : Rouses(a)

WakeInv == Framed /\ Called /\ Roused

LEMMA NextCalled ==
  ASSUME Framed, Called, [Next]_vars
  PROVE  Called'
<1>1. CASE UNCHANGED pc
  BY <1>1 DEF Called
<1>2. ASSUME NEW a \in Actors, NEW L, Moves(a, L) PROVE Called'
  BY <1>2, ActorsAre DEF Called, Moves
<1>3. ASSUME NEW a \in Actors, Oops(a) PROVE Called'
  BY <1>3, OopsEnds, ActorsAre DEF Called
<1>4. ASSUME NEW a \in Actors, Wake(a) PROVE Called'
  <2>1. ASSUME NEW p \in Procs
        PROVE  \/ pc'[p].at \in {"idle", "dead"} \/ pc'[p].op = "dead"
               \/ <<p, pc'[p].op>> \in Programs
    <3>1. p \in Actors
      BY ActorsAre
    <3>2. pc'[p] = Idle \/ (pc'[p].op = pc[p].op /\ (pc[p].at \in {"idle", "dead"} => pc'[p] = pc[p]))
      BY <1>4, <3>1, WakeKeeps
    <3> QED
      BY <3>2 DEF Called, Idle
  <2> QED
    BY <2>1 DEF Called
<1>5. ASSUME NEW a \in Actors, ListStep(a) PROVE Called'
  BY <1>2, <1>3, <1>4, <1>5, ListStepMoves DEF Killed
<1>6. ASSUME NEW p \in Procs, ThreadStep(p) \/ Signal(p) PROVE Called'
  <2>1. p \in Actors
    BY ActorsAre
  <2>2. CASE ku_pir_release(p) \/ Fault(p)
    <3>1. CASE Become(p, Idle) \/ Become(p, [at |-> "dead"])
      BY <2>1, <3>1, ActorsAre DEF Become, Idle, Framed, TypeOK, Called
    <3>2. CASE At(p, "release") /\ Goto(p, "sync")
      <4>1. Moves(p, {"sync"})
        BY <2>1, <3>2, MovesGoto DEF At
      <4> QED
        BY <1>2, <2>1, <4>1
    <3> QED
      BY <2>2, <3>1, <3>2 DEF ku_pir_release, Fault
  <2> QED
    BY <1>2, <1>6, <2>1, <2>2, CallMoves DEF ThreadStep
<1>7. ASSUME NEW a \in Actors, a = Isr \/ a = Rmmod, \A b \in Actors \ {a} : pc'[b] = pc[b]
      PROVE  Called'
  BY <1>7, ActorsAre DEF Called
<1>8. CASE ku_pir_isr \/ Push
  <2>1. \A b \in Actors \ {Isr} : pc'[b] = pc[b]
    BY <1>8 DEF ku_pir_isr, Push, Goto, Become, Framed, TypeOK
  <2> QED
    BY <1>7, <2>1, ActorsAre
<1>9. CASE ExitBegin \/ ExitNext \/ ExitEnd
  <2>1. \A b \in Actors \ {Rmmod} : pc'[b] = pc[b]
    BY <1>9 DEF ExitBegin, ExitNext, ExitEnd, Become, Framed, TypeOK
  <2> QED
    BY <1>7, <2>1, ActorsAre
<1>10. ASSUME NEW call \in Programs \cap (Procs \X Ops), NEW f \in Fds,
              ku_pir_open(call[1], call[2], f)
       PROVE  Called'
  <2>1. call = <<call[1], call[2]>> /\ call[1] \in Procs /\ call[1] \in Actors
    BY ActorsAre
  <2>2. pc'[call[1]].op = call[2] /\ \A b \in Actors \ {call[1]} : pc'[b] = pc[b]
    BY <1>10, <2>1 DEF ku_pir_open, Become, Frame, Framed, TypeOK
  <2>3. <<call[1], call[2]>> \in Programs
    BY <2>1
  <2> QED
    BY <2>1, <2>2, <2>3, ActorsAre DEF Called
<1> QED
  BY <1>1, <1>5, <1>6, <1>8, <1>9, <1>10 DEF Next, vars, Glitch, InitIrq, InitQueues

(***************************************************************************)
(* The only head.                                                          *)
(***************************************************************************)
LEMMA HeadKept ==
  ASSUME Framed, HeadWhole, NEW a \in Actors, \A b \in Actors \ {a} : pc'[b] = pc[b],
         KUPIR_MAX_DEV = 1 => /\ prev'[1] # Poison
                              /\ pc'[a].at \in {"unlink", "free"} => pc'[a].pos \in Nodes
                              /\ pc'[a].at = "add2" => pc'[a].prv # Poison
  PROVE  HeadWhole'
BY DEF HeadWhole

LEMMA ListStepHead ==
  ASSUME Framed, HeadWhole, SafeUnlinks, NEW a \in Actors, ListStep(a)
  PROVE  HeadWhole'
<1> SUFFICES ASSUME KUPIR_MAX_DEV = 1 PROVE HeadWhole'
  BY DEF HeadWhole
<1> DEFINE fr == pc[a]
           x == fr.pos
<1>1. fr.at \notin {"idle", "dead"}
  BY DEF ListStep, Premature, Walk, Unlink, Free, Decrement, Increment, Load, Store, AddTail, Wake, At
<1>2. fr \in CallFrames /\ Placed(fr) /\ Owned(a, fr) /\ Holds(fr) /\ TypeOK /\ FramesOK
  BY <1>1, Here DEF Framed
<1>3. Fds = {1} /\ fr.fd = 1 /\ 1 \notin Nodes /\ 1 # Poison /\ 1 \in Cells
  BY <1>2, KuPirAssumption DEF Fds, CallFrames, Poison, Cells
<1>4. prev[1] # Poison /\ (fr.at \in {"unlink", "free"} => x \in Nodes)
      /\ Poison \notin Nodes
  BY KuPirAssumption DEF HeadWhole, Poison
<1>5. ASSUME Oops(a), prev'[1] # Poison PROVE HeadWhole'
  BY <1>5, OopsEnds, HeadKept
<1>6. CASE Walk(a)
  <2> DEFINE y == IF fr.q = 0 THEN next[fr.fd] ELSE fr.q
  <2>1. y \in Cells
    BY <1>2, <1>3 DEF CallFrames, TypeOK
  <2>2. CASE y = fr.fd /\ Become(a, [fr EXCEPT !.at = AfterLoop[fr.op], !.q = 0])
    <3>1. fr.op \in {"read", "write", "isr", "KU_FLUSH", "KU_CLOSE", "exit"}
      BY <1>2, <1>6 DEF Walk, At, CallFrames, Placed, Ops, InLoop, InDrop, InAdd, Leaving
    <3>2. AfterLoop[fr.op] \notin {"unlink", "free", "add2"}
      BY <3>1, AfterLoops
    <3> DEFINE to == [fr EXCEPT !.at = AfterLoop[fr.op], !.q = 0]
    <3>3. to.at = AfterLoop[fr.op] /\ Become(a, to)
      BY <1>2, <2>2 DEF CallFrames
    <3> HIDE DEF to
    <3>4. pc'[a] = to /\ \A b \in Actors \ {a} : pc'[b] = pc[b]
      BY <1>2, <3>3 DEF Become, TypeOK
    <3> QED
      BY <1>4, <1>6, <3>2, <3>3, <3>4, HeadKept DEF Walk, memory
  <2>3. CASE /\ y # fr.fd
             /\ Become(a, [fr EXCEPT !.at = "unlink", !.pos = y, !.q = next[y]])
    <3>1. y \in Nodes
      BY <1>3, <2>1, <2>3 DEF Cells
    <3> DEFINE to == [fr EXCEPT !.at = "unlink", !.pos = y, !.q = next[y]]
    <3>3. to.at = "unlink" /\ to.pos = y /\ Become(a, to)
      BY <1>2, <2>3 DEF CallFrames
    <3> HIDE DEF to
    <3>4. pc'[a] = to /\ \A b \in Actors \ {a} : pc'[b] = pc[b]
      BY <1>2, <3>3 DEF Become, TypeOK
    <3> QED
      BY <1>4, <1>6, <3>1, <3>3, <3>4, HeadKept DEF Walk, memory
  <2> QED
    BY <1>4, <1>5, <1>6, <2>2, <2>3 DEF Walk, memory
<1>7. CASE Unlink(a) /\ prev[x] = Poison
  BY <1>7 DEF Unlink, At, SafeUnlinks
<1>8. CASE Unlink(a) /\ prev[x] # Poison
  <2>1. x \in Nodes /\ x \in Cells /\ prev[x] # Poison /\ next[x] \in Cells
    BY <1>2, <1>4, <1>8 DEF Unlink, At, Cells, TypeOK
  <2>2. prev'[1] # Poison
    BY <1>2, <1>3, <1>4, <1>8, <2>1 DEF Unlink, TypeOK
  <2> DEFINE to == [fr EXCEPT !.at = "free", !.prv = prev[x], !.nxt = next[x]]
  <2>3. to.at = "free" /\ to.pos = x /\ Become(a, to)
    BY <1>2, <1>8 DEF Unlink, CallFrames
  <2> HIDE DEF to
  <2>4. pc'[a] = to /\ \A b \in Actors \ {a} : pc'[b] = pc[b]
    BY <1>2, <2>3 DEF Become, TypeOK
  <2> QED
    BY <2>1, <2>2, <2>3, <2>4, HeadKept
<1>9. CASE Free(a)
  <2>1. x \in Nodes /\ x # 1
    BY <1>3, <1>4, <1>9 DEF Free, At
  <2>2. prev'[1] # Poison
    BY <1>2, <1>3, <1>4, <1>9, <2>1 DEF Free, TypeOK
  <2>3. CASE Oops(a)
    BY <2>2, <2>3, OopsEnds, HeadKept
  <2>4. ASSUME NEW l \in {"dec", "walk"}, NEW q,
               Become(a, [fr EXCEPT !.at = l, !.q = q, !.pos = 0, !.prv = 0, !.nxt = 0])
        PROVE  HeadWhole'
    <3> DEFINE to == [fr EXCEPT !.at = l, !.q = q, !.pos = 0, !.prv = 0, !.nxt = 0]
    <3>1. to.at = l /\ Become(a, to)
      BY <1>2, <2>4 DEF CallFrames
    <3> HIDE DEF to
    <3>2. pc'[a] = to /\ \A b \in Actors \ {a} : pc'[b] = pc[b]
      BY <1>2, <3>1 DEF Become, TypeOK
    <3> QED
      BY <2>2, <3>1, <3>2, HeadKept
  <2> QED
    BY <1>9, <2>3, <2>4 DEF Free
<1>10. CASE Decrement(a) \/ Increment(a)
  <2>1. prev' = prev
    BY <1>10 DEF Decrement, Increment, Load, Store, memory
  <2>2. ASSUME NEW l, NEW m, NEW v, m \notin {"unlink", "free", "add2"},
               Load(a, l, m, v) \/ Store(a, l, m)
        PROVE  pc'[a].at = m /\ \A b \in Actors \ {a} : pc'[b] = pc[b]
    <3>1. \A w : [fr EXCEPT !.at = m, !.n = w].at = m
      BY <1>2 DEF CallFrames
    <3>2. \E w : pc' = [pc EXCEPT ![a] = [fr EXCEPT !.at = m, !.n = w]]
      BY <2>2 DEF Load, Store, Become
    <3> QED
      BY <1>2, <3>1, <3>2 DEF TypeOK
  <2>3. \/ \E v : Load(a, "dec", "dec2", v) \/ Load(a, "inc", "inc2", v)
        \/ \E l, m : m \in {"release", "add", "next", "wake"} /\ Store(a, l, m)
    <3>1. CASE Decrement(a)
      BY <3>1 DEF Decrement
    <3>2. CASE Increment(a)
      BY <3>2 DEF Increment
    <3> QED
      BY <1>10, <3>1, <3>2
  <2>4. pc'[a].at \notin {"unlink", "free", "add2"} /\ \A b \in Actors \ {a} : pc'[b] = pc[b]
    <3>1. ASSUME NEW v, Load(a, "dec", "dec2", v) PROVE pc'[a].at = "dec2"
      BY <2>2, <3>1
    <3>2. ASSUME NEW v, Load(a, "inc", "inc2", v) PROVE pc'[a].at = "inc2"
      BY <2>2, <3>2
    <3>3. ASSUME NEW l, NEW m \in {"release", "add", "next", "wake"}, Store(a, l, m)
          PROVE  pc'[a].at = m
      BY <2>2, <3>3
    <3>4. \A b \in Actors \ {a} : pc'[b] = pc[b]
      BY <1>2, <2>3 DEF Load, Store, Become, TypeOK
    <3> QED
      BY <2>3, <3>1, <3>2, <3>3, <3>4
  <2> QED
    BY <1>4, <2>1, <2>4, HeadKept
<1>11. CASE AddTail(a)
  <2>1. fr.op \in {"isr", "write"} /\ fr.at \in {"add", "add2", "add3"}
    BY <1>2, <1>11 DEF AddTail, At, CallFrames, Placed, Ops, InLoop, InDrop, InAdd, Leaving
  <2>2. fr.item \in Nodes
    BY <1>2, <2>1 DEF Holds, Leaving
  <2>3. fr.item \in Cells /\ prev[fr.fd] = prev[1]
    BY <1>3, <2>2 DEF Cells
  <2>4. prev'[1] # Poison
    BY <1>2, <1>3, <1>4, <1>11, <2>2, <2>3 DEF AddTail, TypeOK
  <2>5. ASSUME NEW l \in {"add2", "add3"}, NEW v, v # Poison,
               Become(a, [fr EXCEPT !.at = l, !.prv = v])
        PROVE  HeadWhole'
    <3> DEFINE to == [fr EXCEPT !.at = l, !.prv = v]
    <3>1. to.at = l /\ to.prv = v /\ Become(a, to)
      BY <1>2, <2>5 DEF CallFrames
    <3> HIDE DEF to
    <3>2. pc'[a] = to /\ \A b \in Actors \ {a} : pc'[b] = pc[b]
      BY <1>2, <3>1 DEF Become, TypeOK
    <3> QED
      BY <2>4, <2>5, <3>1, <3>2, HeadKept
  <2>6. CASE Goto(a, "inc")
    <3>1. Moves(a, {"inc"})
      BY <1>1, <2>6, MovesGoto
    <3> QED
      BY <2>4, <3>1, HeadKept DEF Moves
  <2>7. CASE Become(a, [fr EXCEPT !.at = "add2", !.prv = prev[fr.fd]])
    <3>1. prev[fr.fd] # Poison
      BY <1>4, <2>3
    <3> DEFINE v == prev[fr.fd]
    <3>2. v # Poison /\ Become(a, [fr EXCEPT !.at = "add2", !.prv = v])
      BY <2>7, <3>1
    <3> HIDE DEF v
    <3> QED
      BY <2>5, <3>2
  <2>8. CASE Become(a, [fr EXCEPT !.at = "add3", !.prv = 0])
    <3> DEFINE v == 0
    <3>1. v # Poison /\ Become(a, [fr EXCEPT !.at = "add3", !.prv = v])
      BY <2>8 DEF Poison
    <3> HIDE DEF v
    <3> QED
      BY <2>5, <3>1
  <2> QED
    BY <1>5, <1>11, <2>4, <2>6, <2>7, <2>8 DEF AddTail
<1>13. CASE Premature(a)
  BY <1>4, <1>5, <1>13 DEF Premature, memory
<1>12. CASE Wake(a)
  <2>1. ASSUME NEW b \in Actors
        PROVE  pc'[b] = pc[b] \/ pc'[b].at \notin {"unlink", "free", "add2"}
    BY <1>12, <2>1, WakeKeeps DEF Wake, Idle
  <2>2. prev' = prev
    BY <1>12 DEF Wake, memory
  <2> QED
    BY <2>1, <2>2 DEF HeadWhole
<1> QED
  BY <1>6, <1>7, <1>8, <1>9, <1>10, <1>11, <1>12, <1>13 DEF ListStep

LEMMA NextHead ==
  ASSUME Framed, HeadWhole, SafeUnlinks, [Next]_vars
  PROVE  HeadWhole'
<1> SUFFICES ASSUME KUPIR_MAX_DEV = 1 PROVE HeadWhole'
  BY DEF HeadWhole
<1>1. prev[1] # Poison /\ Isr \in Actors /\ Rmmod \in Actors
  BY ActorsAre DEF HeadWhole
<1>2. CASE UNCHANGED <<pc, prev>>
  BY <1>2 DEF HeadWhole
<1>3. ASSUME NEW p \in Procs, ThreadStep(p) \/ Signal(p) PROVE HeadWhole'
  <2>1. p \in Actors
    BY ActorsAre
  <2>2. CASE ku_pir_release(p) \/ Fault(p)
    <3>1. prev' = prev
      BY <2>2 DEF ku_pir_release, Fault, memory
    <3>2. CASE Become(p, Idle) \/ Become(p, [at |-> "dead"])
      <4>1. pc'[p].at \in {"idle", "dead"} /\ \A b \in Actors \ {p} : pc'[b] = pc[b]
        BY <2>1, <3>2 DEF Become, Idle, Framed, TypeOK
      <4> QED
        BY <1>1, <2>1, <3>1, <4>1, HeadKept
    <3>3. CASE At(p, "release") /\ Goto(p, "sync")
      <4>1. Moves(p, {"sync"})
        BY <2>1, <3>3, MovesGoto DEF At
      <4> QED
        BY <1>1, <2>1, <3>1, <4>1, HeadKept DEF Moves
    <3> QED
      BY <2>2, <3>2, <3>3 DEF ku_pir_release, Fault
  <2>3. CASE ~ku_pir_release(p) /\ ~Fault(p)
    <3>1. Moves(p, CallLabels)
      BY <1>3, <2>3, CallMoves DEF ThreadStep
    <3>2. \A b \in Actors \ {p} : pc'[b] = pc[b]
      BY <3>1 DEF Moves
    <3>3. pc'[p].at \notin {"unlink", "free", "add2"}
      BY <3>1 DEF Moves, CallLabels
    <3>4. prev'[1] # Poison
      <4>1. CASE Reset(p) /\ prev' # prev
        <5>1. prev' = [prev EXCEPT ![pc[p].fd] = pc[p].fd]
          BY <4>1 DEF Reset
        <5>2. 1 \in Cells /\ 1 # Poison
          BY ActorsAre DEF Cells, Poison
        <5> QED
          BY <1>1, <5>1, <5>2 DEF Framed, TypeOK
      <4>2. CASE ~Reset(p)
        <5>1. prev' = prev
          BY <1>3, <2>3, <4>2
             DEF ThreadStep, Wait, Signal, Pick, Copy, Write, Full, Find, Take, memory
        <5> QED
          BY <1>1, <5>1
      <4> QED
        BY <1>1, <4>1, <4>2
    <3> QED
      BY <2>1, <3>2, <3>3, <3>4, HeadKept
  <2> QED
    BY <2>2, <2>3
<1>4. CASE ku_pir_isr \/ Push
  <2>1. prev' = prev /\ \A b \in Actors \ {Isr} : pc'[b] = pc[b]
    BY <1>4 DEF ku_pir_isr, Push, Goto, Become, Framed, TypeOK, memory
  <2>2. pc'[Isr].at \notin {"unlink", "free", "add2"}
    <3>1. CASE ku_pir_isr
      BY <1>1, <3>1 DEF ku_pir_isr, Become, Frame, Framed, TypeOK
    <3>2. CASE Push
      BY <1>1, <3>2, PushMoves DEF Moves
    <3> QED
      BY <1>4, <3>1, <3>2
  <2> QED
    BY <1>1, <2>1, <2>2, HeadKept
<1>5. CASE ExitBegin \/ ExitNext \/ ExitEnd
  <2>1. prev' = prev /\ \A b \in Actors \ {Rmmod} : pc'[b] = pc[b]
    BY <1>5 DEF ExitBegin, ExitNext, ExitEnd, Become, Framed, TypeOK, memory
  <2>2. pc'[Rmmod].at \notin {"unlink", "free", "add2"}
    BY <1>1, <1>5 DEF ExitBegin, ExitNext, ExitEnd, Become, Frame, Idle, Framed, TypeOK
  <2> QED
    BY <1>1, <2>1, <2>2, HeadKept
<1>6. ASSUME NEW call \in Programs \cap (Procs \X Ops), NEW f \in Fds,
             ku_pir_open(call[1], call[2], f)
      PROVE  HeadWhole'
  <2> DEFINE e == Entry[call[2]]
  <2>1. call[1] \in Procs /\ call[1] \in Actors /\ call[2] \in Ops
    BY ActorsAre
  <2>2. e \in {"read", "write", "find", "close", "walk"}
    BY <2>1 DEF Entry, Ops
  <2>3. pc'[call[1]].at = e /\ prev' = prev /\ \A b \in Actors \ {call[1]} : pc'[b] = pc[b]
    BY <1>6, <2>1 DEF ku_pir_open, Become, Frame, Framed, TypeOK, memory
  <2> HIDE DEF e
  <2> QED
    BY <1>1, <2>1, <2>2, <2>3, HeadKept
<1>7. CASE InitIrq \/ InitQueues
  <2>1. 1 \in Cells /\ 1 \in Fds /\ 1 # Poison
    BY ActorsAre DEF Cells, Poison
  <2>2. pc' = pc /\ prev'[1] # Poison
    BY <1>1, <1>7, <2>1 DEF InitIrq, InitQueues, memory
  <2> QED
    BY <2>2 DEF HeadWhole
<1> QED
  BY <1>2, <1>3, <1>4, <1>5, <1>6, <1>7, ListStepHead DEF Next, vars, memory, Glitch

(***************************************************************************)
(* No lost wake-up.                                                        *)
(***************************************************************************)
LEMMA RousedKept ==
  ASSUME Framed, Roused, Running' => Running,
         NEW a \in Actors, \A b \in Actors \ {a} : pc'[b] = pc[b],
         pc'[a].at # "asleep",
         Running' /\ Rouses(a) => Rouses(a)',
         \A f \in Fds : ku_pir_volume'[f] = ku_pir_volume[f] \/ ~(ku_pir_volume'[f] > 0)
  PROVE  Roused'
<1> SUFFICES ASSUME NEW p \in Procs, Running', pc'[p].at = "asleep", ku_pir_volume'[pc'[p].fd] > 0
             PROVE  \E b \in Actors : Rouses(b)'
  BY DEF Roused
<1>1. p \in Actors \ {a} /\ pc'[p] = pc[p]
  BY ActorsAre
<1>2. pc[p] \in CallFrames
  BY <1>1, Here DEF Framed
<1>3. pc[p].fd \in Fds /\ ku_pir_volume[pc[p].fd] > 0
  BY <1>1, <1>2 DEF CallFrames
<1>4. PICK b \in Actors : Rouses(b)
  BY <1>1, <1>3 DEF Roused
<1>5. Rouses(b)'
  BY <1>4 DEF Rouses
<1> QED
  BY <1>5

LEMMA PushRoused ==
  ASSUME Framed, Push \/ (ListStep(Isr) /\ ~Wake(Isr) /\ ~Killed(Isr))
  PROVE  Rouses(Isr)'
<1>1. Isr \in Actors
  BY ActorsAre
<1>2. PICK L : Moves(Isr, L) /\ L \cap {"idle", "dead"} = {} 
  <2>1. Onward(Isr) \cap {"idle", "dead"} = {}
    BY DEF Onward, ListLabels, InAdd, InDrop, InLoop
  <2> QED
    BY <1>1, <2>1, PushMoves, ListStepMoves
<1>3. pc[Isr] \in CallFrames /\ Owned(Isr, pc[Isr]) /\ pc[Isr].at # "oops"
  <2>1. pc[Isr].at # "oops"
    BY DEF Push, ListStep, Premature, Walk, Unlink, Free, Decrement, Increment, Load, Store, AddTail, At
  <2> QED
    BY <1>1, <1>2, <2>1, Here DEF Moves, Framed
<1>4. pc[Isr].op = "isr"
  BY <1>3 DEF Owned
<1> QED
  BY <1>2, <1>4 DEF Moves, Rouses

LEMMA ListStepRoused ==
  ASSUME OneReader, NoWriters, Framed, Called, Roused,
         NEW a \in Actors, ListStep(a)
  PROVE  Roused'
<1> DEFINE fr == pc[a]
<1>1. CASE Wake(a)
  <2>1. \A p \in Procs : pc'[p].at # "asleep"
    BY <1>1, WakeKeeps, ActorsAre
  <2> QED
    BY <2>1 DEF Roused
<1> SUFFICES ASSUME ~Wake(a) PROVE Roused'
  BY <1>1
<1>2. fr.at \notin {"idle", "dead"} /\ Running /\ module' = module
  BY DEF ListStep, Premature, Walk, Unlink, Free, Decrement, Increment, Load, Store, AddTail, At, gate
<1>3. fr \in CallFrames /\ Placed(fr) /\ Owned(a, fr) /\ Holds(fr) /\ TypeOK
  BY <1>2, Here DEF Framed
<1>4. CASE a = Isr
  <2>1. CASE Killed(a)
    BY <1>4, <2>1, OopsEnds, ActorsAre DEF Killed, Running, Roused
  <2>2. CASE ~Killed(a)
    BY <1>4, <2>2, PushRoused DEF Roused
  <2> QED
    BY <2>1, <2>2
<1> SUFFICES ASSUME a # Isr PROVE Roused'
  BY <1>4
<1>5. fr.op # "isr" /\ (fr.op = "write" => a \in Procs)
  BY <1>2, <1>3, ActorsAre DEF Owned, Ops
<1>6. CASE Killed(a)
  <2>1. ~Rouses(a)
    <3>1. SUFFICES ASSUME fr.op = "write" PROVE FALSE
      BY <1>5 DEF Rouses
    <3> QED
      BY <1>2, <1>5, <3>1 DEF Called, NoWriters
  <2>2. Oops(a) /\ ku_pir_volume' = ku_pir_volume
    BY <1>6 DEF Killed
  <2>3. pc'[a].at # "asleep" /\ \A b \in Actors \ {a} : pc'[b] = pc[b]
    BY <2>2, OopsEnds
  <2> QED
    BY <1>2, <2>1, <2>2, <2>3, RousedKept DEF Running
<1>7. CASE ~Killed(a)
  <2>1. Moves(a, Onward(a))
    BY <1>7, ListStepMoves
  <2>2. \A b \in Actors \ {a} : pc'[b] = pc[b]
    BY <2>1 DEF Moves
  <2>3. pc'[a].at # "asleep"
    BY <2>1 DEF Moves, Onward, ListLabels, InAdd, InDrop, InLoop
  <2>4. Rouses(a) => Rouses(a)'
    BY <1>5, <2>1 DEF Moves, Onward, Rouses, InAdd
  <2>5. CASE ku_pir_volume' = ku_pir_volume
    BY <1>2, <2>2, <2>3, <2>4, <2>5, RousedKept
  <2>6. CASE ku_pir_volume' # ku_pir_volume
    <3>1. PICK l, m : Store(a, l, m) /\ StoreEnds(a, l, m) /\ m \notin {"inc2"}
      BY <2>6 DEF ListStep, Premature, Walk, Unlink, Free, Decrement, Increment, Load, AddTail,
         StoreEnds
    <3>2. fr.at = l /\ pc'[a].at = m /\ pc'[a].op = fr.op
      <4>1. LET to == [fr EXCEPT !.at = m, !.n = 0]
            IN  to.at = m /\ Become(a, to)
        BY <1>3, <3>1 DEF Store, CallFrames
      <4> QED
        BY <1>3, <2>1, <3>1, <4>1 DEF Moves, Store, At, Become, TypeOK
    <3>3. CASE fr.op = "write"
      <4>1. m \in InAdd
        BY <3>1, <3>3, <1>3 DEF StoreEnds, InAdd
      <4> QED
        BY <3>2, <3>3, <4>1 DEF Rouses, Roused, InAdd
    <3>4. CASE fr.op # "write"
      <4>1. fr.op = "read" /\ a \in Procs
        BY <1>3, <1>5, <3>1, <3>2, <3>4, ActorsAre
           DEF StoreEnds, CallFrames, Placed, Owned, Ops, InLoop, InDrop, InAdd, Leaving
      <4>2. <<a, "read">> \in Programs
        BY <1>2, <4>1 DEF Called
      <4>3. ASSUME NEW p \in Procs, pc'[p].at = "asleep" PROVE FALSE
        <5>1. p \in Actors \ {a} /\ pc[p].at = "asleep"
          BY <2>2, <2>3, <4>3, ActorsAre
        <5>2. pc[p] \in CallFrames /\ Placed(pc[p])
          BY <5>1, Here DEF Framed
        <5>3. pc[p].op = "read"
          BY <5>1, <5>2, ActorsAre DEF CallFrames, Placed, Ops, InLoop, InDrop, InAdd, Leaving
        <5>4. <<p, "read">> \in Programs
          BY <5>1, <5>3 DEF Called
        <5> QED
          BY <4>1, <4>2, <5>1, <5>4 DEF OneReader
      <4> QED
        BY <4>3 DEF Roused
    <3> QED
      BY <3>3, <3>4
  <2> QED
    BY <2>5, <2>6
<1> QED
  BY <1>6, <1>7

LEMMA NextRoused ==
  ASSUME OneReader, NoWriters, Framed, Called, Roused, [Next]_vars
  PROVE  Roused'
<1>1. CASE UNCHANGED vars \/ Glitch
  BY <1>1 DEF vars, gate, Glitch, Roused, Running, Rouses
<1>2. ASSUME NEW p \in Procs, ThreadStep(p) \/ Signal(p) PROVE Roused'
  <2>1. p \in Actors /\ p # Isr
    BY ActorsAre
  <2>2. CASE Fault(p)
    BY <2>2 DEF Fault, gate, Running, Roused
  <2>3. CASE ku_pir_release(p)
    <3>1. pc[p].at \in Leaving
      BY <2>3 DEF ku_pir_release, At, Leaving
    <3>2. pc[p] \in CallFrames /\ Owned(p, pc[p])
      BY <2>1, <3>1, Here DEF Leaving, Framed
    <3>3. pc[p].op # "isr"
      BY <2>1, <3>2, ActorsAre DEF Owned, Ops
    <3>4. ~Rouses(p)
      BY <3>1, <3>3 DEF Rouses, Leaving, InAdd
    <3>5. pc'[p].at # "asleep" /\ \A b \in Actors \ {p} : pc'[b] = pc[b]
      <4>1. CASE Become(p, Idle) \/ Become(p, [at |-> "dead"])
        BY <2>1, <4>1 DEF Become, Idle, Framed, TypeOK
      <4>2. CASE At(p, "release") /\ Goto(p, "sync")
        <5>1. Moves(p, {"sync"})
          BY <2>1, <4>2, MovesGoto DEF At
        <5> QED
          BY <5>1 DEF Moves
      <4> QED
        BY <2>3, <4>1, <4>2 DEF ku_pir_release
    <3>6. Running /\ ku_pir_volume' = ku_pir_volume
      BY <2>3 DEF ku_pir_release, At
    <3> QED
      BY <2>1, <3>4, <3>5, <3>6, RousedKept
  <2>4. CASE ~ku_pir_release(p) /\ ~Fault(p)
    <3>1. Moves(p, CallLabels) /\ Running
      <4>1. \/ Wait(p) \/ Signal(p) \/ Pick(p) \/ Copy(p) \/ Write(p)
            \/ Full(p) \/ Find(p) \/ Take(p) \/ Reset(p)
        BY <1>2, <2>4 DEF ThreadStep
      <4> QED
        BY <4>1, CallMoves DEF Wait, Signal, Pick, Copy, Write, Full, Find, Take, Reset, At
    <3>2. pc[p].at \in {"read", "wait", "asleep", "pick", "copy", "write", "full", "find",
                        "take", "close", "init", "zero"}
      BY <1>2, <2>4
         DEF ThreadStep, Wait, Signal, Pick, Copy, Write, Full, Find, Take, Reset, At
    <3>3. pc[p] \in CallFrames /\ Owned(p, pc[p])
      BY <2>1, <3>2, Here DEF Framed
    <3>4. ~Rouses(p)
      BY <2>1, <3>2, <3>3, ActorsAre DEF Rouses, InAdd, Owned, Ops
    <3>5. \A b \in Actors \ {p} : pc'[b] = pc[b]
      BY <3>1 DEF Moves
    <3>6. \A f \in Fds : ku_pir_volume'[f] = ku_pir_volume[f] \/ ~(ku_pir_volume'[f] > 0)
      <4>1. CASE Reset(p) /\ ku_pir_volume' # ku_pir_volume
        <5>1. ku_pir_volume' = [ku_pir_volume EXCEPT ![pc[p].fd] = 0]
          BY <4>1 DEF Reset
        <5> QED
          BY <5>1 DEF Framed, TypeOK
      <4>2. CASE ~Reset(p)
        <5>1. ku_pir_volume' = ku_pir_volume
          BY <1>2, <2>4, <4>2
             DEF ThreadStep, Wait, Signal, Pick, Copy, Write, Full, Find, Take
        <5> QED
          BY <5>1
      <4> QED
        BY <4>1, <4>2
    <3>7. CASE pc'[p].at # "asleep"
      BY <2>1, <3>1, <3>4, <3>5, <3>6, <3>7, RousedKept
    <3>8. CASE pc'[p].at = "asleep"
      <4>1. At(p, "wait") /\ ~(ku_pir_volume[pc[p].fd] > 0) /\ Goto(p, "asleep")
        <5>1. Wait(p)
          <6>1. CASE Signal(p) \/ Full(p) \/ Take(p) \/ Reset(p)
            <7>1. \E l \in {"pick", "walk", "add", "init", "zero", "release"} : Goto(p, l)
              BY <6>1 DEF Signal, Full, Take, Reset
            <7>2. Moves(p, {"pick", "walk", "add", "init", "zero", "release"})
              BY <2>1, <3>2, <7>1, MovesGoto
            <7> QED
              BY <3>8, <7>2 DEF Moves
          <6>2. CASE Pick(p) \/ Copy(p)
            <7>1. \A l, y : [pc[p] EXCEPT !.at = l, !.pos = y].at = l
              BY <3>3 DEF CallFrames
            <7>2. \E l \in {"copy", "walk", "release"} :
                    \E y : pc' = [pc EXCEPT ![p] = [pc[p] EXCEPT !.at = l, !.pos = y]]
              BY <6>2 DEF Pick, Copy, Become
            <7> QED
              BY <2>1, <3>8, <7>1, <7>2 DEF Framed, TypeOK
          <6>3. CASE Write(p) \/ Find(p)
            <7>1. CASE Goto(p, "release")
              <8>1. Moves(p, {"release"})
                BY <2>1, <3>2, <7>1, MovesGoto
              <8> QED
                BY <3>8, <8>1 DEF Moves
            <7>2. CASE ~Goto(p, "release")
              <8>1. \A y : /\ [pc[p] EXCEPT !.at = "full", !.item = y].at = "full"
                           /\ [pc[p] EXCEPT !.at = "take", !.fd = y].at = "take"
                BY <3>3 DEF CallFrames
              <8>2. \/ \E y : pc' = [pc EXCEPT ![p] = [pc[p] EXCEPT !.at = "full", !.item = y]]
                    \/ \E y : pc' = [pc EXCEPT ![p] = [pc[p] EXCEPT !.at = "take", !.fd = y]]
                BY <6>3, <7>2 DEF Write, Find, Become
              <8>3. pc'[p].at \in {"full", "take"}
                <9>1. p \in DOMAIN pc
                  BY <2>1 DEF Framed, TypeOK
                <9>2. ASSUME NEW y, pc' = [pc EXCEPT ![p] = [pc[p] EXCEPT !.at = "full", !.item = y]]
                      PROVE  pc'[p].at = "full"
                  BY <8>1, <9>1, <9>2
                <9>3. ASSUME NEW y, pc' = [pc EXCEPT ![p] = [pc[p] EXCEPT !.at = "take", !.fd = y]]
                      PROVE  pc'[p].at = "take"
                  BY <8>1, <9>1, <9>3
                <9> QED
                  BY <8>2, <9>2, <9>3
              <8> QED
                BY <3>8, <8>3
            <7> QED
              BY <7>1, <7>2
          <6> QED
            BY <1>2, <2>4, <6>1, <6>2, <6>3 DEF ThreadStep
        <5>2. CASE Goto(p, "pick") \/ Goto(p, "wait")
          <6>1. Moves(p, {"pick", "wait"})
            BY <2>1, <3>2, <5>2, MovesGoto
          <6> QED
            BY <3>8, <6>1 DEF Moves
        <5> QED
          BY <5>1, <5>2 DEF Wait
      <4>2. ku_pir_volume' = ku_pir_volume
        BY <1>2, <2>4, <4>1 DEF ThreadStep, Wait, Signal, Pick, Copy, Write, Full, Find, Take, Reset, At
      <4>3. pc'[p].fd = pc[p].fd
        BY <2>1, <3>3, <4>1 DEF Goto, CallFrames, Framed, TypeOK
      <4>4. ASSUME NEW q \in Procs, Running', pc'[q].at = "asleep", ku_pir_volume'[pc'[q].fd] > 0
            PROVE  \E b \in Actors : Rouses(b)'
        <5>1. q # p /\ q \in Actors
          BY <4>1, <4>2, <4>3, <4>4, ActorsAre
        <5>2. pc'[q] = pc[q]
          BY <3>5, <5>1
        <5>3. PICK b \in Actors : Rouses(b)
          BY <3>1, <4>2, <4>4, <5>2 DEF Roused
        <5>4. b # p
          BY <3>4, <5>3
        <5>5. Rouses(b)'
          BY <3>5, <5>3, <5>4 DEF Rouses
        <5> QED
          BY <5>5
      <4> QED
        BY <4>4 DEF Roused
    <3> QED
      BY <3>7, <3>8
  <2> QED
    BY <2>2, <2>3, <2>4
<1>3. CASE Push
  BY <1>3, PushRoused, ActorsAre DEF Roused
<1>4. CASE ku_pir_isr
  <2>1. Running /\ ku_pir_volume' = ku_pir_volume /\ pc[Isr] = Idle /\ Isr \in Actors
    BY <1>4, ActorsAre DEF ku_pir_isr
  <2>2. pc'[Isr].at = "fd" /\ \A b \in Actors \ {Isr} : pc'[b] = pc[b]
    BY <1>4, <2>1 DEF ku_pir_isr, Become, Frame, Framed, TypeOK
  <2>3. ~Rouses(Isr)
    BY <2>1 DEF Rouses, Idle
  <2> QED
    BY <2>1, <2>2, <2>3, RousedKept
<1>5. CASE ExitBegin \/ ExitNext \/ ExitEnd
  <2>1. Running /\ ku_pir_volume' = ku_pir_volume /\ Rmmod \in Actors /\ Rmmod \notin Procs
        /\ Rmmod # Isr
    BY <1>5, ActorsAre DEF ExitBegin, ExitNext, ExitEnd, At
  <2>2. pc'[Rmmod].at # "asleep" /\ \A b \in Actors \ {Rmmod} : pc'[b] = pc[b]
    BY <1>5, <2>1 DEF ExitBegin, ExitNext, ExitEnd, Become, Frame, Idle, Framed, TypeOK
  <2>3. ~Rouses(Rmmod)
    <3>1. CASE pc[Rmmod].at \in {"idle", "dead"}
      BY <3>1 DEF Rouses
    <3>2. CASE pc[Rmmod].at \notin {"idle", "dead"}
      BY <2>1, <3>2, Here DEF Owned, Rouses, Framed
    <3> QED
      BY <3>1, <3>2
  <2> QED
    BY <2>1, <2>2, <2>3, RousedKept
<1>6. ASSUME NEW call \in Programs \cap (Procs \X Ops), NEW f \in Fds,
             ku_pir_open(call[1], call[2], f)
      PROVE  Roused'
  <2> DEFINE e == Entry[call[2]]
  <2>1. call[1] \in Procs /\ call[1] \in Actors /\ call[2] \in Ops
    BY ActorsAre
  <2>2. e \in {"read", "write", "find", "close", "walk"}
    BY <2>1 DEF Entry, Ops
  <2>3. /\ pc'[call[1]].at = e /\ \A b \in Actors \ {call[1]} : pc'[b] = pc[b]
        /\ Running /\ ku_pir_volume' = ku_pir_volume /\ pc[call[1]] = Idle
    BY <1>6, <2>1 DEF ku_pir_open, Become, Frame, Framed, TypeOK
  <2>4. ~Rouses(call[1])
    BY <2>3 DEF Rouses, Idle
  <2> HIDE DEF e
  <2> QED
    BY <2>1, <2>2, <2>3, <2>4, RousedKept
<1>7. ASSUME NEW a \in Actors, ListStep(a) PROVE Roused'
  BY <1>7, ListStepRoused
<1>8. CASE InitIrq \/ InitQueues
  <2>1. UNCHANGED <<pc, ku_pir_volume>> /\ Running
    BY <1>8 DEF InitIrq, InitQueues
  <2> QED
    BY <2>1 DEF Roused, Rouses
<1> QED
  BY <1>1, <1>2, <1>3, <1>4, <1>5, <1>6, <1>7, <1>8 DEF Next

(* No lost wake-up: with one reading thread, and the handler as the only   *)
(* producer, no interleaving of the handler's increments, the read's       *)
(* decrement, a flush and init makes the read sleep over a positive        *)
(* counter with no producer about to wake it (wait_event_interruptible at  *)
(* ku_pir.c:59, the wake-up at 251).                                       *)
THEOREM ReadersWoken == OneReader /\ NoWriters /\ Spec => []SleepersAreWoken
<1> DEFINE WInv == OneReader /\ NoWriters /\ WakeInv
<1>1. OneReader /\ NoWriters /\ Init => WInv
  <2> SUFFICES ASSUME OneReader, NoWriters, Init PROVE WakeInv
    OBVIOUS
  <2>1. \A a \in Actors : pc[a].at = "idle"
    BY DEF Init, Idle
  <2> QED
    BY <2>1, InitFramed, ActorsAre DEF WakeInv, Called, Roused
<1>2. WInv /\ [Next]_vars => WInv'
  BY NextFramed, NextCalled, NextRoused DEF WakeInv, OneReader, NoWriters
<1>3. WInv => SleepersAreWoken
  <2> SUFFICES ASSUME WInv PROVE SleepersAreWoken
    OBVIOUS
  <2>1. ASSUME NEW a \in Actors, Rouses(a), Running PROVE Producing(a)
    <3>1. pc[a] \in CallFrames /\ Placed(pc[a]) /\ Owned(a, pc[a])
      BY <2>1, Here DEF Rouses, WakeInv, Framed
    <3>2. pc[a].at \notin {"idle", "dead", "release", "sync"}
      BY <2>1, <3>1 DEF Rouses, Placed, InAdd, InDrop, InLoop
    <3> QED
      BY <2>1, <3>2 DEF Rouses, Producing
  <2> QED
    BY <2>1 DEF WakeInv, Roused, SleepersAreWoken
<1> QED
  BY <1>1, <1>2, <1>3, PTL DEF Spec
=============================================================================
