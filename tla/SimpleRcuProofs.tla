--------------------------- MODULE SimpleRcuProofs ---------------------------
(***************************************************************************)
(* Theorems about the kernel list of week8, for any number of threads and  *)
(* entries.                                                                *)
(***************************************************************************)
EXTENDS SimpleRcu, TLAPS

(***************************************************************************)
(* The list, as next keeps it.  An entry is linked from its insertion's    *)
(* first store on, and nothing is taken out before exit.                   *)
(***************************************************************************)
RcuLabels == {"idle", "init_list", "fill", "alloc", "add", "publish", "back", "walk",
              "delete", "free", "oops"}
Spots == {Mylist} \cup Entries
Linked == {n \in Entries : rcuNext[n] # Null}
Filling == rcuModule \in {"adding", "loaded"}
Adds(a) == rcuPc[a].at \in {"add", "publish", "back"}

RcuTypes ==
  /\ rcuModule \in {"adding", "loaded", "exiting", "unloaded"}
  /\ rcuNext \in [Spots -> RcuCells] /\ rcuPrev \in [Spots -> RcuCells]
  /\ rcuLive \subseteq Entries
  /\ rcuPc \in [RcuActors -> [at : RcuLabels, pos : Spots, nxt : RcuCells]]
  /\ rcuEarly \in BOOLEAN /\ rcuRaced \in BOOLEAN

(* Who is where: the thread of init and exit is in the one or the other.    *)
RcuPlaces ==
  /\ \A t \in RcuThreads :
       /\ rcuPc[t].at \in {"idle", "alloc", "add", "publish", "back", "walk", "oops"}
       /\ rcuPc[t].at = "idle" => rcuPc[t].pos = Mylist
  /\ rcuModule = "adding" =>
       rcuPc[Loader].at \in {"init_list", "fill", "alloc", "add", "publish", "back", "oops"}
  /\ rcuModule = "loaded" => rcuPc[Loader].at \in {"idle", "oops"}
  /\ rcuModule = "exiting" => rcuPc[Loader].at \in {"delete", "free", "oops"}
  /\ rcuModule = "unloaded" => rcuPc[Loader].at = "delete"

(* Before exit the linked entries lead to each other and to the head, each  *)
(* of them to the head in the end, and never back to itself.                *)
Chained ==
  /\ Linked \subseteq rcuLive
  /\ IF rcuPc[Loader].at = "init_list" THEN rcuNext[Mylist] = Null /\ Linked = {}
                                       ELSE rcuNext[Mylist] \in {Mylist} \cup Linked
  /\ \A n \in Linked : /\ rcuNext[n] \in {Mylist} \cup Linked
                       /\ Mylist \in Behind(n) /\ n \notin Behind(rcuNext[n])

(* Walks stand on the list, and insertions have an entry each, to which     *)
(* nothing points before it is published.                                   *)
Carries(a) ==
  /\ rcuPc[a].pos \in rcuLive
  /\ IF rcuPc[a].at = "add" THEN rcuPc[a].pos \notin Linked
                            ELSE rcuPc[a].pos \in Linked /\ rcuPc[a].nxt = rcuNext[rcuPc[a].pos]
  /\ rcuPc[a].at # "back" => \A c \in Spots : rcuNext[c] # rcuPc[a].pos

Standing ==
  /\ \A t \in RcuThreads : rcuPc[t].at = "walk" => rcuPc[t].pos \in {Mylist} \cup Linked
  /\ \A a \in RcuActors : Adds(a) => Carries(a)
  /\ \A a, b \in RcuActors : Adds(a) /\ Adds(b) /\ a # b => rcuPc[a].pos # rcuPc[b].pos

(* While no insertions overlapped: everything published is behind the head. *)
Complete ==
  /\ \A n \in rcuLive : \/ n \in Behind(rcuNext[Mylist])
                        \/ \E a \in RcuActors : /\ rcuPc[a].pos = n
                                                /\ rcuPc[a].at \in {"add", "publish", "oops"}
  /\ \A a \in RcuActors :
       /\ rcuPc[a].at = "publish" => /\ rcuPc[a].nxt = rcuNext[Mylist]
                                     /\ rcuPrev[rcuPc[a].pos] = Mylist
       /\ rcuPc[a].at = "back" => rcuPc[a].pos \in Behind(rcuNext[Mylist])
  /\ rcuNext[Mylist] \in Entries => rcuPrev[rcuNext[Mylist]] = Mylist

(* exit takes the entries from the front, and nobody adds any.              *)
Emptying ==
  /\ \A t \in RcuThreads : rcuPc[t].at \notin {"alloc", "add", "publish", "back"}
  /\ \A n \in Linked : rcuNext[n] \in {Mylist} \cup Linked /\ n \notin Behind(rcuNext[n])
  /\ LET c == rcuPc[Loader].pos
         nxt == rcuPc[Loader].nxt
     IN  /\ rcuPc[Loader].at = "delete" =>
              /\ rcuLive \subseteq Behind(c) /\ c \in {Mylist} \cup Linked
              /\ nxt = rcuNext[c] /\ (c # Mylist => rcuPrev[c] = Mylist)
         /\ rcuPc[Loader].at = "free" =>
              /\ rcuLive \ {c} \subseteq Behind(nxt) /\ nxt \in {Mylist} \cup Linked
              /\ nxt # Mylist => rcuPrev[nxt] = Mylist
  /\ rcuModule = "unloaded" => rcuLive = {}

RcuIInv ==
  /\ RcuTypes /\ RcuPlaces
  /\ Filling /\ ~rcuEarly => Chained /\ Standing
  /\ Filling /\ ~rcuEarly /\ ~rcuRaced => Complete
  /\ ~Filling /\ ~rcuEarly /\ ~rcuRaced => Emptying

LEMMA CellFacts ==
  /\ Mylist \notin Entries /\ Null \notin Entries /\ Mylist # Null
  /\ Spots \subseteq RcuCells /\ Entries \subseteq Spots /\ Mylist \in Spots
  /\ Loader \notin RcuThreads /\ RcuActors = RcuThreads \cup {Loader}
  /\ Spots = Entries \cup {Mylist} /\ RcuCells = Spots \cup {Null}
BY RcuAssumption DEF Mylist, Null, Entries, Spots, RcuCells, RcuThreads, RcuActors

(***************************************************************************)
(* What is behind a cell, for any pointers nx.                             *)
(***************************************************************************)
ClosedIn(nx, S) == \A x \in S \cap Entries : nx[x] \in S
From(nx, c) == {x \in RcuCells : \A S \in SUBSET RcuCells : c \in S /\ ClosedIn(nx, S) => x \in S}

LEMMA BehindIsFrom == (\A c : Behind(c) = From(rcuNext, c)) /\ (\A c : Behind(c)' = From(rcuNext', c))
BY DEF Behind, Closed, From, ClosedIn

LEMMA FromLeast ==
  ASSUME NEW nx, NEW c, NEW S \in SUBSET RcuCells, c \in S, ClosedIn(nx, S)
  PROVE  From(nx, c) \subseteq S
BY DEF From

LEMMA FromSelf == \A nx : \A c \in RcuCells : c \in From(nx, c) /\ From(nx, c) \in SUBSET RcuCells
BY DEF From

LEMMA FromClosed ==
  ASSUME NEW nx \in [Spots -> RcuCells], NEW c
  PROVE  ClosedIn(nx, From(nx, c))
<1> SUFFICES ASSUME NEW x \in Entries, x \in From(nx, c) PROVE nx[x] \in From(nx, c)
  BY DEF ClosedIn
<1>1. nx[x] \in RcuCells
  BY CellFacts
<1>2. ASSUME NEW S \in SUBSET RcuCells, c \in S, ClosedIn(nx, S) PROVE nx[x] \in S
  <2>1. x \in S
    BY <1>2 DEF From
  <2> QED
    BY <1>2, <2>1 DEF ClosedIn
<1> QED
  BY <1>1, <1>2 DEF From

LEMMA FromMono ==
  ASSUME NEW nx \in [Spots -> RcuCells], NEW c \in RcuCells, NEW x \in From(nx, c)
  PROVE  From(nx, x) \subseteq From(nx, c)
<1>1. From(nx, c) \in SUBSET RcuCells /\ ClosedIn(nx, From(nx, c))
  BY FromSelf, FromClosed
<1> QED
  BY <1>1, FromLeast

(* An entry, and what is behind its next.                                   *)
LEMMA FromFirst ==
  ASSUME NEW nx \in [Spots -> RcuCells], NEW n \in Entries
  PROVE  /\ From(nx, n) = {n} \cup From(nx, nx[n])
         /\ nx[n] \in RcuCells /\ n \in RcuCells
<1>1. n \in RcuCells /\ nx[n] \in RcuCells
  BY CellFacts
<1>2. From(nx, n) \subseteq {n} \cup From(nx, nx[n])
  <2> DEFINE S == {n} \cup From(nx, nx[n])
  <2>1. S \in SUBSET RcuCells /\ n \in S
    BY <1>1, FromSelf
  <2>2. ASSUME NEW x \in S \cap Entries PROVE nx[x] \in S
    <3>1. CASE x = n
      BY <1>1, <3>1, FromSelf
    <3>2. CASE x \in From(nx, nx[n])
      BY <3>2, FromClosed DEF ClosedIn
    <3> QED
      BY <3>1, <3>2
  <2>3. ClosedIn(nx, S)
    BY <2>2 DEF ClosedIn
  <2> HIDE DEF S
  <2>4. From(nx, n) \subseteq S
    BY <2>1, <2>3, FromLeast
  <2> QED
    BY <2>4 DEF S
<1>3. n \in From(nx, n) /\ nx[n] \in From(nx, n)
  <2>1. n \in From(nx, n) /\ ClosedIn(nx, From(nx, n))
    BY <1>1, FromSelf, FromClosed
  <2> QED
    BY <2>1 DEF ClosedIn
<1>4. From(nx, nx[n]) \subseteq From(nx, n)
  BY <1>1, <1>3, FromMono
<1> QED
  BY <1>1, <1>2, <1>3, <1>4

LEMMA FromHead == \A nx : From(nx, Mylist) = {Mylist}
<1> TAKE nx
<1>1. {Mylist} \in SUBSET RcuCells /\ Mylist \in RcuCells
  BY CellFacts
<1>2. ClosedIn(nx, {Mylist})
  BY CellFacts DEF ClosedIn
<1>3. From(nx, Mylist) \subseteq {Mylist}
  BY <1>1, <1>2, FromLeast
<1> QED
  BY <1>1, <1>3, FromSelf

(* The head's own pointer is behind nothing.                                *)
LEMMA FromSame ==
  ASSUME NEW nx, NEW ny, \A n \in Entries : ny[n] = nx[n]
  PROVE  \A c : From(ny, c) = From(nx, c)
<1>1. \A S : ClosedIn(ny, S) <=> ClosedIn(nx, S)
  BY DEF ClosedIn
<1> QED
  BY <1>1 DEF From

(* A new entry, to which nothing points, is behind nothing but itself.      *)
LEMMA FromNew ==
  ASSUME NEW nx \in [Spots -> RcuCells], NEW ny \in [Spots -> RcuCells], NEW n \in Entries,
         \A c \in Spots : c # n => ny[c] = nx[c],
         \A c \in Spots : nx[c] # n
  PROVE  \A c \in RcuCells \ {n} : From(ny, c) = From(nx, c) /\ n \notin From(nx, c)
<1> SUFFICES ASSUME NEW c \in RcuCells \ {n}
             PROVE  From(ny, c) = From(nx, c) /\ n \notin From(nx, c)
  OBVIOUS
<1>1. n \notin From(nx, c) /\ n \notin From(ny, c)
  <2> DEFINE S == RcuCells \ {n}
  <2>1. ASSUME NEW x \in S \cap Entries PROVE nx[x] \in S /\ ny[x] \in S
    <3>1. x # n /\ x \in Spots
      BY CellFacts
    <3>2. nx[x] \in RcuCells /\ nx[x] # n /\ ny[x] = nx[x]
      BY <3>1
    <3> QED
      BY <3>2
  <2>2. ClosedIn(nx, S) /\ ClosedIn(ny, S)
    BY <2>1 DEF ClosedIn
  <2>3. c \in S /\ S \in SUBSET RcuCells
    OBVIOUS
  <2>4. n \notin S
    OBVIOUS
  <2> HIDE DEF S
  <2> QED
    BY <2>2, <2>3, <2>4, FromLeast
<1>2. \A x \in Entries : x # n => ny[x] = nx[x]
  BY CellFacts
<1>3. c \in From(nx, c) /\ c \in From(ny, c) /\ From(nx, c) \in SUBSET RcuCells
      /\ From(ny, c) \in SUBSET RcuCells
  BY FromSelf
<1>4. ClosedIn(nx, From(nx, c)) /\ ClosedIn(ny, From(ny, c))
  BY FromClosed
<1>5. ClosedIn(ny, From(nx, c)) /\ ClosedIn(nx, From(ny, c))
  BY <1>1, <1>2, <1>4 DEF ClosedIn
<1>6. From(ny, c) \subseteq From(nx, c)
  BY <1>3, <1>5, FromLeast
<1>7. From(nx, c) \subseteq From(ny, c)
  BY <1>3, <1>5, FromLeast
<1> QED
  BY <1>1, <1>6, <1>7

(***************************************************************************)
(* Steps.                                                                  *)
(***************************************************************************)
RcuFrames == [at : RcuLabels, pos : Spots, nxt : RcuCells]

Moves(a) == \A b \in RcuActors : b # a => rcuPc'[b] = rcuPc[b]

LEMMA RcuGone ==
  ASSUME RcuTypes, NEW a \in RcuActors, NEW l \in RcuLabels, RcuGoto(a, l)
  PROVE  /\ rcuPc' \in [RcuActors -> RcuFrames] /\ Moves(a)
         /\ rcuPc'[a].at = l /\ rcuPc'[a].pos = rcuPc[a].pos /\ rcuPc'[a].nxt = rcuPc[a].nxt
<1>1. rcuPc \in [RcuActors -> RcuFrames] /\ rcuPc' = [rcuPc EXCEPT ![a].at = l]
  BY DEF RcuTypes, RcuFrames, RcuGoto
<1>2. [rcuPc[a] EXCEPT !.at = l] \in RcuFrames
  BY <1>1 DEF RcuFrames
<1> QED
  BY <1>1, <1>2 DEF RcuFrames, Moves

LEMMA RcuStepped ==
  ASSUME RcuTypes, NEW a \in RcuActors, NEW l \in RcuLabels, NEW p \in Spots, NEW x \in RcuCells,
         RcuStep(a, l, p, x)
  PROVE  /\ rcuPc' \in [RcuActors -> RcuFrames] /\ Moves(a)
         /\ rcuPc'[a].at = l /\ rcuPc'[a].pos = p /\ rcuPc'[a].nxt = x
BY DEF RcuTypes, RcuFrames, RcuStep, Moves

LEMMA RcuRested ==
  ASSUME RcuTypes, NEW a \in RcuActors, rcuPc' = [rcuPc EXCEPT ![a] = RcuIdle]
  PROVE  /\ rcuPc' \in [RcuActors -> RcuFrames] /\ Moves(a)
         /\ rcuPc'[a].at = "idle" /\ rcuPc'[a].pos = Mylist /\ rcuPc'[a].nxt = Mylist
<1>1. RcuStep(a, "idle", Mylist, Mylist)
  BY DEF RcuStep, RcuIdle
<1>2. "idle" \in RcuLabels /\ Mylist \in Spots /\ Mylist \in RcuCells
  BY CellFacts DEF RcuLabels
<1> QED
  BY <1>1, <1>2, RcuStepped

LEMMA LabelFacts ==
  /\ "walk" \in RcuLabels /\ "alloc" \in RcuLabels /\ "oops" \in RcuLabels /\ "add" \in RcuLabels
  /\ "publish" \in RcuLabels /\ "back" \in RcuLabels /\ "fill" \in RcuLabels
  /\ "delete" \in RcuLabels /\ "free" \in RcuLabels
BY DEF RcuLabels

(* A step of a that leaves the list alone, and puts nobody on it.           *)
Quiet(a) ==
  /\ Moves(a) /\ UNCHANGED <<rcuNext, rcuPrev, rcuLive, rcuEarly>>
  /\ Filling' = Filling /\ rcuModule # "unloaded" /\ rcuModule' # "unloaded"
  /\ rcuRaced => rcuRaced'
  /\ ~Adds(a)' /\ rcuPc[a].at # "init_list" /\ rcuPc'[a].at # "init_list"
  /\ rcuPc'[a].at = "walk" => /\ a \in RcuThreads
                              /\ rcuPc'[a].pos \in {Mylist} \cup Linked \/ ~Filling \/ rcuEarly
  /\ rcuPc[a].at \in {"add", "publish", "oops"} => /\ rcuPc'[a].at = "oops"
                                                   /\ rcuPc'[a].pos = rcuPc[a].pos
  /\ ~Filling /\ a \in RcuThreads => rcuPc'[a].at # "alloc" \/ rcuRaced'
  /\ a = Loader => Filling \/ rcuPc'[a].at = "oops"

LEMMA QuietKeeps ==
  ASSUME RcuIInv, NEW a \in RcuActors, Quiet(a)
  PROVE  /\ (Filling /\ ~rcuEarly => Chained /\ Standing)'
         /\ (Filling /\ ~rcuEarly /\ ~rcuRaced => Complete)'
         /\ (~Filling /\ ~rcuEarly /\ ~rcuRaced => Emptying)'
<1>1. Filling' = Filling /\ rcuEarly' = rcuEarly /\ (rcuRaced => rcuRaced')
      /\ UNCHANGED <<rcuNext, rcuPrev, rcuLive>>
  BY DEF Quiet
<1>2. Linked' = Linked /\ \A c : Behind(c)' = Behind(c)
  BY <1>1, BehindIsFrom DEF Linked
<1>3. (Filling /\ ~rcuEarly => Chained /\ Standing)'
  <2> SUFFICES ASSUME Filling, ~rcuEarly PROVE Chained' /\ Standing'
    BY <1>1
  <2>1. Chained /\ Standing
    BY DEF RcuIInv
  <2>2. Chained'
    <3>1. rcuPc'[Loader].at = "init_list" <=> rcuPc[Loader].at = "init_list"
      BY CellFacts DEF Quiet, Moves
    <3> QED
      BY <1>1, <1>2, <2>1, <3>1 DEF Chained
  <2>3. \A t \in RcuThreads : rcuPc'[t].at = "walk" => rcuPc'[t].pos \in {Mylist} \cup Linked
    BY <2>1, CellFacts DEF Quiet, Moves, Standing
  <2>4. ASSUME NEW b \in RcuActors, Adds(b)' PROVE rcuPc'[b] = rcuPc[b] /\ Adds(b)
    <3>1. b # a
      BY <2>4 DEF Quiet
    <3>2. rcuPc'[b] = rcuPc[b]
      BY <3>1 DEF Quiet, Moves
    <3> QED
      BY <2>4, <3>2 DEF Adds
  <2>5. ASSUME NEW b \in RcuActors, Adds(b)' PROVE Carries(b)'
    <3>1. rcuPc'[b] = rcuPc[b] /\ Adds(b) /\ Carries(b)
      BY <2>1, <2>4, <2>5 DEF Standing
    <3> QED
      BY <1>1, <1>2, <3>1 DEF Carries
  <2>6. ASSUME NEW b \in RcuActors, NEW d \in RcuActors, Adds(b)', Adds(d)', b # d
        PROVE  rcuPc'[b].pos # rcuPc'[d].pos
    BY <2>1, <2>4, <2>6 DEF Standing
  <2>7. Standing'
    BY <1>2, <2>3, <2>5, <2>6 DEF Standing
  <2> QED
    BY <2>2, <2>7
<1>4. (Filling /\ ~rcuEarly /\ ~rcuRaced => Complete)'
  <2> SUFFICES ASSUME Filling, ~rcuEarly, ~rcuRaced PROVE Complete'
    BY <1>1
  <2>1. Complete
    BY DEF RcuIInv
  <2>2. \A b \in RcuActors : rcuPc[b].at \in {"add", "publish", "oops"} =>
          rcuPc'[b].at \in {"add", "publish", "oops"} /\ rcuPc'[b].pos = rcuPc[b].pos
    BY DEF Quiet, Moves
  <2>3. \A b \in RcuActors : rcuPc'[b].at \in {"publish", "back"} => rcuPc'[b] = rcuPc[b]
    BY DEF Quiet, Moves, Adds
  <2>4. \A n \in rcuLive' : \/ n \in Behind(rcuNext[Mylist])'
                            \/ \E b \in RcuActors : /\ rcuPc'[b].pos = n
                                                    /\ rcuPc'[b].at \in {"add", "publish", "oops"}
    BY <1>1, <1>2, <2>1, <2>2 DEF Complete
  <2> QED
    BY <1>1, <1>2, <2>1, <2>3, <2>4 DEF Complete
<1>5. (~Filling /\ ~rcuEarly /\ ~rcuRaced => Emptying)'
  <2> SUFFICES ASSUME ~Filling, ~rcuEarly, ~rcuRaced, ~rcuRaced' PROVE Emptying'
    BY <1>1
  <2>1. Emptying /\ rcuModule' # "unloaded"
    BY DEF RcuIInv, Quiet
  <2>2. \A t \in RcuThreads : rcuPc'[t].at \notin {"alloc", "add", "publish", "back"}
    BY <2>1, CellFacts DEF Emptying, Quiet, Moves, Adds
  <2>3. CASE a = Loader
    BY <1>1, <1>2, <2>1, <2>2, <2>3 DEF Emptying, Quiet
  <2>4. CASE a # Loader
    <3>1. rcuPc'[Loader] = rcuPc[Loader]
      BY <2>4, CellFacts DEF Quiet, Moves
    <3> QED
      BY <1>1, <1>2, <2>1, <2>2, <3>1 DEF Emptying
  <2> QED
    BY <2>3, <2>4
<1> QED
  BY <1>3, <1>4, <1>5

Kept ==
  /\ RcuTypes' /\ RcuPlaces'
  /\ (Filling /\ ~rcuEarly => Chained /\ Standing)'
  /\ (Filling /\ ~rcuEarly /\ ~rcuRaced => Complete)'
  /\ (~Filling /\ ~rcuEarly /\ ~rcuRaced => Emptying)'

LEMMA KeptIsKept == Kept => RcuIInv'
BY DEF Kept, RcuIInv

LEMMA BeginKeeps ==
  ASSUME RcuIInv, NEW t \in RcuThreads, RcuBegin(t)
  PROVE  Kept
<1>1. RcuTypes /\ RcuPlaces /\ t \in RcuActors /\ t # Loader
  BY CellFacts DEF RcuIInv
<1>2. PICK l \in {"walk", "alloc"} : RcuGoto(t, l) /\ rcuRaced' = (rcuRaced \/ (rcuModule = "exiting" /\ rcuPc'[t].at = "alloc"))
  BY DEF RcuBegin
<1>3. rcuPc[t].at = "idle" /\ rcuModule # "unloaded" /\ UNCHANGED <<rcuModule, rcuNext, rcuPrev, rcuLive, rcuEarly>>
  BY DEF RcuBegin, RcuAt, rcuList
<1>4. /\ rcuPc' \in [RcuActors -> RcuFrames] /\ Moves(t)
      /\ rcuPc'[t].at = l /\ rcuPc'[t].pos = rcuPc[t].pos
  BY <1>1, <1>2, RcuGone, LabelFacts
<1>5. RcuTypes'
  BY <1>1, <1>2, <1>3, <1>4 DEF RcuTypes, RcuFrames
<1>6. RcuPlaces'
  BY <1>1, <1>3, <1>4, CellFacts DEF RcuPlaces, Moves
<1>7. Quiet(t)
  <2>1. rcuPc[t].pos = Mylist
    BY <1>1, <1>3 DEF RcuPlaces
  <2> QED
    BY <1>1, <1>2, <1>3, <1>4, <2>1 DEF Quiet, Filling, Adds, RcuTypes
<1> QED
  BY <1>1, <1>5, <1>6, <1>7, QuietKeeps DEF Kept

LEMMA WalkKeeps ==
  ASSUME RcuIInv, NEW t \in RcuThreads, RcuWalk(t)
  PROVE  Kept
<1>1. RcuTypes /\ RcuPlaces /\ t \in RcuActors /\ t # Loader
  BY CellFacts DEF RcuIInv
<1>2. rcuPc[t].at = "walk" /\ rcuModule # "unloaded"
      /\ UNCHANGED <<rcuModule, rcuNext, rcuPrev, rcuLive, rcuEarly, rcuRaced>>
  BY DEF RcuWalk, RcuAt, rcuList, rcuHistory
<1>3. /\ rcuPc' \in [RcuActors -> RcuFrames] /\ Moves(t)
      /\ \/ rcuPc'[t].at = "idle" /\ rcuPc'[t].pos = Mylist
         \/ rcuPc'[t].at = "walk" /\ rcuPc'[t].pos = rcuNext[rcuPc[t].pos] /\ rcuPc'[t].pos \in rcuLive
         \/ rcuPc'[t].at = "oops"
  <2> DEFINE c == rcuNext[rcuPc[t].pos]
  <2>1. CASE c = Mylist /\ rcuPc' = [rcuPc EXCEPT ![t] = RcuIdle]
    BY <1>1, <2>1, RcuRested
  <2>2. CASE c # Mylist /\ Held(c) /\ RcuStep(t, "walk", c, Mylist)
    <3>1. c \in rcuLive /\ c \in Spots /\ Mylist \in RcuCells
      BY <1>1, <2>2, CellFacts DEF Held, RcuTypes
    <3> HIDE DEF c
    <3>2. rcuPc' \in [RcuActors -> RcuFrames] /\ Moves(t) /\ rcuPc'[t].at = "walk" /\ rcuPc'[t].pos = c
      BY <1>1, <2>2, <3>1, RcuStepped, LabelFacts
    <3> QED
      BY <3>1, <3>2 DEF c
  <2>3. CASE RcuGoto(t, "oops")
    BY <1>1, <2>3, RcuGone, LabelFacts
  <2> QED
    BY <2>1, <2>2, <2>3 DEF RcuWalk
<1>4. RcuTypes'
  BY <1>1, <1>2, <1>3 DEF RcuTypes, RcuFrames
<1>5. RcuPlaces'
  BY <1>1, <1>2, <1>3, CellFacts DEF RcuPlaces, Moves
<1>6. ASSUME Filling, ~rcuEarly, rcuPc'[t].at = "walk" PROVE rcuPc'[t].pos \in {Mylist} \cup Linked
  <2>1. Chained /\ rcuPc[t].pos \in {Mylist} \cup Linked
    BY <1>2, <1>6 DEF RcuIInv, Standing
  <2>2. rcuPc'[t].pos = rcuNext[rcuPc[t].pos] /\ rcuPc'[t].pos \in Entries
    BY <1>1, <1>3, <1>6 DEF RcuTypes
  <2>3. rcuNext[rcuPc[t].pos] \in {Mylist, Null} \cup Linked
    BY <2>1 DEF Chained
  <2> QED
    BY <2>2, <2>3, CellFacts
<1>7. Quiet(t)
  BY <1>1, <1>2, <1>3, <1>6 DEF Quiet, Filling, Adds
<1> QED
  BY <1>1, <1>4, <1>5, <1>7, QuietKeeps DEF Kept

(* kmalloc failed, or prev is followed to where there is no entry.          *)
LEMMA OopsKeeps ==
  ASSUME RcuIInv, NEW a \in RcuActors, rcuPc[a].at \in {"alloc", "back"}, RcuGoto(a, "oops"),
         rcuModule # "unloaded",
         UNCHANGED <<rcuModule, rcuNext, rcuPrev, rcuLive, rcuEarly, rcuRaced>>
  PROVE  Kept
<1>1. RcuTypes /\ RcuPlaces
  BY DEF RcuIInv
<1>2. /\ rcuPc' \in [RcuActors -> RcuFrames] /\ Moves(a)
      /\ rcuPc'[a].at = "oops" /\ rcuPc'[a].pos = rcuPc[a].pos
  BY <1>1, RcuGone, LabelFacts
<1>3. RcuTypes'
  BY <1>1, <1>2 DEF RcuTypes, RcuFrames
<1>4. RcuPlaces'
  BY <1>1, <1>2, CellFacts DEF RcuPlaces, Moves
<1>5. Quiet(a)
  BY <1>1, <1>2 DEF Quiet, Filling, Adds
<1> QED
  BY <1>3, <1>4, <1>5, QuietKeeps DEF Kept

LEMMA FillKeeps ==
  ASSUME RcuIInv, RcuFill
  PROVE  Kept
<1>1. RcuTypes /\ RcuPlaces /\ Loader \in RcuActors /\ Loader \notin RcuThreads
      /\ Mylist \in Spots /\ Mylist \in RcuCells
  BY CellFacts DEF RcuIInv
<1>2. rcuPc[Loader].at = "fill" /\ UNCHANGED <<rcuNext, rcuPrev, rcuLive, rcuEarly, rcuRaced>>
  BY DEF RcuFill, RcuAt, rcuList, rcuHistory
<1>3. rcuModule = "adding"
  BY <1>1, <1>2 DEF RcuPlaces, RcuTypes
<1>4. \/ RcuStep(Loader, "alloc", Mylist, Mylist) /\ rcuModule' = rcuModule
      \/ rcuPc' = [rcuPc EXCEPT ![Loader] = RcuIdle] /\ rcuModule' = "loaded"
  BY DEF RcuFill
<1>5. /\ rcuPc' \in [RcuActors -> RcuFrames] /\ Moves(Loader)
      /\ \/ rcuPc'[Loader].at = "alloc" /\ rcuModule' = "adding"
         \/ rcuPc'[Loader].at = "idle" /\ rcuModule' = "loaded"
  BY <1>1, <1>3, <1>4, RcuStepped, RcuRested, LabelFacts
<1>6. RcuTypes'
  BY <1>1, <1>2, <1>5 DEF RcuTypes, RcuFrames
<1>7. RcuPlaces'
  <2>1. \A t \in RcuThreads : rcuPc'[t] = rcuPc[t]
    BY <1>1, <1>5, CellFacts DEF Moves
  <2>2. CASE rcuPc'[Loader].at = "alloc" /\ rcuModule' = "adding"
    BY <1>1, <2>1, <2>2 DEF RcuPlaces
  <2>3. CASE rcuPc'[Loader].at = "idle" /\ rcuModule' = "loaded"
    BY <1>1, <2>1, <2>3 DEF RcuPlaces
  <2> QED
    BY <1>5, <2>2, <2>3
<1>8. Quiet(Loader)
  <2>1. Filling /\ Filling' /\ rcuModule # "unloaded" /\ rcuModule' # "unloaded"
    BY <1>3, <1>5 DEF Filling
  <2>2. ~Adds(Loader)' /\ rcuPc'[Loader].at \notin {"init_list", "walk"}
    BY <1>5 DEF Adds
  <2> QED
    BY <1>1, <1>2, <1>5, <2>1, <2>2 DEF Quiet
<1> QED
  BY <1>1, <1>6, <1>7, <1>8, QuietKeeps DEF Kept

(* INIT_LIST_HEAD.                                                          *)
LEMMA InitListKeeps ==
  ASSUME RcuIInv, RcuInitList
  PROVE  Kept
<1>1. RcuTypes /\ RcuPlaces /\ Loader \in RcuActors /\ Loader \notin RcuThreads
  BY CellFacts DEF RcuIInv
<1>2. /\ rcuPc[Loader].at = "init_list" /\ RcuGoto(Loader, "fill")
      /\ rcuNext' = [rcuNext EXCEPT ![Mylist] = Mylist]
      /\ rcuPrev' = [rcuPrev EXCEPT ![Mylist] = Mylist]
      /\ UNCHANGED <<rcuModule, rcuLive, rcuEarly, rcuRaced>>
  BY DEF RcuInitList, RcuAt, rcuHistory
<1>3. rcuModule = "adding" /\ Filling /\ Filling'
  BY <1>1, <1>2 DEF RcuPlaces, RcuTypes, Filling
<1>4. rcuPc' \in [RcuActors -> RcuFrames] /\ Moves(Loader) /\ rcuPc'[Loader].at = "fill"
  BY <1>1, <1>2, RcuGone, LabelFacts
<1>5. RcuTypes'
  BY <1>1, <1>2, <1>4, CellFacts DEF RcuTypes, RcuFrames
<1>6. RcuPlaces'
  BY <1>1, <1>2, <1>3, <1>4, CellFacts DEF RcuPlaces, Moves
<1>7. /\ rcuNext'[Mylist] = Mylist /\ \A n \in Entries : rcuNext'[n] = rcuNext[n]
      /\ Linked' = Linked /\ \A c : Behind(c)' = Behind(c)
  <2>1. rcuNext'[Mylist] = Mylist /\ \A n \in Entries : rcuNext'[n] = rcuNext[n]
    BY <1>1, <1>2, CellFacts DEF RcuTypes
  <2> QED
    BY <2>1, BehindIsFrom, FromSame DEF Linked
<1>8. ASSUME ~rcuEarly PROVE Chained' /\ Standing'
  <2>1. Chained /\ Standing /\ Linked = {}
    BY <1>2, <1>3, <1>8 DEF RcuIInv, Chained
  <2>2. Chained'
    BY <1>2, <1>4, <1>7, <2>1 DEF Chained
  <2>3. ASSUME NEW b \in RcuActors, Adds(b)'
        PROVE  rcuPc'[b] = rcuPc[b] /\ Adds(b) /\ rcuPc[b].at = "add" /\ Carries(b) /\ Carries(b)'
    <3>1. b # Loader
      BY <1>4, <2>3 DEF Adds
    <3>2. rcuPc'[b] = rcuPc[b]
      BY <1>4, <3>1 DEF Moves
    <3>3. Adds(b)
      BY <2>3, <3>2 DEF Adds
    <3>4. Carries(b)
      BY <2>1, <3>3 DEF Standing
    <3>5. rcuPc[b].at = "add"
      BY <2>1, <3>3, <3>4 DEF Carries, Adds
    <3>6. rcuPc[b].pos \in Entries
      BY <1>1, <3>4 DEF Carries, RcuTypes
    <3>7. \A c \in Spots : rcuNext'[c] # rcuPc[b].pos
      BY <1>7, <3>4, <3>5, <3>6, CellFacts DEF Carries
    <3> QED
      BY <1>2, <1>7, <3>2, <3>3, <3>4, <3>5, <3>7 DEF Carries
  <2>4. \A t \in RcuThreads : rcuPc'[t].at = "walk" => rcuPc'[t].pos \in {Mylist} \cup Linked'
    BY <1>4, <1>7, <2>1, CellFacts DEF Moves, Standing
  <2>5. ASSUME NEW b \in RcuActors, NEW d \in RcuActors, Adds(b)', Adds(d)', b # d
        PROVE  rcuPc'[b].pos # rcuPc'[d].pos
    BY <2>1, <2>3, <2>5 DEF Standing
  <2> QED
    BY <2>2, <2>3, <2>4, <2>5 DEF Standing
<1>9. ASSUME ~rcuEarly, ~rcuRaced PROVE Complete'
  <2>1. Chained /\ Standing /\ Complete /\ Linked = {} /\ rcuNext[Mylist] = Null
    BY <1>2, <1>3, <1>9 DEF RcuIInv, Chained
  <2>2. \A n \in rcuLive : n # Null
    BY <1>1, CellFacts DEF RcuTypes
  <2>3. Behind(Null) \subseteq {Null}
    <3>1. ClosedIn(rcuNext, {Null}) /\ {Null} \in SUBSET RcuCells /\ Null \in {Null}
      BY CellFacts DEF ClosedIn
    <3> QED
      BY <3>1, FromLeast, BehindIsFrom
  <2>4. \A b \in RcuActors : rcuPc[b].at \in {"add", "publish", "oops"} => rcuPc'[b] = rcuPc[b]
    BY <1>2, <1>4 DEF Moves
  <2>5. \A n \in rcuLive' : \E b \in RcuActors : /\ rcuPc'[b].pos = n
                                                 /\ rcuPc'[b].at \in {"add", "publish", "oops"}
    <3> SUFFICES ASSUME NEW n \in rcuLive
                 PROVE  \E b \in RcuActors : /\ rcuPc'[b].pos = n
                                             /\ rcuPc'[b].at \in {"add", "publish", "oops"}
      BY <1>2
    <3>1. n \notin Behind(rcuNext[Mylist])
      BY <2>1, <2>2, <2>3
    <3>2. PICK b \in RcuActors : rcuPc[b].pos = n /\ rcuPc[b].at \in {"add", "publish", "oops"}
      BY <2>1, <3>1 DEF Complete
    <3> QED
      BY <2>4, <3>2
  <2>6. \A b \in RcuActors : rcuPc'[b].at \notin {"publish", "back"}
    <3> SUFFICES ASSUME NEW b \in RcuActors, rcuPc'[b].at \in {"publish", "back"} PROVE FALSE
      OBVIOUS
    <3>1. b # Loader
      BY <1>4
    <3>2. rcuPc'[b] = rcuPc[b]
      BY <1>4, <3>1 DEF Moves
    <3>3. Adds(b) /\ rcuPc[b].at # "add"
      BY <3>2 DEF Adds
    <3>4. Carries(b)
      BY <2>1, <3>3 DEF Standing
    <3> QED
      BY <2>1, <3>3, <3>4 DEF Carries
  <2> QED
    BY <1>7, <2>5, <2>6, CellFacts DEF Complete
<1> QED
  BY <1>2, <1>3, <1>5, <1>6, <1>8, <1>9 DEF Kept

(* An insertion's steps come before exit, or are noted as a race with it.   *)
LEMMA InsertsWhileFilling ==
  ASSUME RcuIInv, NEW a \in RcuActors, rcuPc[a].at = "alloc" \/ Adds(a)
  PROVE  Filling \/ rcuEarly \/ rcuRaced
<1>1. RcuTypes /\ RcuPlaces
  BY DEF RcuIInv
<1>2. CASE a = Loader
  BY <1>1, <1>2 DEF RcuPlaces, Adds, Filling, RcuTypes
<1>3. CASE a # Loader
  <2>1. a \in RcuThreads
    BY <1>3, CellFacts
  <2> QED
    BY <2>1 DEF RcuIInv, Emptying, Adds
<1> QED
  BY <1>2, <1>3

LEMMA AllocKeeps ==
  ASSUME RcuIInv, NEW a \in RcuActors, rcuPc[a].at = "alloc", NEW n \in Unused,
         rcuLive' = rcuLive \cup {n}, RcuStep(a, "add", n, Mylist),
         UNCHANGED <<rcuModule, rcuNext, rcuPrev, rcuEarly, rcuRaced>>
  PROVE  Kept
<1>1. RcuTypes /\ RcuPlaces
  BY DEF RcuIInv
<1>2. n \in Entries /\ n \notin rcuLive /\ n \in Spots /\ n \notin Linked /\ rcuNext[n] = Null
      /\ Mylist \in RcuCells
  BY CellFacts DEF Unused, Linked
<1>3. rcuPc' \in [RcuActors -> RcuFrames] /\ Moves(a) /\ rcuPc'[a].at = "add" /\ rcuPc'[a].pos = n
  BY <1>1, <1>2, RcuStepped, LabelFacts
<1>4. RcuTypes'
  BY <1>1, <1>2, <1>3 DEF RcuTypes, RcuFrames
<1>5. RcuPlaces'
  BY <1>1, <1>3, CellFacts DEF RcuPlaces, Moves
<1>6. Linked' = Linked /\ Filling' = Filling /\ \A c : Behind(c)' = Behind(c)
  BY BehindIsFrom DEF Linked, Filling
<1>7. ASSUME Filling, ~rcuEarly PROVE Chained' /\ Standing'
  <2>1. Chained /\ Standing
    BY <1>7 DEF RcuIInv
  <2>2. Chained'
    <3>1. rcuPc'[Loader].at = "init_list" <=> rcuPc[Loader].at = "init_list"
      BY <1>3, CellFacts DEF Moves
    <3> QED
      BY <1>6, <2>1, <3>1 DEF Chained
  <2>3. Carries(a)'
    <3>1. \A c \in Spots : rcuNext[c] # n
      <4>1. \A c \in Spots : rcuNext[c] \in {Null, Mylist} \cup Linked
        BY <2>1, CellFacts DEF Chained, Linked
      <4> QED
        BY <1>2, <4>1, CellFacts
    <3> QED
      BY <1>2, <1>3, <1>6, <3>1 DEF Carries
  <2>4. ASSUME NEW b \in RcuActors, b # a, Adds(b)'
        PROVE  rcuPc'[b] = rcuPc[b] /\ Adds(b) /\ Carries(b)' /\ rcuPc'[b].pos # n
    <3>1. rcuPc'[b] = rcuPc[b]
      BY <1>3, <2>4 DEF Moves
    <3>2. Adds(b)
      BY <2>4, <3>1 DEF Adds
    <3>3. Carries(b)
      BY <2>1, <3>2 DEF Standing
    <3> QED
      BY <1>2, <1>6, <3>1, <3>2, <3>3 DEF Carries
  <2>5. \A t \in RcuThreads : rcuPc'[t].at = "walk" => rcuPc'[t].pos \in {Mylist} \cup Linked'
    BY <1>3, <1>6, <2>1, CellFacts DEF Moves, Standing
  <2>6. ASSUME NEW b \in RcuActors, NEW d \in RcuActors, Adds(b)', Adds(d)', b # d
        PROVE  rcuPc'[b].pos # rcuPc'[d].pos
    BY <1>3, <2>1, <2>4, <2>6 DEF Standing
  <2>7. \A b \in RcuActors : Adds(b)' => Carries(b)'
    BY <2>3, <2>4
  <2> QED
    BY <2>2, <2>5, <2>6, <2>7 DEF Standing
<1>8. ASSUME Filling, ~rcuEarly, ~rcuRaced PROVE Complete'
  <2>1. Complete
    BY <1>8 DEF RcuIInv
  <2>2. \A b \in RcuActors : rcuPc[b].at \in {"add", "publish", "oops"} => rcuPc'[b] = rcuPc[b]
    BY <1>3 DEF Moves
  <2>3. \A b \in RcuActors : rcuPc'[b].at \in {"publish", "back"} => rcuPc'[b] = rcuPc[b]
    BY <1>3 DEF Moves
  <2>4. ASSUME NEW m \in rcuLive'
        PROVE  \/ m \in Behind(rcuNext[Mylist])
               \/ \E b \in RcuActors : /\ rcuPc'[b].pos = m
                                       /\ rcuPc'[b].at \in {"add", "publish", "oops"}
    <3>1. CASE m = n
      BY <1>3, <3>1
    <3>2. CASE m \in rcuLive
      BY <2>1, <2>2, <3>2 DEF Complete
    <3> QED
      BY <3>1, <3>2
  <2> QED
    BY <1>6, <2>1, <2>3, <2>4 DEF Complete
<1>9. (~Filling /\ ~rcuEarly /\ ~rcuRaced => Emptying)'
  BY <1>6, InsertsWhileFilling
<1> QED
  BY <1>4, <1>5, <1>6, <1>7, <1>8, <1>9 DEF Kept

(* The first stores of list_add_rcu: the new entry points on.               *)
FirstStores(a, new, h) ==
  /\ rcuPc[a].at = "add" /\ new = rcuPc[a].pos /\ h = rcuNext[Mylist]
  /\ RcuStep(a, "publish", new, h)
  /\ rcuNext' = [rcuNext EXCEPT ![new] = h]
  /\ rcuPrev' = [rcuPrev EXCEPT ![new] = Mylist]
  /\ rcuEarly' = (rcuEarly \/ h = Null)
  /\ UNCHANGED <<rcuModule, rcuLive, rcuRaced>>

LEMMA AddKeeps ==
  ASSUME RcuIInv, NEW a \in RcuActors, NEW new, NEW h, FirstStores(a, new, h)
  PROVE  Kept
<1>0. /\ rcuPc[a].at = "add" /\ new = rcuPc[a].pos /\ h = rcuNext[Mylist]
      /\ rcuEarly' = (rcuEarly \/ h = Null) /\ UNCHANGED <<rcuModule, rcuLive, rcuRaced>>
  BY DEF FirstStores
<1>1. RcuTypes /\ RcuPlaces /\ new \in Spots /\ h \in RcuCells /\ Mylist \in Spots /\ Mylist \in RcuCells
  BY <1>0, CellFacts DEF RcuIInv, RcuTypes
<1>2. /\ rcuPc' \in [RcuActors -> RcuFrames] /\ Moves(a)
      /\ rcuPc'[a].at = "publish" /\ rcuPc'[a].pos = new /\ rcuPc'[a].nxt = h
  BY <1>1, RcuStepped, LabelFacts DEF FirstStores
<1>3. RcuTypes'
  BY <1>0, <1>1, <1>2 DEF RcuTypes, RcuFrames, FirstStores
<1>4. RcuPlaces'
  BY <1>0, <1>1, <1>2, CellFacts DEF RcuPlaces, Moves
<1>5. Filling' = Filling
  BY <1>0 DEF Filling
<1> SUFFICES ASSUME ~rcuEarly, h # Null, Filling
             PROVE  Chained' /\ Standing' /\ (~rcuRaced => Complete')
  BY <1>0, <1>3, <1>4, <1>5, InsertsWhileFilling DEF Kept, Adds
<1>6. Chained /\ Standing
  BY DEF RcuIInv
<1>7. Carries(a) /\ new \in rcuLive /\ new \in Entries /\ new \notin Linked /\ rcuNext[new] = Null
      /\ \A c \in Spots : rcuNext[c] # new
  <2>1. Carries(a)
    BY <1>0, <1>6 DEF Standing, Adds
  <2>2. new \in rcuLive /\ new \notin Linked /\ \A c \in Spots : rcuNext[c] # new
    BY <1>0, <2>1 DEF Carries
  <2>3. new \in Entries
    BY <1>1, <2>2 DEF RcuTypes
  <2> QED
    BY <2>1, <2>2, <2>3 DEF Linked
<1>8. rcuPc[Loader].at # "init_list" /\ rcuPc'[Loader].at # "init_list" /\ h \in {Mylist} \cup Linked /\ h # new
  <2>1. rcuPc[Loader].at # "init_list" /\ h \in {Mylist} \cup Linked
    BY <1>0, <1>6 DEF Chained
  <2>2. rcuPc'[Loader].at # "init_list"
    BY <1>2, <2>1, CellFacts DEF Moves
  <2> QED
    BY <1>0, <1>1, <1>7, <2>1, <2>2
<1>9. /\ rcuNext'[new] = h /\ \A c \in Spots : c # new => rcuNext'[c] = rcuNext[c]
      /\ rcuNext'[Mylist] = h /\ rcuNext \in [Spots -> RcuCells] /\ rcuNext' \in [Spots -> RcuCells]
      /\ rcuPrev'[new] = Mylist /\ \A c \in Spots : c # new => rcuPrev'[c] = rcuPrev[c]
  BY <1>0, <1>1, <1>3, <1>7, CellFacts DEF RcuTypes, FirstStores
<1>10. Linked' = Linked \cup {new}
  BY <1>7, <1>8, <1>9, CellFacts DEF Linked
<1>11. /\ \A c \in RcuCells \ {new} : Behind(c)' = Behind(c) /\ new \notin Behind(c)
       /\ Behind(new)' = {new} \cup Behind(h)
  <2>1. \A c \in RcuCells \ {new} : From(rcuNext', c) = From(rcuNext, c) /\ new \notin From(rcuNext, c)
    BY <1>7, <1>9, FromNew
  <2>2. From(rcuNext', new) = {new} \cup From(rcuNext', h)
    BY <1>7, <1>9, FromFirst
  <2>3. h \in RcuCells \ {new}
    BY <1>1, <1>8
  <2> QED
    BY <2>1, <2>2, <2>3, BehindIsFrom
<1>12. Chained'
  <2>1. Linked' \subseteq rcuLive'
    BY <1>0, <1>6, <1>7, <1>10 DEF Chained
  <2>2. rcuNext'[Mylist] \in {Mylist} \cup Linked'
    BY <1>8, <1>9, <1>10
  <2>3. ASSUME NEW n \in Linked
        PROVE  /\ rcuNext'[n] \in {Mylist} \cup Linked'
               /\ Mylist \in Behind(n)' /\ n \notin Behind(rcuNext[n])'
    <3>1. n \in Entries /\ n \in Spots /\ n # new /\ n \in RcuCells
      BY <1>7, CellFacts DEF Linked
    <3>2. rcuNext'[n] = rcuNext[n] /\ rcuNext[n] \in RcuCells \ {new}
      BY <1>1, <1>7, <1>9, <3>1
    <3> QED
      BY <1>6, <1>10, <1>11, <3>1, <3>2 DEF Chained
  <2>4. /\ rcuNext'[new] \in {Mylist} \cup Linked'
        /\ Mylist \in Behind(new)' /\ new \notin Behind(rcuNext[new])'
    <3>1. Mylist \in Behind(h)
      BY <1>1, <1>6, <1>8, FromSelf, BehindIsFrom DEF Chained
    <3>2. h \in RcuCells \ {new}
      BY <1>1, <1>8
    <3> QED
      BY <1>8, <1>9, <1>10, <1>11, <3>1, <3>2
  <2> QED
    BY <1>8, <1>10, <2>1, <2>2, <2>3, <2>4 DEF Chained
<1>13. ASSUME NEW b \in RcuActors, b # a, Adds(b)'
       PROVE  /\ rcuPc'[b] = rcuPc[b] /\ Adds(b) /\ Carries(b)' /\ rcuPc'[b].pos # new
  <2>1. rcuPc'[b] = rcuPc[b]
    BY <1>2, <1>13 DEF Moves
  <2>2. Adds(b)
    BY <1>13, <2>1 DEF Adds
  <2>3. Adds(a) /\ Carries(b)
    BY <1>0, <1>6, <2>2 DEF Standing, Adds
  <2>4. rcuPc[b].pos # new
    BY <1>0, <1>6, <1>13, <2>2, <2>3 DEF Standing
  <2>5. rcuPc[b].pos \in rcuLive /\ rcuPc[b].pos \in Spots
    BY <1>1, <2>3, CellFacts DEF Carries, RcuTypes
  <2>6. rcuPc[b].at # "back" => \A c \in Spots : rcuNext'[c] # rcuPc[b].pos
    <3> SUFFICES ASSUME rcuPc[b].at # "back", NEW c \in Spots PROVE rcuNext'[c] # rcuPc[b].pos
      OBVIOUS
    <3>1. \A d \in Spots : rcuNext[d] # rcuPc[b].pos
      BY <2>3 DEF Carries
    <3>2. rcuNext'[c] = rcuNext[c] \/ rcuNext'[c] = rcuNext[Mylist]
      BY <1>0, <1>9
    <3> QED
      BY <1>1, <3>1, <3>2
  <2>7. IF rcuPc[b].at = "add" THEN rcuPc[b].pos \notin Linked'
        ELSE rcuPc[b].pos \in Linked' /\ rcuPc[b].nxt = rcuNext'[rcuPc[b].pos]
    BY <1>9, <1>10, <2>3, <2>4, <2>5 DEF Carries
  <2> QED
    BY <1>0, <2>1, <2>2, <2>4, <2>5, <2>6, <2>7 DEF Carries
<1>14. Carries(a)'
  <2>1. \A c \in Spots : rcuNext'[c] # new
    BY <1>7, <1>8, <1>9
  <2> QED
    BY <1>0, <1>2, <1>7, <1>9, <1>10, <2>1 DEF Carries
<1>15. Standing'
  <2>1. \A t \in RcuThreads : rcuPc'[t].at = "walk" => rcuPc'[t].pos \in {Mylist} \cup Linked'
    BY <1>2, <1>6, <1>10, CellFacts DEF Moves, Standing
  <2>2. ASSUME NEW b \in RcuActors, NEW d \in RcuActors, Adds(b)', Adds(d)', b # d
        PROVE  rcuPc'[b].pos # rcuPc'[d].pos
    BY <1>2, <1>6, <1>13, <2>2 DEF Standing
  <2>3. \A b \in RcuActors : Adds(b)' => Carries(b)'
    BY <1>13, <1>14
  <2> QED
    BY <2>1, <2>2, <2>3 DEF Standing
<1>16. ASSUME ~rcuRaced PROVE Complete'
  <2>1. Complete
    BY <1>16 DEF RcuIInv
  <2>2. Behind(rcuNext[Mylist])' = Behind(rcuNext[Mylist])
    BY <1>0, <1>1, <1>8, <1>9, <1>11
  <2>3. ASSUME NEW b \in RcuActors, rcuPc[b].at \in {"add", "publish", "oops"}
        PROVE  rcuPc'[b].at \in {"add", "publish", "oops"} /\ rcuPc'[b].pos = rcuPc[b].pos
    BY <1>0, <1>2, <2>3 DEF Moves
  <2>4. ASSUME NEW m \in rcuLive'
        PROVE  \/ m \in Behind(rcuNext[Mylist])'
               \/ \E b \in RcuActors : /\ rcuPc'[b].pos = m
                                       /\ rcuPc'[b].at \in {"add", "publish", "oops"}
    <3>1. CASE m \in Behind(rcuNext[Mylist])
      BY <2>2, <3>1
    <3>2. CASE \E b \in RcuActors : /\ rcuPc[b].pos = m
                                    /\ rcuPc[b].at \in {"add", "publish", "oops"}
      BY <2>3, <3>2
    <3> QED
      BY <1>0, <2>1, <3>1, <3>2 DEF Complete
  <2>5. ASSUME NEW b \in RcuActors, rcuPc'[b].at \in {"publish", "back"}
        PROVE  /\ rcuPc'[b].at = "publish" => /\ rcuPc'[b].nxt = rcuNext'[Mylist]
                                              /\ rcuPrev'[rcuPc'[b].pos] = Mylist
               /\ rcuPc'[b].at = "back" => rcuPc'[b].pos \in Behind(rcuNext[Mylist])'
    <3>1. CASE b = a
      BY <1>2, <1>9, <3>1
    <3>2. CASE b # a
      <4>1. Adds(b)'
        BY <2>5 DEF Adds
      <4>2. rcuPc'[b] = rcuPc[b] /\ rcuPc[b].pos # new /\ rcuPc[b].pos \in Spots
        BY <1>1, <1>13, <3>2, <4>1 DEF RcuTypes
      <4> QED
        BY <1>0, <1>9, <2>1, <2>2, <2>5, <4>2 DEF Complete
    <3> QED
      BY <3>1, <3>2
  <2>6. rcuNext'[Mylist] \in Entries => rcuPrev'[rcuNext'[Mylist]] = Mylist
    <3>1. h \in Entries => rcuPrev[h] = Mylist
      BY <1>0, <2>1 DEF Complete
    <3>2. h \in Entries => rcuPrev'[h] = rcuPrev[h]
      BY <1>8, <1>9, CellFacts
    <3> QED
      BY <1>9, <3>1, <3>2
  <2> QED
    BY <2>4, <2>5, <2>6 DEF Complete
<1> QED
  BY <1>12, <1>15, <1>16

(* list_add_rcu publishes the entry: the head's next.                       *)
Publishes(a, new) ==
  /\ rcuPc[a].at = "publish" /\ new = rcuPc[a].pos
  /\ RcuGoto(a, "back")
  /\ rcuNext' = [rcuNext EXCEPT ![Mylist] = new]
  /\ rcuRaced' = (rcuRaced \/ Inserting # {a})
  /\ UNCHANGED <<rcuModule, rcuPrev, rcuLive, rcuEarly>>

LEMMA PublishKeeps ==
  ASSUME RcuIInv, NEW a \in RcuActors, NEW new, Publishes(a, new)
  PROVE  Kept
<1>0. /\ rcuPc[a].at = "publish" /\ new = rcuPc[a].pos
      /\ UNCHANGED <<rcuModule, rcuPrev, rcuLive, rcuEarly>>
  BY DEF Publishes
<1>1. RcuTypes /\ RcuPlaces /\ new \in Spots /\ new \in RcuCells
  BY <1>0, CellFacts DEF RcuIInv, RcuTypes
<1>2. /\ rcuPc' \in [RcuActors -> RcuFrames] /\ Moves(a)
      /\ rcuPc'[a].at = "back" /\ rcuPc'[a].pos = new /\ rcuPc'[a].nxt = rcuPc[a].nxt
  BY <1>0, <1>1, RcuGone, LabelFacts DEF Publishes
<1>3. RcuTypes'
  BY <1>0, <1>1, <1>2, CellFacts DEF RcuTypes, RcuFrames, Publishes
<1>4. RcuPlaces'
  BY <1>0, <1>1, <1>2, CellFacts DEF RcuPlaces, Moves
<1>5. Filling' = Filling
  BY <1>0 DEF Filling
<1>6. rcuNext'[Mylist] = new /\ \A c \in Entries : rcuNext'[c] = rcuNext[c]
  BY <1>1, CellFacts DEF Publishes, RcuTypes
<1>7. Linked' = Linked /\ \A c : Behind(c)' = Behind(c)
  BY <1>6, FromSame, BehindIsFrom DEF Linked
<1>8. rcuRaced => rcuRaced'
  BY DEF Publishes
<1> SUFFICES ASSUME ~rcuEarly, Filling
             PROVE  Chained' /\ Standing' /\ (~rcuRaced' => Complete')
  BY <1>0, <1>3, <1>4, <1>5, <1>8, InsertsWhileFilling DEF Kept, Adds
<1>9. Chained /\ Standing /\ Adds(a) /\ Carries(a)
  BY <1>0 DEF RcuIInv, Standing, Adds
<1>10. /\ new \in Linked /\ new \in Entries /\ new \in rcuLive /\ rcuPc[a].nxt = rcuNext[new]
       /\ \A c \in Spots : rcuNext[c] # new
  BY <1>0, <1>9 DEF Carries, Linked
<1>11. rcuPc[Loader].at # "init_list" /\ rcuPc'[Loader].at # "init_list"
  <2>1. rcuPc[Loader].at # "init_list"
    BY <1>9, <1>10 DEF Chained
  <2> QED
    BY <1>2, <2>1, CellFacts DEF Moves
<1>12. Chained'
  <2>1. \A n \in Linked : n \in Entries /\ rcuNext'[n] = rcuNext[n]
    BY <1>6 DEF Linked
  <2> QED
    BY <1>0, <1>6, <1>7, <1>9, <1>10, <1>11, <2>1 DEF Chained
<1>13. ASSUME NEW b \in RcuActors, b # a, Adds(b)'
       PROVE  rcuPc'[b] = rcuPc[b] /\ Adds(b) /\ Carries(b)' /\ rcuPc'[b].pos # new
  <2>1. rcuPc'[b] = rcuPc[b]
    BY <1>2, <1>13 DEF Moves
  <2>2. Adds(b)
    BY <1>13, <2>1 DEF Adds
  <2>3. Carries(b) /\ rcuPc[b].pos # new
    BY <1>0, <1>9, <1>13, <2>2 DEF Standing
  <2>4. rcuPc[b].pos \in Entries
    BY <1>1, <2>3 DEF Carries, RcuTypes
  <2>5. rcuPc[b].at # "back" => \A c \in Spots : rcuNext'[c] # rcuPc[b].pos
    BY <1>6, <2>3, CellFacts DEF Carries
  <2> QED
    BY <1>0, <1>6, <1>7, <2>1, <2>2, <2>3, <2>4, <2>5 DEF Carries
<1>14. Carries(a)'
  BY <1>0, <1>2, <1>6, <1>7, <1>10 DEF Carries
<1>15. Standing'
  <2>1. \A t \in RcuThreads : rcuPc'[t].at = "walk" => rcuPc'[t].pos \in {Mylist} \cup Linked'
    BY <1>2, <1>7, <1>9, CellFacts DEF Moves, Standing
  <2>2. ASSUME NEW b \in RcuActors, NEW d \in RcuActors, Adds(b)', Adds(d)', b # d
        PROVE  rcuPc'[b].pos # rcuPc'[d].pos
    BY <1>0, <1>2, <1>9, <1>13, <2>2 DEF Standing
  <2>3. \A b \in RcuActors : Adds(b)' => Carries(b)'
    BY <1>13, <1>14
  <2> QED
    BY <2>1, <2>2, <2>3 DEF Standing
<1>16. ASSUME ~rcuRaced' PROVE Complete'
  <2>1. Complete /\ Inserting = {a}
    BY <1>16 DEF RcuIInv, Publishes
  <2>2. rcuPc[a].nxt = rcuNext[Mylist] /\ rcuPrev[new] = Mylist
    BY <1>0, <2>1 DEF Complete
  <2>3. Behind(new) = {new} \cup Behind(rcuNext[Mylist])
    <3>1. rcuNext[new] = rcuNext[Mylist] /\ rcuNext \in [Spots -> RcuCells]
      BY <1>1, <1>10, <2>2 DEF RcuTypes
    <3>2. From(rcuNext, new) = {new} \cup From(rcuNext, rcuNext[new])
      BY <1>10, <3>1, FromFirst
    <3> QED
      BY <3>1, <3>2, BehindIsFrom
  <2>4. Behind(rcuNext[Mylist])' = {new} \cup Behind(rcuNext[Mylist])
    <3>1. Behind(rcuNext[Mylist])' = From(rcuNext', new)
      BY <1>6, BehindIsFrom
    <3>2. From(rcuNext', new) = From(rcuNext, new)
      BY <1>6, FromSame
    <3> QED
      BY <2>3, <3>1, <3>2, BehindIsFrom
  <2>5. ASSUME NEW m \in rcuLive'
        PROVE  \/ m \in Behind(rcuNext[Mylist])'
               \/ \E b \in RcuActors : /\ rcuPc'[b].pos = m
                                       /\ rcuPc'[b].at \in {"add", "publish", "oops"}
    <3>1. CASE m \in Behind(rcuNext[Mylist])
      BY <2>4, <3>1
    <3>2. CASE \E b \in RcuActors : /\ rcuPc[b].pos = m
                                    /\ rcuPc[b].at \in {"add", "publish", "oops"}
      <4>1. PICK b \in RcuActors : rcuPc[b].pos = m /\ rcuPc[b].at \in {"add", "publish", "oops"}
        BY <3>2
      <4>2. CASE b = a
        BY <1>0, <2>4, <4>1, <4>2
      <4>3. CASE b # a
        BY <1>2, <4>1, <4>3 DEF Moves
      <4> QED
        BY <4>2, <4>3
    <3> QED
      BY <1>0, <2>1, <3>1, <3>2 DEF Complete
  <2>6. ASSUME NEW b \in RcuActors, rcuPc'[b].at \in {"publish", "back"}
        PROVE  /\ rcuPc'[b].at # "publish"
               /\ rcuPc'[b].pos \in Behind(rcuNext[Mylist])'
    <3>1. CASE b = a
      BY <1>2, <2>4, <3>1
    <3>2. CASE b # a
      <4>1. rcuPc'[b] = rcuPc[b]
        BY <1>2, <3>2 DEF Moves
      <4>2. rcuPc[b].at # "publish"
        BY <2>1, <3>2 DEF Inserting
      <4> QED
        BY <2>1, <2>4, <2>6, <4>1, <4>2 DEF Complete
    <3> QED
      BY <3>1, <3>2
  <2>7. rcuPrev'[rcuNext'[Mylist]] = Mylist
    BY <1>0, <1>6, <2>2
  <2> QED
    BY <2>5, <2>6, <2>7 DEF Complete
<1> QED
  BY <1>12, <1>15, <1>16

(* The end of list_add_rcu: the old first entry points back at the new one. *)
PointsBack(a, new, nxt) ==
  /\ rcuPc[a].at = "back" /\ new = rcuPc[a].pos /\ nxt = rcuPc[a].nxt /\ Held(nxt)
  /\ rcuPrev' = [rcuPrev EXCEPT ![nxt] = new]
  /\ IF a = Loader THEN RcuGoto(a, "fill") ELSE rcuPc' = [rcuPc EXCEPT ![a] = RcuIdle]
  /\ UNCHANGED <<rcuModule, rcuNext, rcuLive, rcuEarly, rcuRaced>>

LEMMA BackKeeps ==
  ASSUME RcuIInv, NEW a \in RcuActors, NEW new, NEW nxt, PointsBack(a, new, nxt)
  PROVE  Kept
<1>0. /\ rcuPc[a].at = "back" /\ new = rcuPc[a].pos /\ nxt = rcuPc[a].nxt
      /\ UNCHANGED <<rcuModule, rcuNext, rcuLive, rcuEarly, rcuRaced>>
  BY DEF PointsBack
<1>1. RcuTypes /\ RcuPlaces /\ new \in Spots /\ new \in RcuCells /\ nxt \in Spots
  BY <1>0, CellFacts DEF RcuIInv, RcuTypes, PointsBack, Held
<1>2. /\ rcuPc' \in [RcuActors -> RcuFrames] /\ Moves(a)
      /\ rcuPc'[a].at = IF a = Loader THEN "fill" ELSE "idle"
      /\ a # Loader => rcuPc'[a].pos = Mylist
  <2>1. CASE a = Loader
    BY <1>1, <2>1, RcuGone, LabelFacts DEF PointsBack
  <2>2. CASE a # Loader
    BY <1>1, <2>2, RcuRested DEF PointsBack
  <2> QED
    BY <2>1, <2>2
<1>3. RcuTypes'
  BY <1>0, <1>1, <1>2 DEF RcuTypes, RcuFrames, PointsBack
<1>4. RcuPlaces'
  BY <1>0, <1>1, <1>2, CellFacts DEF RcuPlaces, Moves
<1>5. /\ Filling' = Filling /\ Linked' = Linked /\ \A c : Behind(c)' = Behind(c)
      /\ rcuPrev'[nxt] = new /\ \A c \in Spots : c # nxt => rcuPrev'[c] = rcuPrev[c]
  BY <1>0, <1>1, BehindIsFrom DEF Filling, Linked, RcuTypes, PointsBack
<1> SUFFICES ASSUME ~rcuEarly, Filling
             PROVE  Chained' /\ Standing' /\ (~rcuRaced => Complete')
  BY <1>0, <1>3, <1>4, <1>5, InsertsWhileFilling DEF Kept, Adds
<1>6. Chained /\ Standing /\ Adds(a) /\ Carries(a) /\ new \in Linked /\ nxt = rcuNext[new]
  <2>1. Chained /\ Standing /\ Adds(a) /\ Carries(a)
    BY <1>0 DEF RcuIInv, Standing, Adds
  <2> QED
    BY <1>0, <2>1 DEF Carries
<1>7. rcuPc[Loader].at # "init_list" /\ rcuPc'[Loader].at # "init_list"
  <2>1. rcuPc[Loader].at # "init_list"
    BY <1>6 DEF Chained
  <2> QED
    BY <1>2, <2>1, CellFacts DEF Moves
<1>8. Chained'
  BY <1>0, <1>5, <1>6, <1>7 DEF Chained
<1>9. ASSUME NEW b \in RcuActors, Adds(b)'
      PROVE  b # a /\ rcuPc'[b] = rcuPc[b] /\ Adds(b) /\ Carries(b) /\ Carries(b)'
  <2>1. b # a
    BY <1>2, <1>9 DEF Adds
  <2>2. rcuPc'[b] = rcuPc[b]
    BY <1>2, <2>1 DEF Moves
  <2>3. Adds(b)
    BY <1>9, <2>2 DEF Adds
  <2>4. Carries(b)
    BY <1>6, <2>3 DEF Standing
  <2> QED
    BY <1>0, <1>5, <2>1, <2>2, <2>3, <2>4 DEF Carries
<1>10. Standing'
  <2>1. \A t \in RcuThreads : rcuPc'[t].at = "walk" => rcuPc'[t].pos \in {Mylist} \cup Linked'
    BY <1>2, <1>5, <1>6, CellFacts DEF Moves, Standing
  <2>2. ASSUME NEW b \in RcuActors, NEW d \in RcuActors, Adds(b)', Adds(d)', b # d
        PROVE  rcuPc'[b].pos # rcuPc'[d].pos
    BY <1>6, <1>9, <2>2 DEF Standing
  <2>3. \A b \in RcuActors : Adds(b)' => Carries(b)'
    BY <1>9
  <2> QED
    BY <2>1, <2>2, <2>3 DEF Standing
<1>11. ASSUME ~rcuRaced PROVE Complete'
  <2>1. Complete
    BY <1>11 DEF RcuIInv
  <2>2. ASSUME NEW b \in RcuActors, rcuPc[b].at \in {"add", "publish", "oops"}
        PROVE  rcuPc'[b].at \in {"add", "publish", "oops"} /\ rcuPc'[b].pos = rcuPc[b].pos
    BY <1>0, <1>2, <2>2 DEF Moves
  <2>3. ASSUME NEW m \in rcuLive'
        PROVE  \/ m \in Behind(rcuNext[Mylist])'
               \/ \E b \in RcuActors : /\ rcuPc'[b].pos = m
                                       /\ rcuPc'[b].at \in {"add", "publish", "oops"}
    <3>1. CASE m \in Behind(rcuNext[Mylist])
      BY <1>0, <1>5, <3>1
    <3>2. CASE \E b \in RcuActors : /\ rcuPc[b].pos = m
                                    /\ rcuPc[b].at \in {"add", "publish", "oops"}
      BY <2>2, <3>2
    <3> QED
      BY <1>0, <2>1, <3>1, <3>2 DEF Complete
  <2>4. ASSUME NEW b \in RcuActors, rcuPc'[b].at \in {"publish", "back"}
        PROVE  /\ rcuPc'[b].at = "publish" => /\ rcuPc'[b].nxt = rcuNext'[Mylist]
                                              /\ rcuPrev'[rcuPc'[b].pos] = Mylist
               /\ rcuPc'[b].at = "back" => rcuPc'[b].pos \in Behind(rcuNext[Mylist])'
    <3>1. b # a /\ rcuPc'[b] = rcuPc[b] /\ Carries(b) /\ rcuPc[b].pos \in Spots
      BY <1>1, <1>9, <2>4 DEF Adds, RcuTypes
    <3>2. rcuPc[b].at = "publish" => rcuPc[b].pos # nxt
      BY <1>1, <1>6, <3>1 DEF Carries
    <3>3. rcuPc[b].at = "publish" => rcuPc[b].nxt = rcuNext[Mylist] /\ rcuPrev[rcuPc[b].pos] = Mylist
      BY <2>1 DEF Complete
    <3>4. rcuPc[b].at = "back" => rcuPc[b].pos \in Behind(rcuNext[Mylist])
      BY <2>1 DEF Complete
    <3> QED
      BY <1>0, <1>5, <3>1, <3>2, <3>3, <3>4
  <2>5. rcuNext'[Mylist] \in Entries => rcuPrev'[rcuNext'[Mylist]] = Mylist
    <3>1. new \in Behind(rcuNext[Mylist])
      BY <1>0, <2>1 DEF Complete
    <3>2. new \notin Behind(nxt)
      BY <1>6 DEF Chained
    <3>3. nxt # rcuNext[Mylist]
      BY <3>1, <3>2
    <3>4. rcuNext[Mylist] \in Entries => rcuPrev[rcuNext[Mylist]] = Mylist
      BY <2>1 DEF Complete
    <3> QED
      BY <1>0, <1>5, <3>3, <3>4, CellFacts
  <2> QED
    BY <2>3, <2>4, <2>5 DEF Complete
<1> QED
  BY <1>8, <1>10, <1>11

LEMMA ListAddKeeps ==
  ASSUME RcuIInv, NEW a \in RcuActors, ListAddRcu(a)
  PROVE  Kept
<1> DEFINE new == rcuPc[a].pos
           nxt == rcuPc[a].nxt
           h == rcuNext[Mylist]
<1>1. rcuModule # "unloaded" /\ UNCHANGED <<rcuModule, rcuLive>>
  BY DEF ListAddRcu, RcuAt
<1>2. CASE FirstStores(a, new, h)
  <2> HIDE DEF new, h
  <2> QED
    BY <1>2, AddKeeps
<1>3. CASE Publishes(a, new)
  <2> HIDE DEF new
  <2> QED
    BY <1>3, PublishKeeps
<1>4. CASE PointsBack(a, new, nxt)
  <2> HIDE DEF new, nxt
  <2> QED
    BY <1>4, BackKeeps
<1>5. CASE rcuPc[a].at = "back" /\ RcuGoto(a, "oops") /\ UNCHANGED <<rcuNext, rcuPrev, rcuHistory>>
  BY <1>1, <1>5, OopsKeeps DEF rcuHistory
<1>6. \/ FirstStores(a, new, h) \/ Publishes(a, new) \/ PointsBack(a, new, nxt)
      \/ rcuPc[a].at = "back" /\ RcuGoto(a, "oops") /\ UNCHANGED <<rcuNext, rcuPrev, rcuHistory>>
  BY <1>1 DEF ListAddRcu, RcuAt, FirstStores, Publishes, PointsBack, rcuHistory
<1> QED
  BY <1>2, <1>3, <1>4, <1>5, <1>6

(***************************************************************************)
(* exit.                                                                   *)
(***************************************************************************)
LEMMA ExitKeeps ==
  ASSUME RcuIInv, RcuExit
  PROVE  Kept
<1> DEFINE h == rcuNext[Mylist]
<1>1. /\ rcuModule = "loaded" /\ rcuPc[Loader].at = "idle" /\ rcuModule' = "exiting"
      /\ \A b \in RcuActors : rcuPc[b].at # "oops"
      /\ \/ Held(h) /\ RcuStep(Loader, "delete", h, rcuNext[h])
         \/ RcuGoto(Loader, "oops")
      /\ rcuRaced' = (rcuRaced \/ Writing # {})
      /\ UNCHANGED <<rcuNext, rcuPrev, rcuLive, rcuEarly>>
  BY DEF RcuExit, RcuAt, rcuList
<1> HIDE DEF h
<1>2. RcuTypes /\ RcuPlaces /\ Loader \in RcuActors /\ Loader \notin RcuThreads /\ h \in RcuCells
  BY CellFacts DEF RcuIInv, RcuTypes, h
<1>3. /\ rcuPc' \in [RcuActors -> RcuFrames] /\ Moves(Loader)
      /\ \/ /\ rcuPc'[Loader].at = "delete" /\ rcuPc'[Loader].pos = h
            /\ rcuPc'[Loader].nxt = rcuNext[h]
         \/ rcuPc'[Loader].at = "oops"
  <2>1. CASE Held(h) /\ RcuStep(Loader, "delete", h, rcuNext[h])
    <3>1. h \in Spots
      BY <1>2, <2>1, CellFacts DEF Held, RcuTypes
    <3>2. rcuNext[h] \in RcuCells
      BY <1>2, <3>1 DEF RcuTypes
    <3> QED
      BY <1>2, <2>1, <3>1, <3>2, RcuStepped, LabelFacts
  <2>2. CASE RcuGoto(Loader, "oops")
    BY <1>2, <2>2, RcuGone, LabelFacts
  <2> QED
    BY <1>1, <2>1, <2>2
<1>4. RcuTypes'
  <2>1. rcuRaced' \in BOOLEAN /\ rcuEarly' \in BOOLEAN
    BY <1>1, <1>2 DEF RcuTypes
  <2> QED
    BY <1>1, <1>2, <1>3, <2>1 DEF RcuTypes, RcuFrames
<1>5. RcuPlaces'
  <2>1. \A t \in RcuThreads : rcuPc'[t] = rcuPc[t]
    BY <1>2, <1>3, CellFacts DEF Moves
  <2> QED
    BY <1>1, <1>2, <1>3, <2>1 DEF RcuPlaces
<1>6. Filling /\ ~Filling'
  BY <1>1 DEF Filling
<1>7. ASSUME ~rcuEarly, ~rcuRaced' PROVE Emptying'
  <2>1. Chained /\ Complete /\ Writing = {}
    BY <1>1, <1>6, <1>7 DEF RcuIInv
  <2>2. /\ Linked' = Linked /\ \A c : Behind(c)' = Behind(c)
        /\ h \in {Mylist} \cup Linked
    BY <1>1, <2>1, BehindIsFrom DEF Linked, Chained, h
  <2>3. \A t \in RcuThreads : rcuPc'[t].at \notin {"alloc", "add", "publish", "back"}
    BY <1>2, <1>3, <2>1, CellFacts DEF Moves, Writing
  <2>4. rcuLive \subseteq Behind(h)
    <3> SUFFICES ASSUME NEW n \in rcuLive PROVE n \in Behind(h)
      OBVIOUS
    <3>1. \A b \in RcuActors : rcuPc[b].at \notin {"add", "publish", "oops"}
      <4> SUFFICES ASSUME NEW b \in RcuActors PROVE rcuPc[b].at \notin {"add", "publish", "oops"}
        OBVIOUS
      <4>1. CASE b = Loader
        BY <1>1, <4>1
      <4>2. CASE b \in RcuThreads
        BY <1>1, <2>1, <4>2 DEF Writing
      <4> QED
        BY <4>1, <4>2, CellFacts
    <3> QED
      BY <2>1, <3>1 DEF Complete, h
  <2>5. h # Mylist => rcuPrev[h] = Mylist
    BY <2>1, <2>2 DEF Complete, Linked, h
  <2>6. \A n \in Linked : rcuNext[n] \in {Mylist} \cup Linked /\ n \notin Behind(rcuNext[n])
    BY <2>1 DEF Chained
  <2>7. rcuModule' # "unloaded" /\ rcuPc'[Loader].at # "free"
    BY <1>1, <1>3
  <2> QED
    BY <1>1, <1>3, <2>2, <2>3, <2>4, <2>5, <2>6, <2>7 DEF Emptying
<1> QED
  BY <1>1, <1>4, <1>5, <1>6, <1>7 DEF Kept

(* list_del_rcu; and at the head the loop is over.                          *)
LEMMA DeleteKeeps ==
  ASSUME RcuIInv, RcuDelete
  PROVE  Kept
<1> DEFINE c == rcuPc[Loader].pos
           p == rcuPrev[c]
           nxt == rcuNext[c]
<1>1. RcuTypes /\ RcuPlaces /\ Loader \in RcuActors /\ Loader \notin RcuThreads
      /\ c \in Spots /\ p \in RcuCells /\ nxt \in RcuCells
  <2>1. RcuTypes /\ RcuPlaces /\ Loader \in RcuActors /\ Loader \notin RcuThreads
    BY CellFacts DEF RcuIInv
  <2>2. c \in Spots
    BY <2>1 DEF RcuTypes
  <2> QED
    BY <2>1, <2>2 DEF RcuTypes
<1>2. /\ rcuPc[Loader].at = "delete" /\ rcuModule = "exiting"
      /\ UNCHANGED <<rcuLive, rcuEarly, rcuRaced>>
  BY <1>1 DEF RcuDelete, RcuAt, rcuHistory, RcuPlaces, RcuTypes
<1>3. ~Filling /\ (~rcuEarly /\ ~rcuRaced => Emptying)
  BY <1>2 DEF RcuIInv, Filling
<1>4. CASE c = Mylist /\ rcuModule' = "unloaded" /\ UNCHANGED <<rcuPc, rcuNext, rcuPrev>>
  <2>1. RcuTypes'
    BY <1>1, <1>2, <1>4 DEF RcuTypes
  <2>2. RcuPlaces'
    BY <1>1, <1>2, <1>4 DEF RcuPlaces
  <2>3. ~Filling' /\ Linked' = Linked /\ \A d : Behind(d)' = Behind(d)
    BY <1>4, BehindIsFrom DEF Filling, Linked
  <2>4. ASSUME Emptying PROVE Emptying'
    <3>1. rcuLive = {}
      <4>1. rcuLive \subseteq {Mylist} /\ rcuLive \subseteq Entries
        BY <1>1, <1>2, <1>4, <2>4, BehindIsFrom, FromHead DEF Emptying, RcuTypes
      <4> QED
        BY <4>1, CellFacts
    <3> QED
      BY <1>2, <1>4, <2>3, <2>4, <3>1 DEF Emptying
  <2> QED
    BY <1>2, <1>3, <2>1, <2>2, <2>3, <2>4 DEF Kept
<1>5. CASE /\ c # Mylist /\ Held(p) /\ Held(nxt)
           /\ rcuNext' = [rcuNext EXCEPT ![p] = nxt]
           /\ rcuPrev' = [rcuPrev EXCEPT ![nxt] = p, ![c] = Null]
           /\ RcuGoto(Loader, "free") /\ UNCHANGED rcuModule
  <2>1. /\ rcuPc' \in [RcuActors -> RcuFrames] /\ Moves(Loader) /\ rcuPc'[Loader].at = "free"
        /\ rcuPc'[Loader].pos = c /\ rcuPc'[Loader].nxt = rcuPc[Loader].nxt
    BY <1>1, <1>5, RcuGone, LabelFacts
  <2>2. p \in Spots /\ nxt \in Spots /\ c \in Entries
    BY <1>1, <1>5, CellFacts DEF Held, RcuTypes
  <2> HIDE DEF p, nxt, c
  <2>3. rcuNext' \in [Spots -> RcuCells] /\ rcuPrev' \in [Spots -> RcuCells]
    BY <1>1, <1>5, <2>2, CellFacts DEF RcuTypes
  <2>4. RcuTypes'
    BY <1>1, <1>2, <1>5, <2>1, <2>3 DEF RcuTypes, RcuFrames
  <2>5. RcuPlaces'
    BY <1>1, <1>2, <1>5, <2>1, CellFacts DEF RcuPlaces, Moves
  <2>6. ~Filling'
    BY <1>3, <1>5 DEF Filling
  <2>7. ASSUME Emptying PROVE Emptying'
    <3>1. /\ p = Mylist /\ c \in Linked /\ nxt = rcuPc[Loader].nxt
          /\ nxt \in {Mylist} \cup Linked /\ c \notin Behind(nxt) /\ rcuLive \subseteq Behind(c)
      <4>1. rcuPc[Loader].pos = c /\ rcuPc[Loader].at = "delete"
        BY <1>2 DEF c
      <4>2. /\ rcuLive \subseteq Behind(c) /\ c \in {Mylist} \cup Linked
            /\ rcuPc[Loader].nxt = rcuNext[c] /\ rcuPrev[c] = Mylist
        BY <1>5, <2>7, <4>1 DEF Emptying
      <4> QED
        BY <1>5, <2>7, <4>2 DEF Emptying, p, nxt
    <3>2. \A n \in Entries : rcuNext'[n] = rcuNext[n]
      BY <1>1, <1>5, <3>1, CellFacts DEF RcuTypes
    <3>3. Linked' = Linked /\ \A d : Behind(d)' = Behind(d)
      BY <3>2, FromSame, BehindIsFrom DEF Linked
    <3>4. nxt # c /\ Behind(c) = {c} \cup Behind(nxt)
      <4>1. nxt \in Behind(nxt)
        BY <1>1, FromSelf, BehindIsFrom
      <4>2. rcuNext \in [Spots -> RcuCells]
        BY <1>1 DEF RcuTypes
      <4>3. From(rcuNext, c) = {c} \cup From(rcuNext, rcuNext[c])
        BY <2>2, <4>2, FromFirst
      <4> QED
        BY <3>1, <4>1, <4>3, BehindIsFrom DEF nxt
    <3>5. rcuPrev'[nxt] = Mylist
      BY <1>1, <1>5, <2>2, <3>1, <3>4 DEF RcuTypes
    <3>6. \A n \in Linked' : rcuNext'[n] \in {Mylist} \cup Linked' /\ n \notin Behind(rcuNext[n])'
      <4>1. \A n \in Linked : rcuNext'[n] = rcuNext[n]
        BY <3>2 DEF Linked
      <4> QED
        BY <2>7, <3>3, <4>1 DEF Emptying
    <3>7. \A t \in RcuThreads : rcuPc'[t].at \notin {"alloc", "add", "publish", "back"}
      BY <1>1, <2>1, <2>7, CellFacts DEF Emptying, Moves
    <3>8. rcuLive' \ {c} \subseteq From(rcuNext', nxt) /\ rcuPc'[Loader].nxt = nxt
      <4>1. From(rcuNext', nxt) = Behind(nxt)
        BY <3>2, FromSame, BehindIsFrom
      <4> QED
        BY <1>2, <2>1, <3>1, <3>4, <4>1
    <3>9. rcuModule' # "unloaded"
      BY <1>2, <1>5
    <3> QED
      BY <2>1, <3>1, <3>3, <3>5, <3>6, <3>7, <3>8, <3>9, BehindIsFrom DEF Emptying
  <2> QED
    BY <1>2, <1>3, <2>4, <2>5, <2>6, <2>7 DEF Kept
<1>6. CASE RcuGoto(Loader, "oops") /\ UNCHANGED <<rcuNext, rcuPrev, rcuModule>>
  <2>1. /\ rcuPc' \in [RcuActors -> RcuFrames] /\ Moves(Loader)
        /\ rcuPc'[Loader].at = "oops" /\ rcuPc'[Loader].pos = c
    BY <1>1, <1>6, RcuGone, LabelFacts
  <2>2. RcuTypes'
    BY <1>1, <1>2, <1>6, <2>1 DEF RcuTypes, RcuFrames
  <2>3. RcuPlaces'
    BY <1>1, <1>2, <1>6, <2>1, CellFacts DEF RcuPlaces, Moves
  <2>4. Quiet(Loader)
    BY <1>1, <1>2, <1>6, <2>1 DEF Quiet, Filling, Adds
  <2> QED
    BY <1>1, <2>2, <2>3, <2>4, QuietKeeps DEF Kept
<1> QED
  BY <1>4, <1>5, <1>6 DEF RcuDelete

(* kfree, and the entry that the loop read before.                          *)
LEMMA FreeKeeps ==
  ASSUME RcuIInv, RcuFree
  PROVE  Kept
<1> DEFINE c == rcuPc[Loader].pos
           nxt == rcuPc[Loader].nxt
<1>1. RcuTypes /\ RcuPlaces /\ Loader \in RcuActors /\ Loader \notin RcuThreads
      /\ c \in Spots /\ nxt \in RcuCells
  BY CellFacts DEF RcuIInv, RcuTypes
<1>2. /\ rcuPc[Loader].at = "free" /\ rcuModule = "exiting" /\ rcuLive' = rcuLive \ {c}
      /\ UNCHANGED <<rcuModule, rcuNext, rcuPrev, rcuEarly, rcuRaced>>
  BY <1>1 DEF RcuFree, RcuAt, rcuHistory, RcuPlaces, RcuTypes
<1>3. \/ Held(nxt) /\ RcuStep(Loader, "delete", nxt, rcuNext[nxt])
      \/ RcuGoto(Loader, "oops")
  BY DEF RcuFree
<1>4. ~Filling /\ ~Filling' /\ (~rcuEarly /\ ~rcuRaced => Emptying)
      /\ Linked' = Linked /\ \A d : Behind(d)' = Behind(d)
  BY <1>2, BehindIsFrom DEF RcuIInv, Filling, Linked
<1>5. /\ rcuPc' \in [RcuActors -> RcuFrames] /\ Moves(Loader)
      /\ \/ /\ rcuPc'[Loader].at = "delete" /\ rcuPc'[Loader].pos = nxt
            /\ rcuPc'[Loader].nxt = rcuNext[nxt]
         \/ rcuPc'[Loader].at = "oops"
  <2> HIDE DEF nxt
  <2>1. CASE Held(nxt) /\ RcuStep(Loader, "delete", nxt, rcuNext[nxt])
    <3>1. nxt \in Spots
      BY <1>1, <2>1, CellFacts DEF Held, RcuTypes
    <3>2. rcuNext[nxt] \in RcuCells
      BY <1>1, <3>1 DEF RcuTypes
    <3> QED
      BY <1>1, <2>1, <3>1, <3>2, RcuStepped, LabelFacts
  <2>2. CASE RcuGoto(Loader, "oops")
    BY <1>1, <2>2, RcuGone, LabelFacts
  <2> QED
    BY <1>3, <2>1, <2>2
<1>6. RcuTypes'
  BY <1>1, <1>2, <1>5 DEF RcuTypes, RcuFrames
<1>7. RcuPlaces'
  BY <1>1, <1>2, <1>5, CellFacts DEF RcuPlaces, Moves
<1>8. ASSUME Emptying PROVE Emptying'
  <2>1. /\ rcuLive \ {c} \subseteq Behind(nxt) /\ nxt \in {Mylist} \cup Linked
        /\ nxt # Mylist => rcuPrev[nxt] = Mylist
    BY <1>2, <1>8 DEF Emptying
  <2>2. \A t \in RcuThreads : rcuPc'[t].at \notin {"alloc", "add", "publish", "back"}
    BY <1>1, <1>5, <1>8, CellFacts DEF Emptying, Moves
  <2>3. \A n \in Linked : rcuNext[n] \in {Mylist} \cup Linked /\ n \notin Behind(rcuNext[n])
    BY <1>8 DEF Emptying
  <2>4. rcuModule' # "unloaded" /\ rcuPc'[Loader].at # "free"
    BY <1>2, <1>5
  <2> HIDE DEF c, nxt
  <2> QED
    BY <1>2, <1>4, <1>5, <2>1, <2>2, <2>3, <2>4 DEF Emptying
<1> QED
  BY <1>2, <1>4, <1>6, <1>7, <1>8 DEF Kept

LEMMA RcuStutters ==
  ASSUME RcuIInv, UNCHANGED rcuVars
  PROVE  RcuIInv'
<1>1. UNCHANGED <<rcuModule, rcuNext, rcuPrev, rcuLive, rcuPc, rcuEarly, rcuRaced>>
  BY DEF rcuVars, rcuList, rcuHistory
<1>2. Filling' = Filling /\ Linked' = Linked /\ \A c : Behind(c)' = Behind(c)
      /\ \A b : (Adds(b)' <=> Adds(b)) /\ (Carries(b)' <=> Carries(b))
  BY <1>1, BehindIsFrom DEF Filling, Linked, Adds, Carries
<1>3. RcuTypes' /\ RcuPlaces'
  BY <1>1 DEF RcuIInv, RcuTypes, RcuPlaces
<1>4. Chained /\ Standing => Chained' /\ Standing'
  BY <1>1, <1>2 DEF Chained, Standing
<1>5. Complete => Complete'
  BY <1>1, <1>2 DEF Complete
<1>6. Emptying => Emptying'
  BY <1>1, <1>2 DEF Emptying
<1> QED
  BY <1>1, <1>2, <1>3, <1>4, <1>5, <1>6 DEF RcuIInv

LEMMA RcuInitially == RcuInit => RcuIInv
<1> SUFFICES ASSUME RcuInit PROVE RcuIInv
  OBVIOUS
<1>1. /\ rcuModule = "adding" /\ rcuLive = {} /\ rcuEarly = FALSE /\ rcuRaced = FALSE
      /\ rcuNext = [c \in Spots |-> Null] /\ rcuPrev = [c \in Spots |-> Null]
      /\ rcuPc = [a \in RcuActors |->
                    IF a = Loader THEN [RcuIdle EXCEPT !.at = "init_list"] ELSE RcuIdle]
  BY DEF RcuInit, RcuStart, Spots
<1>2. rcuPc \in [RcuActors -> RcuFrames]
  <2>1. RcuIdle \in RcuFrames /\ [RcuIdle EXCEPT !.at = "init_list"] \in RcuFrames
    BY CellFacts DEF RcuIdle, RcuFrames, RcuLabels
  <2> QED
    BY <1>1, <2>1
<1>3. RcuTypes
  BY <1>1, <1>2, CellFacts DEF RcuTypes, RcuFrames
<1>4. /\ rcuPc[Loader].at = "init_list"
      /\ \A t \in RcuThreads : rcuPc[t].at = "idle" /\ rcuPc[t].pos = Mylist
      /\ \A a \in RcuActors : rcuPc[a].at \in {"idle", "init_list"}
  BY <1>1, CellFacts DEF RcuIdle
<1>5. RcuPlaces
  BY <1>1, <1>4 DEF RcuPlaces
<1>6. Linked = {} /\ rcuNext[Mylist] = Null /\ Filling
  BY <1>1, CellFacts DEF Linked, Filling
<1>7. Chained /\ Standing
  BY <1>1, <1>4, <1>6 DEF Chained, Standing, Adds
<1>8. Complete
  BY <1>1, <1>4, <1>6, CellFacts DEF Complete
<1> QED
  BY <1>3, <1>5, <1>6, <1>7, <1>8 DEF RcuIInv

LEMMA RcuInductive ==
  ASSUME RcuIInv, [RcuNextStep]_rcuVars
  PROVE  RcuIInv'
<1>1. ASSUME NEW t \in RcuThreads, RcuBegin(t) \/ RcuWalk(t) PROVE RcuIInv'
  BY <1>1, BeginKeeps, WalkKeeps, KeptIsKept
<1>2. ASSUME NEW a \in RcuActors, RcuAlloc(a) PROVE RcuIInv'
  <2>1. /\ rcuPc[a].at = "alloc" /\ rcuModule # "unloaded"
        /\ UNCHANGED <<rcuModule, rcuNext, rcuPrev, rcuEarly, rcuRaced>>
    BY <1>2 DEF RcuAlloc, RcuAt, rcuHistory
  <2>2. CASE RcuGoto(a, "oops") /\ UNCHANGED rcuLive
    BY <2>1, <2>2, OopsKeeps, KeptIsKept
  <2>3. CASE \E n \in Unused : rcuLive' = rcuLive \cup {n} /\ RcuStep(a, "add", n, Mylist)
    BY <2>1, <2>3, AllocKeeps, KeptIsKept
  <2> QED
    BY <1>2, <2>2, <2>3 DEF RcuAlloc
<1>3. ASSUME NEW a \in RcuActors, ListAddRcu(a) PROVE RcuIInv'
  BY <1>3, ListAddKeeps, KeptIsKept
<1>4. ASSUME RcuInitList \/ RcuFill PROVE RcuIInv'
  BY <1>4, InitListKeeps, FillKeeps, KeptIsKept
<1>5. ASSUME RcuExit \/ RcuDelete \/ RcuFree PROVE RcuIInv'
  BY <1>5, ExitKeeps, DeleteKeeps, FreeKeeps, KeptIsKept
<1> QED
  BY <1>1, <1>2, <1>3, <1>4, <1>5, RcuStutters DEF RcuNextStep

LEMMA RcuAlways == RcuSpec => []RcuIInv
<1>1. RcuInit => RcuIInv
  BY RcuInitially
<1>2. RcuIInv /\ [RcuNextStep]_rcuVars => RcuIInv'
  BY RcuInductive
<1> QED
  BY <1>1, <1>2, PTL DEF RcuSpec

(* IOCTL_READ and IOCTL_READ_RCU (simple_rcu.c) walk the list while writers *)
(* put entries in: until exit, and unless a call came before INIT_LIST_HEAD, *)
(* every walk leads through allocated entries to the head, whatever lock    *)
(* nobody took.                                                             *)
THEOREM ListWalkable == RcuSpec => []RcuWalkable
<1>1. RcuIInv => RcuWalkable
  <2> SUFFICES ASSUME RcuIInv, Filling, rcuPc[Loader].at # "init_list", ~rcuEarly,
                      NEW t \in RcuThreads, rcuPc[t].at = "walk"
               PROVE  LET first == rcuNext[rcuPc[t].pos]
                      IN  Mylist \in Behind(first) /\ \A c \in Behind(first) : Held(c)
    BY DEF RcuWalkable, Filling
  <2> DEFINE first == rcuNext[rcuPc[t].pos]
  <2>1. RcuTypes /\ Chained /\ Standing
    BY DEF RcuIInv
  <2>2. first \in {Mylist} \cup Linked
    BY <2>1 DEF Chained, Standing
  <2> HIDE DEF first
  <2>3. Mylist \in Behind(first)
    BY <2>1, <2>2, BehindIsFrom, FromHead DEF Chained
  <2>4. \A c \in Behind(first) : Held(c)
    <3> DEFINE S == {Mylist} \cup Linked
    <3>1. S \in SUBSET RcuCells /\ first \in S
      BY <2>2, CellFacts DEF Linked
    <3>2. ClosedIn(rcuNext, S)
      BY <2>1, CellFacts DEF ClosedIn, Chained, Linked
    <3>3. \A c \in S : Held(c)
      BY <2>1 DEF Chained, Held
    <3> HIDE DEF S
    <3> QED
      BY <3>1, <3>2, <3>3, FromLeast, BehindIsFrom
  <2> QED
    BY <2>3, <2>4 DEF first
<1> QED
  BY <1>1, RcuAlways, PTL

(* list_add_rcu with no lock against other writers (simple_rcu.c): an entry *)
(* that was put in is in the list, unless two insertions overlapped.        *)
THEOREM ListNoneLost == RcuSpec => []RcuNoneLost
<1>1. RcuIInv => RcuNoneLost
  BY DEF RcuIInv, RcuNoneLost, Complete, Filling
<1> QED
  BY <1>1, RcuAlways, PTL

(* exit (simple_rcu.c): no entry is left when it has ended, unless          *)
(* insertions overlapped, or one met exit, or a call came too early.        *)
THEOREM ListNoneLeaked == RcuSpec => []RcuNoneLeaked
<1>1. RcuIInv => RcuNoneLeaked
  BY DEF RcuIInv, RcuNoneLeaked, Emptying, Filling
<1> QED
  BY <1>1, RcuAlways, PTL
=============================================================================
