------------------------------ MODULE SimpleRcu ------------------------------
(***************************************************************************)
(* The kernel list of week8/simple_rcu.c: filled by init after the device  *)
(* is there, and emptied by exit while it still is.  One step makes one    *)
(* access to memory that another actor can write or read.                  *)
(*                                                                         *)
(* IOCTL_READ walks it under my_lock and IOCTL_READ_RCU under              *)
(* rcu_read_lock, but no writer takes the one or waits for the other: they *)
(* keep nobody out who changes the list, and both are the same walk here.  *)
(***************************************************************************)
EXTENDS Integers

CONSTANTS
  RcuReaders, RcuWriters, \* threads that call the ioctl
  RcuEntries,   \* how many list entries memory has
  RcuInitial,   \* entries that init puts in
  Loader        \* the thread that runs init and exit

ASSUME RcuAssumption ==
  /\ RcuInitial \in Nat /\ RcuEntries \in Nat /\ RcuInitial <= RcuEntries
  /\ Loader \notin RcuReaders \cup RcuWriters

Mylist == 0     \* the list head
Null == -1

VARIABLES
  rcuModule,    \* "absent", "adding", "loaded", "exiting", "unloaded"
  rcuNext, rcuPrev, \* the pointers of the head and of every entry
  rcuLive,      \* the entries that are allocated
  rcuPc,        \* rcuPc[a]: where actor a is, its pos, and the pointer it read
  rcuFilled,    \* entries that init has put in
  rcuEarly,     \* history: a write came before INIT_LIST_HEAD
  rcuRaced      \* history: two insertions overlapped, or one met exit

rcuHistory == <<rcuEarly, rcuRaced>>
rcuList == <<rcuNext, rcuPrev, rcuLive>>
rcuVars == <<rcuModule, rcuList, rcuPc, rcuFilled, rcuHistory>>

Entries == 1..RcuEntries
RcuThreads == RcuReaders \cup RcuWriters
RcuActors == RcuThreads \cup {Loader}
RcuIdle == [at |-> "idle", pos |-> Mylist, nxt |-> Mylist]

RcuStart(module) ==
  /\ rcuModule = module
  /\ rcuNext = [c \in {Mylist} \cup Entries |-> Null]
  /\ rcuPrev = [c \in {Mylist} \cup Entries |-> Null]
  /\ rcuLive = {}
  /\ rcuPc = [a \in RcuActors |->
                IF a = Loader THEN [RcuIdle EXCEPT !.at = "init_list"] ELSE RcuIdle]
  /\ rcuFilled = 0
  /\ rcuEarly = FALSE /\ rcuRaced = FALSE

RcuInit == RcuStart("adding")

-----------------------------------------------------------------------------
(* A bound: a behaviour ends with the first oops.                           *)
RcuAt(a, label) == /\ rcuModule \notin {"absent", "unloaded"}
                   /\ \A b \in RcuActors : rcuPc[b].at # "oops"
                   /\ rcuPc[a].at = label
RcuGoto(a, label) == rcuPc' = [rcuPc EXCEPT ![a].at = label]
RcuStep(a, label, pos, nxt) ==
  rcuPc' = [rcuPc EXCEPT ![a] = [at |-> label, pos |-> pos, nxt |-> nxt]]

Held(c) == c = Mylist \/ c \in rcuLive

(* The actors that have read the head's next and not replaced it yet.       *)
Inserting == {a \in RcuActors : rcuPc[a].at = "publish"}
Writing == {t \in RcuThreads : rcuPc[t].at \in {"alloc", "add", "publish", "back"}}

(* IOCTL_READ, IOCTL_READ_RCU and IOCTL_WRITE.                              *)
RcuBegin(t) ==
  /\ RcuAt(t, "idle")
  /\ RcuGoto(t, IF t \in RcuReaders THEN "walk" ELSE "alloc")
  /\ rcuRaced' = (rcuRaced \/ (rcuModule = "exiting" /\ rcuPc'[t].at = "alloc"))
  /\ UNCHANGED <<rcuModule, rcuList, rcuFilled, rcuEarly>>

(* The walk, which prints each entry's id, and the end of the read section. *)
(* NULL or a freed entry under it is an oops.                               *)
RcuWalk(t) ==
  /\ RcuAt(t, "walk")
  /\ LET c == rcuNext[rcuPc[t].pos]
     IN  \/ c = Mylist /\ rcuPc' = [rcuPc EXCEPT ![t] = RcuIdle]
         \/ c # Mylist /\ Held(c) /\ RcuStep(t, "walk", c, Mylist)
         \/ ~Held(c) /\ RcuGoto(t, "oops")
  /\ UNCHANGED <<rcuModule, rcuList, rcuFilled, rcuHistory>>

(* A bound: an entry that exit has freed is not allocated again.            *)
Unused == {n \in Entries \ rcuLive : rcuNext[n] = Null}

(* kmalloc, and the write of the id, which follows NULL when it failed.     *)
RcuAlloc(a) ==
  /\ RcuAt(a, "alloc")
  /\ \/ /\ RcuGoto(a, "oops") /\ UNCHANGED rcuLive
     \/ \E n \in Unused :
          /\ \A m \in Unused : n <= m
          /\ rcuLive' = rcuLive \cup {n}
          /\ RcuStep(a, "add", n, Mylist)
  /\ UNCHANGED <<rcuModule, rcuNext, rcuPrev, rcuFilled, rcuHistory>>

(* A mutant of ListAddRcu: the entry is in the list before it points on.    *)
PublishFirst(a) ==
  /\ LET new == rcuPc[a].pos
         nxt == rcuPc[a].nxt
     IN  \/ /\ RcuAt(a, "add")
            /\ RcuStep(a, "publish", new, rcuNext[Mylist])
            /\ rcuNext' = [rcuNext EXCEPT ![Mylist] = new]
         \/ /\ RcuAt(a, "publish")
            /\ IF a = Loader THEN RcuGoto(a, "fill")
               ELSE rcuPc' = [rcuPc EXCEPT ![a] = RcuIdle]
            /\ rcuNext' = [rcuNext EXCEPT ![new] = nxt]
  /\ UNCHANGED <<rcuModule, rcuPrev, rcuLive, rcuFilled, rcuHistory>>

(* list_add_rcu behind the head: the new entry's pointers, the head's, and  *)
(* the old first entry's.                                                   *)
ListAddRcu(a) ==
  /\ LET new == rcuPc[a].pos
         nxt == rcuPc[a].nxt
     IN  \/ /\ RcuAt(a, "add")
            /\ RcuStep(a, "publish", new, rcuNext[Mylist])
            /\ rcuNext' = [rcuNext EXCEPT ![new] = rcuNext[Mylist]]
            /\ rcuPrev' = [rcuPrev EXCEPT ![new] = Mylist]
            /\ rcuEarly' = (rcuEarly \/ rcuNext[Mylist] = Null)
            /\ UNCHANGED rcuRaced
         \/ /\ RcuAt(a, "publish")
            /\ RcuGoto(a, "back")
            /\ rcuNext' = [rcuNext EXCEPT ![Mylist] = new]
            /\ rcuRaced' = (rcuRaced \/ Inserting # {a})
            /\ UNCHANGED <<rcuPrev, rcuEarly>>
         \/ /\ RcuAt(a, "back") /\ Held(nxt)
            /\ rcuPrev' = [rcuPrev EXCEPT ![nxt] = new]
            /\ IF a = Loader THEN RcuGoto(a, "fill")
               ELSE rcuPc' = [rcuPc EXCEPT ![a] = RcuIdle]
            /\ UNCHANGED <<rcuNext, rcuHistory>>
         \/ /\ RcuAt(a, "back") /\ ~Held(nxt)
            /\ RcuGoto(a, "oops")
            /\ UNCHANGED <<rcuNext, rcuPrev, rcuHistory>>
  /\ UNCHANGED <<rcuModule, rcuLive, rcuFilled>>

(* init: INIT_LIST_HEAD, which forgets what was in the list.                *)
RcuInitList ==
  /\ RcuAt(Loader, "init_list") /\ RcuGoto(Loader, "fill")
  /\ rcuNext' = [rcuNext EXCEPT ![Mylist] = Mylist]
  /\ rcuPrev' = [rcuPrev EXCEPT ![Mylist] = Mylist]
  /\ UNCHANGED <<rcuModule, rcuLive, rcuFilled, rcuHistory>>

(* A mutant of MoreToFill: one entry too many.                              *)
OneMoreToFill == rcuFilled <= RcuInitial
MoreToFill == rcuFilled < RcuInitial

(* A mutant of RcuFill: the head is initialised in the loop.                *)
FillFromHead ==
  /\ RcuAt(Loader, "fill")
  /\ IF MoreToFill
     THEN /\ RcuStep(Loader, "alloc", Mylist, Mylist)
          /\ rcuFilled' = rcuFilled + 1 /\ UNCHANGED rcuModule
          /\ rcuNext' = [rcuNext EXCEPT ![Mylist] = Mylist]
     ELSE /\ rcuPc' = [rcuPc EXCEPT ![Loader] = RcuIdle]
          /\ rcuModule' = "loaded" /\ UNCHANGED <<rcuFilled, rcuNext>>
  /\ UNCHANGED <<rcuPrev, rcuLive, rcuHistory>>

(* The loop of init that puts the first entries in, as a write does.        *)
RcuFill ==
  /\ RcuAt(Loader, "fill")
  /\ IF MoreToFill
     THEN /\ RcuStep(Loader, "alloc", Mylist, Mylist)
          /\ rcuFilled' = rcuFilled + 1 /\ UNCHANGED rcuModule
     ELSE /\ rcuPc' = [rcuPc EXCEPT ![Loader] = RcuIdle]
          /\ rcuModule' = "loaded" /\ UNCHANGED rcuFilled
  /\ UNCHANGED <<rcuList, rcuHistory>>

(* exit: the first entry of its loop, and the one behind it.                *)
RcuExit ==
  /\ rcuModule = "loaded" /\ RcuAt(Loader, "idle")
  /\ rcuModule' = "exiting"
  /\ LET first == rcuNext[Mylist]
     IN  IF Held(first) THEN RcuStep(Loader, "delete", first, rcuNext[first])
                        ELSE RcuGoto(Loader, "oops")
  /\ rcuRaced' = (rcuRaced \/ Writing # {})
  /\ UNCHANGED <<rcuList, rcuFilled, rcuEarly>>

(* list_del_rcu of an entry, while readers may stand on it; behind the last *)
(* one cdev_del ends the device.                                            *)
RcuDelete ==
  /\ RcuAt(Loader, "delete")
  /\ LET c == rcuPc[Loader].pos
     IN  IF c = Mylist
         THEN /\ rcuModule' = "unloaded" /\ UNCHANGED <<rcuPc, rcuNext, rcuPrev>>
         ELSE /\ IF Held(rcuPrev[c]) /\ Held(rcuNext[c])
                 THEN /\ rcuNext' = [rcuNext EXCEPT ![rcuPrev[c]] = rcuNext[c]]
                      /\ rcuPrev' = [rcuPrev EXCEPT ![rcuNext[c]] = rcuPrev[c], ![c] = Null]
                      /\ RcuGoto(Loader, "free")
                 ELSE RcuGoto(Loader, "oops") /\ UNCHANGED <<rcuNext, rcuPrev>>
              /\ UNCHANGED rcuModule
  /\ UNCHANGED <<rcuLive, rcuFilled, rcuHistory>>

(* A mutant of RcuFree: the loop only unlinks.                              *)
FreeNothing ==
  /\ RcuAt(Loader, "free")
  /\ LET nxt == rcuPc[Loader].nxt
     IN  RcuStep(Loader, "delete", nxt, rcuNext[nxt])
  /\ UNCHANGED <<rcuModule, rcuList, rcuFilled, rcuHistory>>

(* kfree with no grace period, and the next of the loop.                    *)
RcuFree ==
  /\ RcuAt(Loader, "free")
  /\ rcuLive' = rcuLive \ {rcuPc[Loader].pos}
  /\ LET nxt == rcuPc[Loader].nxt
     IN  IF Held(nxt) THEN RcuStep(Loader, "delete", nxt, rcuNext[nxt])
                      ELSE RcuGoto(Loader, "oops")
  /\ UNCHANGED <<rcuModule, rcuNext, rcuPrev, rcuFilled, rcuHistory>>

RcuNextStep ==
  \/ \E t \in RcuThreads : RcuBegin(t) \/ RcuWalk(t)
  \/ \E a \in RcuActors : RcuAlloc(a) \/ ListAddRcu(a)
  \/ RcuInitList \/ RcuFill \/ RcuExit \/ RcuDelete \/ RcuFree

RcuSpec == RcuInit /\ [][RcuNextStep]_rcuVars

-----------------------------------------------------------------------------
RcuTypeOK ==
  /\ rcuModule \in {"absent", "adding", "loaded", "exiting", "unloaded"}
  /\ rcuNext \in [{Mylist} \cup Entries -> {Null, Mylist} \cup Entries]
  /\ rcuPrev \in [{Mylist} \cup Entries -> {Null, Mylist} \cup Entries]
  /\ rcuLive \subseteq Entries
  /\ rcuFilled \in 0..RcuInitial

(* The cells that next leads to from c, up to the head or the first NULL.   *)
RcuCells == {Null, Mylist} \cup Entries
Closed(S) == \A x \in S \cap Entries : rcuNext[x] \in S
Behind(c) == {x \in RcuCells : \A S \in SUBSET RcuCells : c \in S /\ Closed(S) => x \in S}

(* Before exit and unless a call came before INIT_LIST_HEAD, every walk     *)
(* stands on an entry that leads through allocated entries to the head:     *)
(* readers and writers need no lock against each other.                     *)
RcuWalkable ==
  rcuModule \in {"adding", "loaded"} /\ rcuPc[Loader].at # "init_list" /\ ~rcuEarly =>
    \A t \in RcuThreads :
      rcuPc[t].at = "walk" =>
        LET first == rcuNext[rcuPc[t].pos]
        IN  /\ Mylist \in Behind(first)
            /\ \A c \in Behind(first) : Held(c)

(* Writers do need one against each other: an entry that was put in can     *)
(* only be missing from the list if two insertions overlapped.              *)
RcuNoneLost ==
  rcuModule \in {"adding", "loaded"} /\ ~rcuEarly /\ ~rcuRaced =>
    \A n \in rcuLive : \/ n \in Behind(rcuNext[Mylist])
                       \/ \E a \in RcuActors : rcuPc[a].pos = n /\
                            rcuPc[a].at \in {"add", "publish", "oops"}

(* After exit no entry is left, unless insertions overlapped, or one met    *)
(* exit, or a call came too early.                                          *)
RcuNoneLeaked == rcuModule = "unloaded" /\ ~rcuEarly /\ ~rcuRaced => rcuLive = {}
=============================================================================
