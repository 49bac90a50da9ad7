----------------------------- MODULE KuPirLists -----------------------------
(***************************************************************************)
(* Theorems about the lists of the motion-sensor driver, and the order in  *)
(* which entries are read, for one descriptor that the handler alone fills:*)
(* any number of threads open, read, flush and close it, with no lock, and *)
(* rmmod may free it at any time.                                          *)
(***************************************************************************)
EXTENDS KuPirProofs, Induction

(* With more descriptors one node is in several lists (see pir_shared_node).*)
(* With writers, a producer may append to a last cell that has been freed   *)
(* since it read it (see MCTwoProducers.cfg).                               *)
OneProducer ==
  /\ KUPIR_MAX_DEV = 1
  /\ \A p \in Procs : <<p, "write">> \notin Programs

(***************************************************************************)
(* The inductive invariant.  A holder is an actor with a pointer to an     *)
(* entry that it takes off the list, or copies from.                       *)
(***************************************************************************)
Holding(a) == /\ pc[a].at \in {"copy", "walk", "unlink", "free"}
              /\ pc[a].pos # 0 \/ pc[a].q # 0

Exclusive == \A a, b \in Actors : Holding(a) /\ Holding(b) => a = b

(* next leads from live cells to live cells, from no two to the same entry, *)
(* and free nodes point to themselves.                                      *)
Closed == \A c \in Live : next[c] \in Live
Single == \A c, d \in Live : next[c] = next[d] /\ next[c] \in Nodes => c = d
Unlinked == \A n \in Nodes \ allocated : next[n] = n
Linked == Closed /\ Single /\ Unlinked

(* prev leads back, but for an entry that is half taken out.                *)
Bypassed(a, d) == pc[a].at = "free" /\ pc[a].pos = d /\ pc[a].nxt = next[d]

Back == \A d \in Live :
          next[d] \in Nodes /\ next[d] # d
            => prev[next[d]] = d \/ \E a \in Actors : Bypassed(a, d)

(* The handler has a node that is not in the list yet: nobody points to it. *)
Bringing == pc[Isr].at \in {"fd", "walk", "unlink", "free", "dec", "dec2", "add", "add2"}

Apart(a, x) == /\ pc[a].pos # x
               /\ ~DropsOne(a) => pc[a].q # x
               /\ pc[a].at = "free" => pc[a].nxt # x

Fresh(x) == /\ x \in allocated
            /\ \A c \in Live \ {x} : next[c] # x
            /\ \A a \in Actors : Holding(a) => Apart(a, x)

Brought ==
  Bringing => /\ Fresh(pc[Isr].item)
              /\ pc[Isr].at = "add2" => /\ next[pc[Isr].item] = 1
                                        /\ prev[pc[Isr].item] = pc[Isr].prv

(* What a holder holds is the first entry, or was before an INIT_LIST_HEAD. *)
FirstEntry(x) == x \in allocated /\ prev[x] = 1 /\ next[x] # x
OnlyFrom(c, x) == \A d \in Live : next[d] = x => d = c

HolderOK(a) ==
  /\ pc[a].at = "copy" /\ pc[a].pos \in Nodes => pc[a].pos \in allocated
  /\ pc[a].at = "walk" /\ pc[a].q \in Nodes => FirstEntry(pc[a].q) /\ OnlyFrom(1, pc[a].q)
  /\ pc[a].at = "unlink" =>
       /\ FirstEntry(pc[a].pos)
       /\ ~DropsOne(a) /\ pc[a].q \in Nodes => next[pc[a].pos] = pc[a].q
  /\ pc[a].at = "free" =>
       /\ FirstEntry(pc[a].pos) /\ pc[a].prv = 1
       /\ pc[a].nxt \in Nodes => /\ FirstEntry(pc[a].nxt) /\ pc[a].nxt # pc[a].pos
                                 /\ OnlyFrom(pc[a].pos, pc[a].nxt)
       /\ ~DropsOne(a) /\ pc[a].q \in Nodes => pc[a].nxt = pc[a].q

Handed(a) ==
  /\ pc[a].at \notin {"idle", "dead", "copy", "unlink", "free"} => pc[a].pos = 0
  /\ pc[a].at \notin {"idle", "dead", "walk", "unlink", "free"} => pc[a].q = 0
  /\ pc[a].at = "walk" /\ DropsOne(a) => pc[a].q = 0

Held == \A a \in Actors : Handed(a) /\ (Holding(a) => HolderOK(a))

(* Where the handler appends is the end of a list.                          *)
AtEnd(w) == w \in allocated => next[w] \in {1, w}

Tails == /\ pc[Isr].at # "add3" => AtEnd(prev[1])
         /\ pc[Isr].at = "add2" => AtEnd(pc[Isr].prv)
         /\ pc[Isr].at = "add3" => AtEnd(pc[Isr].item)

Chain == Exclusive /\ Back /\ Brought /\ Held /\ Tails

Lists == Linked /\ Chain

ListInv == ~contended => Linked /\ (Running => Chain)

(***************************************************************************)
(* The cells.                                                              *)
(***************************************************************************)
LEMMA OneHead ==
  ASSUME TypeOK, OneProducer
  PROVE  /\ Fds = {1} /\ Cells = {1} \cup Nodes /\ Live = {1} \cup allocated
         /\ allocated \subseteq Nodes
         /\ 1 \notin Nodes /\ 0 \notin Nodes /\ Poison \notin Nodes
         /\ 0 # 1 /\ Poison # 1 /\ Poison # 0
         /\ next \in [Cells -> Cells] /\ prev \in [Cells -> Cells \cup {Poison}]
BY KuPirAssumption DEF OneProducer, Fds, Cells, Live, TypeOK, Poison

(* A step that changes no list, and lets an actor put down what it holds.   *)
PutsDown(b) == /\ ~Holding(b)' /\ pc[b].at # "free" /\ Handed(b)'

Rests ==
  /\ UNCHANGED <<next, prev, allocated>>
  /\ \A b \in Actors : pc'[b] = pc[b] \/ PutsDown(b)
  /\ pc'[Isr] # pc[Isr] => /\ pc[Isr].at \notin {"add2", "add3"}
                           /\ pc'[Isr].at \notin {"add2", "add3"}
                           /\ Bringing' => Bringing /\ pc'[Isr].item = pc[Isr].item

(* A step that changes no link, and lets actors only put entries down,      *)
(* keeps the lists.                                                         *)
LEMMA RestsKeepLists ==
  ASSUME TypeOK, Lists, Rests
  PROVE  Lists'
<1>1. Live' = Live
  BY DEF Rests, Live
<1>2. Linked'
  BY <1>1 DEF Rests, Lists, Linked, Closed, Single, Unlinked
<1>3. \A b \in Actors : Holding(b)' => Holding(b) /\ pc'[b] = pc[b]
  BY DEF Rests, PutsDown, Holding
<1>4. Exclusive'
  BY <1>3 DEF Lists, Chain, Exclusive
<1>5. Back'
  BY <1>1 DEF Lists, Chain, Back, Bypassed, Rests, PutsDown
<1>6. Held'
  <2> SUFFICES ASSUME NEW b \in Actors PROVE Handed(b)' /\ (Holding(b)' => HolderOK(b)')
    BY DEF Held
  <2>1. Handed(b)'
    BY DEF Lists, Chain, Held, Rests, PutsDown, Handed, DropsOne
  <2>2. Holding(b)' => HolderOK(b)'
    BY <1>1, <1>3 DEF Lists, Chain, Held, Rests, HolderOK, FirstEntry, OnlyFrom, DropsOne
  <2> QED
    BY <2>1, <2>2
<1>7. \A x : Fresh(x) => Fresh(x)'
  BY <1>1, <1>3 DEF Fresh, Apart, DropsOne, Rests
<1>8. Brought'
  <2>1. Bringing' => Bringing /\ pc'[Isr].item = pc[Isr].item
    BY DEF Rests, Bringing
  <2>2. pc'[Isr].at = "add2" => pc'[Isr] = pc[Isr]
    BY DEF Rests
  <2> QED
    BY <1>7, <2>1, <2>2 DEF Lists, Chain, Brought, Rests
<1>9. Tails'
  BY DEF Lists, Chain, Tails, AtEnd, Rests
<1> QED
  BY <1>2, <1>4, <1>5, <1>6, <1>8, <1>9 DEF Lists, Chain

(***************************************************************************)
(* The handler adds an entry: list_add_tail_rcu, step by step.             *)
(***************************************************************************)
HandlerGoes(from, to) ==
  /\ pc[Isr].at = from /\ pc'[Isr].at = to
  /\ pc'[Isr].item = pc[Isr].item
  /\ \A b \in Actors \ {Isr} : pc'[b] = pc[b]
  /\ Handed(Isr)'

Adds == {"add", "add2", "add3", "inc"}

(* What the handler does while it adds concerns no holder's frame.          *)
LEMMA AddsHoldNothing ==
  ASSUME NEW from \in Adds, NEW to \in Adds, HandlerGoes(from, to), Lists
  PROVE  /\ \A b \in Actors : Holding(b) => b # Isr
         /\ \A b \in Actors : Holding(b)' <=> Holding(b)
         /\ \A b \in Actors : Holding(b) => pc'[b] = pc[b]
         /\ \A b \in Actors : Handed(b)'
         /\ Exclusive'
<1>1. ~Holding(Isr) /\ ~Holding(Isr)'
  BY DEF HandlerGoes, Holding, Adds
<1>2. \A b \in Actors : Holding(b)' <=> Holding(b)
  BY <1>1 DEF HandlerGoes, Holding
<1>3. \A b \in Actors : Holding(b) => pc'[b] = pc[b]
  BY <1>1 DEF HandlerGoes
<1>4. \A b \in Actors : Handed(b)'
  BY DEF HandlerGoes, Handed, DropsOne, Lists, Chain, Held
<1>5. Exclusive'
  BY <1>2 DEF Lists, Chain, Exclusive
<1> QED
  BY <1>1, <1>2, <1>3, <1>4, <1>5

(* A holder of other entries stays one, if next and prev change at x only,  *)
(* or next at the end of a list, to lead to x.                              *)
LEMMA HolderKept ==
  ASSUME TypeOK, OneProducer, Lists, NEW x \in Nodes, NEW w, w # x => AtEnd(w),
         NEW a \in Actors, Holding(a), Apart(a, x), pc'[a] = pc[a],
         UNCHANGED allocated,
         \A c \in Nodes \ {x} : prev'[c] = prev[c],
         \A c \in Live \ {x, w} : next'[c] = next[c],
         w # x => next'[w] = x, next'[x] \in {1, x},
         pc[a].at \in {"unlink", "free"} => pc[a].pos \in Nodes
  PROVE  HolderOK(a)'
<1>1. /\ Live' = Live /\ Live = {1} \cup allocated /\ allocated \subseteq Nodes /\ 1 \notin Nodes
      /\ DropsOne(a)' = DropsOne(a)
  BY OneHead DEF Live, DropsOne
<1>2. HolderOK(a) /\ Handed(a)
  BY DEF Lists, Chain, Held
<1>3. ASSUME NEW z, z # x, FirstEntry(z) PROVE FirstEntry(z)'
  <2>1. z \in allocated /\ z \in Live /\ z \in Nodes /\ next[z] # z
    BY <1>1, <1>3 DEF FirstEntry
  <2>2. next'[z] # z
    BY <1>3, <2>1
  <2> QED
    BY <1>3, <2>1, <2>2 DEF FirstEntry
<1>4. ASSUME NEW c, NEW z \in Nodes, z # x, OnlyFrom(c, z) PROVE OnlyFrom(c, z)'
  BY <1>1, <1>4 DEF OnlyFrom
<1>5. CASE pc[a].at = "copy"
  BY <1>2, <1>5 DEF HolderOK
<1>6. CASE pc[a].at = "walk"
  <2>1. ~DropsOne(a) /\ pc[a].q # x
    <3>1. pc[a].q # 0
      BY <1>2, <1>6 DEF Holding, Handed
    <3> QED
      BY <1>2, <1>6, <3>1 DEF Handed, Apart
  <2> QED
    BY <1>2, <1>3, <1>4, <1>6, <2>1 DEF HolderOK
<1>7. CASE pc[a].at = "unlink"
  <2>1. FirstEntry(pc[a].pos) /\ pc[a].pos # x
    BY <1>2, <1>7 DEF HolderOK, Apart
  <2>2. ASSUME ~DropsOne(a), pc[a].q \in Nodes PROVE next'[pc[a].pos] = pc[a].q
    <3>1. next[pc[a].pos] = pc[a].q
      BY <1>2, <1>7, <2>2 DEF HolderOK
    <3>2. pc[a].pos # w
      BY <1>1, <2>1, <2>2, <3>1 DEF AtEnd, FirstEntry
    <3> QED
      BY <1>1, <2>1, <3>1, <3>2 DEF FirstEntry
  <2> QED
    BY <1>1, <1>3, <1>7, <2>1, <2>2 DEF HolderOK
<1>8. CASE pc[a].at = "free"
  <2>1. pc[a].pos # x /\ pc[a].nxt # x
    BY <1>8 DEF Apart
  <2> QED
    BY <1>1, <1>2, <1>3, <1>4, <1>8, <2>1 DEF HolderOK
<1> QED
  BY <1>5, <1>6, <1>7, <1>8 DEF Holding

(* The new node's own pointers.                                             *)
LEMMA AddOwn ==
  ASSUME TypeOK, OneProducer, HeadWhole, Lists, HandlerGoes("add", "add2"),
         NEW x \in Nodes, x = pc[Isr].item, pc'[Isr].prv = prev[1],
         next' = [next EXCEPT ![x] = 1], prev' = [prev EXCEPT ![x] = prev[1]],
         UNCHANGED allocated
  PROVE  Lists'
<1>1. /\ Live' = Live /\ Live = {1} \cup allocated /\ allocated \subseteq Nodes /\ 1 \notin Nodes
      /\ next \in [Cells -> Cells] /\ prev \in [Cells -> Cells \cup {Poison}]
      /\ Cells = {1} \cup Nodes
  BY OneHead DEF Live
<1>2. /\ \A b \in Actors : Holding(b) => b # Isr
      /\ \A b \in Actors : Holding(b)' <=> Holding(b)
      /\ \A b \in Actors : Holding(b) => pc'[b] = pc[b]
      /\ \A b \in Actors : Handed(b)'
      /\ Exclusive'
  BY AddsHoldNothing DEF Adds
<1>3. pc[Isr].at = "add" /\ pc'[Isr].at = "add2" /\ pc'[Isr].item = x
  BY DEF HandlerGoes
<1>4. Fresh(x)
  BY <1>3 DEF Lists, Chain, Brought, Bringing
<1>5. /\ next'[x] = 1 /\ prev'[x] = prev[1]
      /\ \A c \in Cells \ {x} : next'[c] = next[c] /\ prev'[c] = prev[c]
  BY <1>1
<1>6. \A c \in Live : c \in Cells
  BY <1>1
<1>7. Linked'
  <2>1. Closed'
    BY <1>1, <1>5, <1>6 DEF Lists, Linked, Closed
  <2>2. Single'
    BY <1>1, <1>5, <1>6 DEF Lists, Linked, Single
  <2>3. Unlinked'
    BY <1>1, <1>4, <1>5 DEF Lists, Linked, Unlinked, Fresh
  <2> QED
    BY <2>1, <2>2, <2>3 DEF Linked
<1>8. Back'
  <2> SUFFICES ASSUME NEW d \in Live, next'[d] \in Nodes, next'[d] # d
               PROVE  prev'[next'[d]] = d \/ \E a \in Actors : Bypassed(a, d)'
    BY <1>1 DEF Back
  <2>1. d # x /\ next'[d] = next[d]
    BY <1>1, <1>5, <1>6
  <2>2. next[d] # x
    BY <1>4, <2>1 DEF Fresh
  <2>3. prev'[next[d]] = prev[next[d]]
    BY <1>1, <1>5, <2>1, <2>2
  <2>4. ASSUME NEW a \in Actors, Bypassed(a, d) PROVE Bypassed(a, d)'
    <3>1. a # Isr
      BY <1>3, <2>4 DEF Bypassed
    <3> QED
      BY <2>1, <2>4, <3>1 DEF Bypassed, HandlerGoes
  <2> QED
    BY <2>1, <2>3, <2>4 DEF Lists, Chain, Back
<1>9. Held'
  <2> SUFFICES ASSUME NEW a \in Actors, Holding(a) PROVE HolderOK(a)'
    BY <1>2 DEF Held
  <2>1. Apart(a, x) /\ pc'[a] = pc[a]
    BY <1>2, <1>4 DEF Fresh
  <2>2. pc[a].at \in {"unlink", "free"} => pc[a].pos \in Nodes
    BY DEF HeadWhole, OneProducer
  <2>3. /\ \A c \in Nodes \ {x} : prev'[c] = prev[c]
        /\ \A c \in Live \ {x, x} : next'[c] = next[c]
        /\ next'[x] \in {1, x}
    BY <1>1, <1>5
  <2> QED
    BY <2>1, <2>2, <2>3, HolderKept
<1>10. Brought'
  <2>1. Fresh(x)'
    <3>1. \A a \in Actors : Holding(a)' => Apart(a, x)'
      BY <1>2, <1>4 DEF Fresh, Apart, DropsOne
    <3>2. \A c \in Live \ {x} : next'[c] # x
      BY <1>4, <1>5, <1>6 DEF Fresh
    <3> QED
      BY <1>1, <1>4, <3>1, <3>2 DEF Fresh
  <2> QED
    BY <1>3, <1>5, <2>1 DEF Brought
<1>11. Tails'
  <2>1. AtEnd(prev[1])
    BY <1>3 DEF Lists, Chain, Tails
  <2>2. prev'[1] = prev[1]
    BY <1>1, <1>5
  <2>3. prev[1] \in allocated => next'[prev[1]] \in {1, prev[1]}
    BY <1>1, <1>5, <2>1 DEF AtEnd
  <2> QED
    BY <1>3, <2>2, <2>3 DEF Tails, AtEnd
<1> QED
  BY <1>2, <1>7, <1>8, <1>9, <1>10, <1>11 DEF Lists, Chain

(* next of the last cell, unless that has been freed.                       *)
LEMMA AddLast ==
  ASSUME TypeOK, OneProducer, HeadWhole, Lists, HandlerGoes("add2", "add3"),
         NEW x \in Nodes, x = pc[Isr].item, NEW w, w = pc[Isr].prv,
         next' = IF w \in Live THEN [next EXCEPT ![w] = x] ELSE next,
         UNCHANGED <<prev, allocated>>
  PROVE  Lists'
<1>1. /\ Live' = Live /\ Live = {1} \cup allocated /\ allocated \subseteq Nodes /\ 1 \notin Nodes
      /\ next \in [Cells -> Cells] /\ prev \in [Cells -> Cells \cup {Poison}]
      /\ Cells = {1} \cup Nodes
  BY OneHead DEF Live
<1>2. /\ \A b \in Actors : Holding(b) => b # Isr
      /\ \A b \in Actors : Holding(b)' <=> Holding(b)
      /\ \A b \in Actors : Holding(b) => pc'[b] = pc[b]
      /\ \A b \in Actors : Handed(b)'
      /\ Exclusive'
  BY AddsHoldNothing DEF Adds
<1>3. pc[Isr].at = "add2" /\ pc'[Isr].at = "add3" /\ pc'[Isr].item = x
  BY DEF HandlerGoes
<1>4. Fresh(x) /\ next[x] = 1 /\ prev[x] = w
  BY <1>3 DEF Lists, Chain, Brought, Bringing
<1>5. AtEnd(w)
  BY <1>3 DEF Lists, Chain, Tails
<1>6. /\ \A c \in Cells \ {w} : next'[c] = next[c]
      /\ w \in Live => next'[w] = x
      /\ w \notin Live => next' = next
  BY <1>1
<1>7. x \in allocated /\ x \in Live /\ \A c \in Live : c \in Cells
  BY <1>1, <1>4 DEF Fresh
<1>8. Linked'
  <2>1. Closed'
    BY <1>1, <1>6, <1>7 DEF Lists, Linked, Closed
  <2>2. \A c \in Live : next[c] # x
    BY <1>1, <1>4 DEF Fresh
  <2>3. Single'
    BY <1>1, <1>6, <1>7, <2>2 DEF Lists, Linked, Single
  <2>4. Unlinked'
    BY <1>1, <1>6 DEF Lists, Linked, Unlinked
  <2> QED
    BY <2>1, <2>3, <2>4 DEF Linked
<1>9. Back'
  <2> SUFFICES ASSUME NEW d \in Live, next'[d] \in Nodes, next'[d] # d
               PROVE  prev[next'[d]] = d \/ \E a \in Actors : Bypassed(a, d)'
    BY <1>1 DEF Back
  <2>1. CASE d = w
    BY <1>4, <1>6, <2>1
  <2>2. CASE d # w
    <3>1. next'[d] = next[d]
      BY <1>6, <1>7, <2>2
    <3>2. ASSUME NEW a \in Actors, Bypassed(a, d) PROVE Bypassed(a, d)'
      <4>1. a # Isr
        BY <1>3, <3>2 DEF Bypassed
      <4> QED
        BY <3>1, <3>2, <4>1 DEF Bypassed, HandlerGoes
    <3> QED
      BY <3>1, <3>2 DEF Lists, Chain, Back
  <2> QED
    BY <2>1, <2>2
<1>10. Held'
  <2> SUFFICES ASSUME NEW a \in Actors, Holding(a) PROVE HolderOK(a)'
    BY <1>2 DEF Held
  <2>1. Apart(a, x) /\ pc'[a] = pc[a]
    BY <1>2, <1>4 DEF Fresh
  <2>2. pc[a].at \in {"unlink", "free"} => pc[a].pos \in Nodes
    BY DEF HeadWhole, OneProducer
  <2>3. CASE w \in Live
    <3>1. /\ \A c \in Live \ {x, w} : next'[c] = next[c]
          /\ next'[w] = x /\ next'[x] \in {1, x}
      BY <1>1, <1>4, <1>6, <1>7, <2>3
    <3> QED
      BY <1>5, <2>1, <2>2, <3>1, HolderKept
  <2>4. CASE w \notin Live
    <3>1. /\ \A c \in Live \ {x, x} : next'[c] = next[c]
          /\ next'[x] \in {1, x}
      BY <1>4, <1>6, <2>4
    <3> QED
      BY <2>1, <2>2, <3>1, HolderKept
  <2> QED
    BY <2>3, <2>4
<1>11. Brought'
  BY <1>3 DEF Brought, Bringing
<1>12. Tails'
  <2>1. next'[x] \in {1, x}
    BY <1>1, <1>4, <1>6
  <2> QED
    BY <1>3, <2>1 DEF Tails, AtEnd
<1> QED
  BY <1>2, <1>8, <1>9, <1>10, <1>11, <1>12 DEF Lists, Chain

(* prev of the head.                                                        *)
LEMMA AddHead ==
  ASSUME TypeOK, OneProducer, HeadWhole, Lists, HandlerGoes("add3", "inc"),
         NEW x \in Nodes, x = pc[Isr].item,
         prev' = [prev EXCEPT ![1] = x], UNCHANGED <<next, allocated>>
  PROVE  Lists'
<1>1. /\ Live' = Live /\ Live = {1} \cup allocated /\ allocated \subseteq Nodes /\ 1 \notin Nodes
      /\ next \in [Cells -> Cells] /\ prev \in [Cells -> Cells \cup {Poison}]
      /\ Cells = {1} \cup Nodes
  BY OneHead DEF Live
<1>2. /\ \A b \in Actors : Holding(b) => b # Isr
      /\ \A b \in Actors : Holding(b)' <=> Holding(b)
      /\ \A b \in Actors : Holding(b) => pc'[b] = pc[b]
      /\ \A b \in Actors : Handed(b)'
      /\ Exclusive'
  BY AddsHoldNothing DEF Adds
<1>3. pc[Isr].at = "add3" /\ pc'[Isr].at = "inc"
  BY DEF HandlerGoes
<1>4. prev'[1] = x /\ \A c \in Nodes : prev'[c] = prev[c]
  BY <1>1
<1>5. Linked'
  BY <1>1 DEF Lists, Linked, Closed, Single, Unlinked
<1>6. Back'
  <2>1. \A d \in Live, a \in Actors : Bypassed(a, d) => Bypassed(a, d)'
    BY <1>3 DEF Bypassed, HandlerGoes
  <2> QED
    BY <1>1, <1>4, <2>1 DEF Lists, Chain, Back
<1>7. Held'
  <2> SUFFICES ASSUME NEW a \in Actors, Holding(a) PROVE HolderOK(a)'
    BY <1>2 DEF Held
  <2>1. HolderOK(a) /\ pc'[a] = pc[a]
    BY <1>2 DEF Lists, Chain, Held
  <2>2. \A z : FirstEntry(z) => FirstEntry(z)'
    BY <1>1, <1>4 DEF FirstEntry
  <2> QED
    BY <1>1, <2>1, <2>2 DEF HolderOK, OnlyFrom, DropsOne
<1>8. Brought'
  BY <1>3 DEF Brought, Bringing
<1>9. Tails'
  BY <1>3, <1>4 DEF Lists, Chain, Tails, AtEnd
<1> QED
  BY <1>2, <1>5, <1>6, <1>7, <1>8, <1>9 DEF Lists, Chain

(***************************************************************************)
(* INIT_LIST_HEAD, and a new node.                                         *)
(***************************************************************************)
(* Whoever steps here holds nothing before or after.                        *)
HoldersStay ==
  \A b \in Actors : /\ Holding(b)' <=> Holding(b)
                    /\ Holding(b) => pc'[b] = pc[b]
                    /\ pc[b].at = "free" <=> pc'[b].at = "free"
                    /\ Handed(b)'

(* Whoever is about to kfree an entry holds it.                             *)
LEMMA FreersHold ==
  ASSUME TypeOK, OneProducer, HeadWhole, NEW a \in Actors, pc[a].at = "free"
  PROVE  Holding(a)
BY OneHead DEF HeadWhole, OneProducer, Holding

(* INIT_LIST_HEAD of ku_pir_flush and of KU_CLOSE empties the list and      *)
(* leaves what a holder holds.                                              *)
LEMMA InitHead ==
  ASSUME TypeOK, OneProducer, HeadWhole, Lists, HoldersStay, UNCHANGED allocated,
         pc'[Isr] = pc[Isr],
         next' = [next EXCEPT ![1] = 1], prev' = [prev EXCEPT ![1] = 1]
  PROVE  Lists'
<1>1. /\ Live' = Live /\ Live = {1} \cup allocated /\ allocated \subseteq Nodes /\ 1 \notin Nodes
      /\ next \in [Cells -> Cells] /\ prev \in [Cells -> Cells \cup {Poison}]
      /\ Cells = {1} \cup Nodes
  BY OneHead DEF Live
<1>2. /\ next'[1] = 1 /\ prev'[1] = 1
      /\ \A c \in Nodes : next'[c] = next[c] /\ prev'[c] = prev[c]
  BY <1>1
<1>3. Linked'
  BY <1>1, <1>2 DEF Lists, Linked, Closed, Single, Unlinked
<1>4. Exclusive'
  BY DEF Lists, Chain, Exclusive, HoldersStay
<1>5. Back'
  <2> SUFFICES ASSUME NEW d \in Live, next'[d] \in Nodes, next'[d] # d
               PROVE  prev'[next'[d]] = d \/ \E a \in Actors : Bypassed(a, d)'
    BY <1>1 DEF Back
  <2>1. d \in Nodes /\ next'[d] = next[d] /\ prev'[next[d]] = prev[next[d]]
    BY <1>1, <1>2
  <2>2. ASSUME NEW a \in Actors, Bypassed(a, d) PROVE Bypassed(a, d)'
    <3>1. Holding(a)
      BY <2>2, FreersHold DEF Bypassed
    <3> QED
      BY <2>1, <2>2, <3>1 DEF Bypassed, HoldersStay
  <2> QED
    BY <2>1, <2>2 DEF Lists, Chain, Back
<1>6. Held'
  <2> SUFFICES ASSUME NEW a \in Actors, Holding(a) PROVE HolderOK(a)'
    BY DEF Held, HoldersStay
  <2>1. HolderOK(a) /\ pc'[a] = pc[a]
    BY DEF Lists, Chain, Held, HoldersStay
  <2>2. \A z : FirstEntry(z) => FirstEntry(z)'
    BY <1>1, <1>2 DEF FirstEntry
  <2>3. \A c, z \in Nodes : OnlyFrom(c, z) => OnlyFrom(c, z)'
    BY <1>1, <1>2 DEF OnlyFrom
  <2>4. \A z \in Nodes : OnlyFrom(1, z) => OnlyFrom(1, z)'
    BY <1>1, <1>2 DEF OnlyFrom
  <2>5. pc[a].at \in {"unlink", "free"} => pc[a].pos \in Nodes
    BY DEF HeadWhole, OneProducer
  <2> QED
    BY <1>2, <2>1, <2>2, <2>3, <2>4, <2>5 DEF HolderOK, DropsOne
<1>7. Brought'
  <2>1. \A x \in Nodes : Fresh(x) => Fresh(x)'
    BY <1>1, <1>2 DEF Fresh, Apart, DropsOne, HoldersStay
  <2>2. ASSUME Bringing' PROVE Bringing /\ Fresh(pc[Isr].item) /\ pc[Isr].item \in Nodes
    BY <1>1, <2>2 DEF Bringing, Lists, Chain, Brought, Fresh
  <2> QED
    BY <1>1, <1>2, <2>1, <2>2 DEF Brought, Lists, Chain
<1>8. Tails'
  <2>1. \A w : w # 1 /\ AtEnd(w) => AtEnd(w)'
    BY <1>1, <1>2 DEF AtEnd
  <2>2. AtEnd(1)'
    BY <1>1 DEF AtEnd
  <2>3. prev'[1] = 1
    BY <1>2
  <2> QED
    BY <2>1, <2>2, <2>3 DEF Tails, Lists, Chain
<1> QED
  BY <1>3, <1>4, <1>5, <1>6, <1>7, <1>8 DEF Lists, Chain

(* What a holder holds is allocated, so that no allocation returns it.      *)
LEMMA HoldersPointToLive ==
  ASSUME TypeOK, OneProducer, HeadWhole, FramesOK, Lists, NEW a \in Actors, Holding(a),
         NEW n \in Nodes \ allocated
  PROVE  Apart(a, n)
<1>1. /\ Live = {1} \cup allocated /\ allocated \subseteq Nodes /\ 1 \notin Nodes /\ 0 \notin Nodes
  BY OneHead
<1>2. HolderOK(a) /\ Handed(a) /\ pc[a].at \in {"copy", "walk", "unlink", "free"}
  BY DEF Lists, Chain, Held, Holding
<1>3. pc[a].pos # n
  BY <1>1, <1>2 DEF HolderOK, Handed, FirstEntry
<1>4. pc[a].at = "free" => pc[a].nxt # n
  BY <1>2 DEF HolderOK, FirstEntry
<1>5. ASSUME ~DropsOne(a) PROVE pc[a].q # n
  <2>1. CASE pc[a].at = "copy"
    BY <1>1, <1>2, <2>1 DEF Handed
  <2>2. CASE pc[a].at = "walk"
    BY <1>2, <2>2 DEF HolderOK, FirstEntry
  <2>3. CASE pc[a].at = "unlink"
    <3>1. pc[a].q \in Nodes => next[pc[a].pos] = pc[a].q /\ pc[a].pos \in Live
      BY <1>1, <1>2, <1>5, <2>3 DEF HolderOK, FirstEntry
    <3>2. pc[a].q \in Nodes => pc[a].q \in Live
      BY <3>1 DEF Lists, Linked, Closed
    <3> QED
      BY <1>1, <3>2
  <2>4. CASE pc[a].at = "free"
    BY <1>2, <1>5, <2>4 DEF HolderOK, FirstEntry
  <2> QED
    BY <1>2, <2>1, <2>2, <2>3, <2>4
<1> QED
  BY <1>3, <1>4, <1>5 DEF Apart

(* A node is allocated, by the handler, for its list or to be lost.         *)
LEMMA NewNode ==
  ASSUME TypeOK, OneProducer, HeadWhole, FramesOK, Lists, HoldersStay,
         NEW n \in Nodes \ allocated, allocated' = allocated \cup {n},
         UNCHANGED <<next, prev>>,
         pc[Isr] = Idle,
         pc'[Isr].at \notin {"add2", "add3"}, Bringing' => pc'[Isr].item = n
  PROVE  Lists'
<1>1. /\ Live' = Live \cup {n} /\ Live = {1} \cup allocated /\ n \notin Live
      /\ allocated \subseteq Nodes /\ 1 \notin Nodes
  BY OneHead DEF Live
<1>2. next[n] = n
  BY DEF Lists, Linked, Unlinked
<1>3. \A c \in Live : next[c] \in Live /\ next[c] # n
  BY <1>1 DEF Lists, Linked, Closed
<1>4. Linked'
  <2>1. Closed'
    BY <1>1, <1>2, <1>3 DEF Closed
  <2>2. Single'
    BY <1>1, <1>2, <1>3 DEF Single, Lists, Linked
  <2>3. Unlinked'
    BY DEF Unlinked, Lists, Linked
  <2> QED
    BY <2>1, <2>2, <2>3 DEF Linked
<1>5. Exclusive'
  BY DEF Lists, Chain, Exclusive, HoldersStay
<1>6. Back'
  <2>1. \A d \in Live, a \in Actors : Bypassed(a, d) => Bypassed(a, d)'
    BY FreersHold DEF Bypassed, HoldersStay
  <2> QED
    BY <1>1, <1>2, <2>1 DEF Lists, Chain, Back
<1>7. Held'
  <2> SUFFICES ASSUME NEW a \in Actors, Holding(a) PROVE HolderOK(a)'
    BY DEF Held, HoldersStay
  <2>1. HolderOK(a) /\ pc'[a] = pc[a]
    BY DEF Lists, Chain, Held, HoldersStay
  <2>2. \A z : FirstEntry(z) => FirstEntry(z)'
    BY DEF FirstEntry
  <2>3. \A c, z : z # n /\ OnlyFrom(c, z) => OnlyFrom(c, z)'
    BY <1>1, <1>2 DEF OnlyFrom
  <2>4. \A z : FirstEntry(z) => z # n
    BY DEF FirstEntry
  <2> QED
    BY <2>1, <2>2, <2>3, <2>4 DEF HolderOK, DropsOne
<1>8. Brought'
  <2>1. \A a \in Actors : Holding(a)' => Apart(a, n)'
    BY HoldersPointToLive DEF HoldersStay, Apart, DropsOne
  <2>2. Fresh(n)'
    BY <1>1, <1>3, <2>1 DEF Fresh
  <2> QED
    BY <2>2 DEF Brought
<1>9. Tails'
  <2>1. AtEnd(prev[1])
    BY DEF Lists, Chain, Tails, Idle
  <2>2. AtEnd(prev[1])'
    BY <1>2, <2>1 DEF AtEnd
  <2> QED
    BY <2>2 DEF Tails
<1> QED
  BY <1>4, <1>5, <1>6, <1>7, <1>8, <1>9 DEF Lists, Chain

(***************************************************************************)
(* The steps of a holder.                                                  *)
(***************************************************************************)
(* Nobody else holds anything.                                              *)
OnlyHolder(a) == \A b \in Actors \ {a} : pc'[b] = pc[b] /\ ~Holding(b)

(* While one actor alone holds entries, what it does keeps the holders      *)
(* exclusive.                                                               *)
LEMMA OnlyHolderKeeps ==
  ASSUME NEW a \in Actors, OnlyHolder(a), Lists, Handed(a)'
  PROVE  /\ Exclusive' /\ \A b \in Actors : Handed(b)'
         /\ \A b \in Actors \ {a} : ~Holding(b)'
         /\ HolderOK(a)' => Held'
<1>1. \A b \in Actors \ {a} : ~Holding(b)'
  BY DEF OnlyHolder, Holding
<1>2. \A b \in Actors : Handed(b)'
  BY DEF OnlyHolder, Handed, DropsOne, Lists, Chain, Held
<1> QED
  BY <1>1, <1>2 DEF Exclusive, Held

(* The handler, if it is another, has the same node in hand.                *)
StillBrings(a) ==
  a = Isr => /\ pc[Isr].at \in {"walk", "unlink", "free"}
             /\ pc'[Isr].at \in {"unlink", "free", "dec", "walk"}
             /\ pc'[Isr].item = pc[Isr].item

(* A step of another actor leaves the handler where it is in its append.    *)
LEMMA StillBringing ==
  ASSUME NEW a \in Actors, OnlyHolder(a), StillBrings(a), Isr \in Actors
  PROVE  /\ Bringing' => Bringing /\ pc'[Isr].item = pc[Isr].item
         /\ pc'[Isr].at = "add2" => pc[Isr].at = "add2" /\ pc'[Isr] = pc[Isr]
         /\ pc'[Isr].at = "add3" => pc[Isr].at = "add3" /\ pc'[Isr] = pc[Isr]
         /\ pc[Isr].at = "add3" => pc'[Isr].at = "add3"
BY DEF OnlyHolder, StillBrings, Bringing

(* The first entry of the list, if there is one.                            *)
LEMMA HeadLeadsToFirst ==
  ASSUME TypeOK, OneProducer, HeadWhole, Lists, next[1] # 1
  PROVE  FirstEntry(next[1]) /\ OnlyFrom(1, next[1])
<1> DEFINE x == next[1]
<1>1. /\ Live = {1} \cup allocated /\ allocated \subseteq Nodes /\ 1 \notin Nodes
  BY OneHead
<1>2. x \in allocated /\ x \in Nodes
  BY <1>1 DEF Lists, Linked, Closed
<1>3. ASSUME NEW a \in Actors, Bypassed(a, 1) PROVE FALSE
  BY <1>1, <1>3 DEF Bypassed, HeadWhole, OneProducer
<1>4. prev[x] = 1
  BY <1>1, <1>2, <1>3 DEF Lists, Chain, Back
<1>5. OnlyFrom(1, x)
  BY <1>1, <1>2 DEF OnlyFrom, Lists, Linked, Single
<1>6. next[x] # x
  BY <1>1, <1>2, <1>5 DEF OnlyFrom
<1> QED
  BY <1>2, <1>4, <1>5, <1>6 DEF FirstEntry

(* list_for_each_entry_safe takes the first entry.                          *)
LEMMA WalkTakes ==
  ASSUME TypeOK, OneProducer, HeadWhole, FramesOK, Lists, NEW a \in Actors,
         pc[a].at = "walk", pc[a] \in CallFrames,
         OnlyHolder(a), StillBrings(a), Handed(a)', DropsOne(a)' = DropsOne(a),
         NEW x, x = (IF pc[a].q = 0 THEN next[1] ELSE pc[a].q), x # 1,
         pc'[a].at = "unlink", pc'[a].pos = x, pc'[a].q = next[x],
         UNCHANGED <<next, prev, allocated>>
  PROVE  Lists'
<1>1. /\ Live' = Live /\ Live = {1} \cup allocated /\ allocated \subseteq Nodes /\ 1 \notin Nodes
      /\ Cells = {1} \cup Nodes /\ 0 \notin Nodes
  BY OneHead DEF Live
<1>2. FirstEntry(x)
  <2>1. CASE pc[a].q = 0
    BY <2>1, HeadLeadsToFirst
  <2>2. CASE pc[a].q # 0
    <3>1. Holding(a) /\ HolderOK(a)
      BY <2>2 DEF Holding, Lists, Chain, Held
    <3>2. x \in Nodes
      BY <1>1, <2>2 DEF CallFrames
    <3> QED
      BY <2>2, <3>1, <3>2 DEF HolderOK
  <2> QED
    BY <2>1, <2>2
<1>3. Linked'
  BY <1>1 DEF Lists, Linked, Closed, Single, Unlinked
<1>4. HolderOK(a)'
  <2>1. FirstEntry(x)'
    BY <1>2 DEF FirstEntry
  <2> QED
    BY <2>1 DEF HolderOK
<1>5. Exclusive' /\ Held'
  BY <1>4, OnlyHolderKeeps
<1>6. Back'
  <2>1. \A b \in Actors, d \in Live : ~Bypassed(b, d)
    BY FreersHold DEF Bypassed, OnlyHolder
  <2> QED
    BY <1>1, <2>1 DEF Lists, Chain, Back
<1>7. Brought'
  <2>1. ASSUME NEW y, Fresh(y) PROVE Fresh(y)'
    <3>1. x # y
      <4>1. CASE pc[a].q = 0
        <5>1. 1 \in Live \ {y}
          BY <1>1, <2>1 DEF Fresh
        <5> QED
          BY <2>1, <4>1, <5>1 DEF Fresh
      <4>2. CASE pc[a].q # 0
        BY <2>1, <4>2 DEF Fresh, Apart, Holding, Lists, Chain, Held, Handed
      <4> QED
        BY <4>1, <4>2
    <3>2. next[x] # y
      BY <1>1, <1>2, <2>1, <3>1 DEF Fresh, FirstEntry
    <3>3. Apart(a, y)'
      BY <3>1, <3>2 DEF Apart
    <3>4. \A b \in Actors : Holding(b)' => b = a
      BY OnlyHolderKeeps
    <3> QED
      BY <1>1, <2>1, <3>3, <3>4 DEF Fresh
  <2> QED
    BY <2>1, StillBringing, ActorsAre DEF Lists, Chain, Brought
<1>8. Tails'
  BY StillBringing, ActorsAre DEF Lists, Chain, Tails, AtEnd
<1> QED
  BY <1>3, <1>5, <1>6, <1>7, <1>8 DEF Lists, Chain

(* list_del_rcu, to its first write.                                        *)
LEMMA UnlinkBypasses ==
  ASSUME TypeOK, OneProducer, HeadWhole, FramesOK, Lists, NEW a \in Actors,
         pc[a].at = "unlink",
         OnlyHolder(a), StillBrings(a), Handed(a)', DropsOne(a)' = DropsOne(a),
         NEW x, x = pc[a].pos, NEW y, y = next[x],
         pc'[a].at = "free", pc'[a].pos = x, pc'[a].q = pc[a].q,
         pc'[a].prv = prev[x], pc'[a].nxt = y,
         prev' = (IF y \in Live THEN [prev EXCEPT ![y] = prev[x]] ELSE prev),
         UNCHANGED <<next, allocated>>
  PROVE  Lists'
<1>1. /\ Live' = Live /\ Live = {1} \cup allocated /\ allocated \subseteq Nodes /\ 1 \notin Nodes
      /\ Cells = {1} \cup Nodes /\ 0 \notin Nodes /\ prev \in [Cells -> Cells \cup {Poison}]
  BY OneHead DEF Live
<1>2. Holding(a) /\ HolderOK(a) /\ x \in Nodes
  <2>1. x \in Nodes
    BY DEF HeadWhole, OneProducer
  <2> QED
    BY <1>1, <2>1 DEF Holding, Lists, Chain, Held
<1>3. x \in allocated /\ x \in Live /\ prev[x] = 1 /\ y # x
  BY <1>1, <1>2 DEF HolderOK, FirstEntry
<1>4. y \in Live /\ y \in Cells
  BY <1>1, <1>3 DEF Lists, Linked, Closed
<1>5. prev'[y] = 1 /\ \A c \in Cells \ {y} : prev'[c] = prev[c]
  BY <1>1, <1>3, <1>4
<1>6. Linked'
  BY <1>1 DEF Lists, Linked, Closed, Single, Unlinked
<1>7. y \in Nodes => next[y] # y /\ OnlyFrom(x, y)
  BY <1>3, <1>4 DEF OnlyFrom, Lists, Linked, Single
<1>8. HolderOK(a)'
  <2>1. FirstEntry(x)'
    BY <1>1, <1>3, <1>5 DEF FirstEntry
  <2>2. y \in Nodes => FirstEntry(y)' /\ OnlyFrom(x, y)'
    BY <1>1, <1>4, <1>5, <1>7 DEF FirstEntry, OnlyFrom
  <2>3. ~DropsOne(a) /\ pc[a].q \in Nodes => y = pc[a].q
    BY <1>2 DEF HolderOK
  <2> QED
    BY <1>3, <2>1, <2>2, <2>3 DEF HolderOK
<1>9. Exclusive' /\ Held'
  BY <1>8, OnlyHolderKeeps
<1>10. Back'
  <2> SUFFICES ASSUME NEW d \in Live, next[d] \in Nodes, next[d] # d
               PROVE  prev'[next[d]] = d \/ \E b \in Actors : Bypassed(b, d)'
    BY <1>1 DEF Back
  <2>1. CASE next[d] = y
    <3>1. d = x
      BY <1>7, <2>1 DEF OnlyFrom
    <3> QED
      BY <3>1 DEF Bypassed
  <2>2. CASE next[d] # y
    <3>1. \A b \in Actors : ~Bypassed(b, d)
      BY FreersHold DEF Bypassed, OnlyHolder
    <3>2. prev[next[d]] = d
      BY <3>1 DEF Lists, Chain, Back
    <3> QED
      BY <1>1, <1>5, <2>2, <3>2
  <2> QED
    BY <2>1, <2>2
<1>11. Brought'
  <2>1. ASSUME NEW z, Fresh(z) PROVE Fresh(z)' /\ z # y /\ z \in Cells
    <3>1. x # z
      BY <1>2, <2>1 DEF Fresh, Apart
    <3>2. y # z
      BY <1>3, <2>1, <3>1 DEF Fresh
    <3>3. Apart(a, z)'
      BY <1>2, <2>1, <3>1, <3>2 DEF Apart, Fresh
    <3>4. \A b \in Actors : Holding(b)' => b = a
      BY OnlyHolderKeeps
    <3> QED
      BY <1>1, <2>1, <3>2, <3>3, <3>4 DEF Fresh
  <2> QED
    BY <1>5, <2>1, StillBringing, ActorsAre DEF Lists, Chain, Brought, Bringing
<1>12. Tails'
  <2>1. prev'[1] = prev[1] \/ prev'[1] = 1
    BY <1>1, <1>5
  <2>2. AtEnd(1)'
    BY <1>1 DEF AtEnd
  <2>3. \A w : AtEnd(w) => AtEnd(w)'
    BY DEF AtEnd
  <2> QED
    BY <2>1, <2>2, <2>3, StillBringing, ActorsAre DEF Lists, Chain, Tails
<1> QED
  BY <1>6, <1>9, <1>10, <1>11, <1>12 DEF Lists, Chain

(* The rest of list_del_rcu, and kfree.                                     *)
LEMMA FreeTakesOut ==
  ASSUME TypeOK, OneProducer, HeadWhole, FramesOK, Lists, NEW a \in Actors,
         pc[a].at = "free",
         OnlyHolder(a), StillBrings(a), Handed(a)', DropsOne(a)' = DropsOne(a),
         NEW x, x = pc[a].pos, NEW y, y = pc[a].nxt, y \in Cells,
         next' = [(IF pc[a].prv \in Live THEN [next EXCEPT ![pc[a].prv] = y] ELSE next)
                    EXCEPT ![x] = x],
         prev' = [prev EXCEPT ![x] = Poison],
         allocated' = allocated \ {x},
         pc'[a].pos = 0,
         \/ DropsOne(a) /\ pc'[a].at = "dec" /\ pc'[a].q = 0
         \/ ~DropsOne(a) /\ pc'[a].at = "walk" /\ pc'[a].q = pc[a].q
  PROVE  Lists'
<1>1. /\ Live = {1} \cup allocated /\ allocated \subseteq Nodes /\ 1 \notin Nodes
      /\ Cells = {1} \cup Nodes /\ 0 \notin Nodes
      /\ next \in [Cells -> Cells] /\ prev \in [Cells -> Cells \cup {Poison}]
  BY OneHead
<1>2. Holding(a) /\ HolderOK(a) /\ x \in Nodes
  BY FreersHold DEF HeadWhole, OneProducer, Lists, Chain, Held
<1>3. x \in allocated /\ prev[x] = 1 /\ pc[a].prv = 1
  BY <1>2 DEF HolderOK, FirstEntry
<1>4. y \in Nodes => FirstEntry(y) /\ y # x /\ OnlyFrom(x, y)
  BY <1>2 DEF HolderOK
<1>5. Live' = Live \ {x}
  <2>1. x # 1 /\ Fds = {1}
    BY <1>1, <1>2, OneHead
  <2> QED
    BY <1>1, <2>1 DEF Live
<1>6. /\ next'[1] = y /\ next'[x] = x /\ \A c \in Cells \ {1, x} : next'[c] = next[c]
      /\ \A c \in Cells \ {x} : prev'[c] = prev[c]
  BY <1>1, <1>3
<1>7. \A b \in Actors, d \in Live : Bypassed(b, d) => d = x
  BY FreersHold DEF Bypassed, OnlyHolder
<1>8. \A c \in Live \ {1, x} : next[c] # x
  BY <1>1, <1>3, <1>7 DEF Lists, Chain, Back
<1>9. y \in Live \ {x}
  <2>1. CASE y \in Nodes
    BY <1>1, <1>4, <2>1 DEF FirstEntry
  <2>2. CASE y = 1
    BY <1>1, <1>2, <2>2
  <2> QED
    BY <1>1, <2>1, <2>2
<1>10. Linked'
  <2>1. Closed'
    <3> SUFFICES ASSUME NEW c \in Live \ {x} PROVE next'[c] \in Live \ {x}
      BY <1>5 DEF Closed
    <3> QED
      BY <1>1, <1>6, <1>8, <1>9 DEF Lists, Linked, Closed
  <2>2. Single'
    <3> SUFFICES ASSUME NEW c \in Live \ {x}, NEW d \in Live \ {x},
                        next'[c] = next'[d], next'[c] \in Nodes, c # d
                 PROVE  FALSE
      BY <1>5 DEF Single
    <3>1. \A e \in Live \ {1, x} : next'[e] = next[e] /\ (y \in Nodes => next[e] # y)
      BY <1>1, <1>4, <1>6 DEF OnlyFrom
    <3> QED
      BY <1>1, <1>6, <3>1 DEF Lists, Linked, Single
  <2>3. Unlinked'
    BY <1>1, <1>3, <1>6 DEF Lists, Linked, Unlinked
  <2> QED
    BY <2>1, <2>2, <2>3 DEF Linked
<1>11. HolderOK(a)'
  <2>1. CASE DropsOne(a)
    BY <2>1 DEF HolderOK
  <2>2. CASE ~DropsOne(a)
    <3>1. pc[a].q \in Nodes => y = pc[a].q
      BY <1>2, <2>2 DEF HolderOK
    <3>2. y \in Nodes => FirstEntry(y)'
      BY <1>1, <1>4, <1>6 DEF FirstEntry
    <3>3. y \in Nodes => OnlyFrom(1, y)'
      BY <1>1, <1>4, <1>5, <1>6 DEF OnlyFrom
    <3>4. pc'[a].q = pc[a].q /\ pc'[a].at = "walk"
      BY <2>2
    <3> QED
      BY <3>1, <3>2, <3>3, <3>4 DEF HolderOK
  <2> QED
    BY <2>1, <2>2
<1>12. Exclusive' /\ Held'
  BY <1>11, OnlyHolderKeeps
<1>13. Back'
  <2> SUFFICES ASSUME NEW d \in Live \ {x}, next'[d] \in Nodes, next'[d] # d
               PROVE  prev'[next'[d]] = d
    BY <1>5 DEF Back
  <2>1. CASE d = 1
    BY <1>1, <1>4, <1>6, <2>1 DEF FirstEntry
  <2>2. CASE d # 1
    <3>1. next'[d] = next[d] /\ next[d] # x
      BY <1>1, <1>6, <1>8, <2>2
    <3>2. prev[next[d]] = d
      BY <1>7, <3>1 DEF Lists, Chain, Back
    <3> QED
      BY <1>1, <1>6, <3>1, <3>2
  <2> QED
    BY <2>1, <2>2
<1>14. Brought'
  <2>1. ASSUME NEW z, Fresh(z)
        PROVE  Fresh(z)' /\ z \in Nodes /\ next'[z] = next[z] /\ prev'[z] = prev[z]
    <3>1. x # z /\ y # z /\ (~DropsOne(a) => pc[a].q # z)
      BY <1>2, <2>1 DEF Fresh, Apart
    <3>2. Apart(a, z)'
      BY <1>1, <2>1, <3>1 DEF Apart, Fresh
    <3>3. \A b \in Actors : Holding(b)' => b = a
      BY OnlyHolderKeeps
    <3>4. \A c \in Live' \ {z} : next'[c] # z
      BY <1>1, <1>5, <1>6, <2>1, <3>1 DEF Fresh
    <3>5. z \in allocated' /\ z \in Cells /\ z # 1
      BY <1>1, <2>1, <3>1 DEF Fresh
    <3> QED
      BY <1>1, <1>6, <3>1, <3>2, <3>3, <3>4, <3>5 DEF Fresh
  <2>2. /\ Bringing' => Bringing /\ pc'[Isr].item = pc[Isr].item
        /\ pc'[Isr].at = "add2" => pc[Isr].at = "add2" /\ pc'[Isr] = pc[Isr]
    BY StillBringing, ActorsAre
  <2>3. Brought
    BY DEF Lists, Chain
  <2>4. ASSUME Bringing' PROVE Fresh(pc[Isr].item)'
    <3>1. Bringing /\ pc'[Isr].item = pc[Isr].item
      BY <2>2, <2>4
    <3>2. Fresh(pc[Isr].item)
      BY <2>3, <3>1 DEF Brought
    <3>3. PICK z : z = pc[Isr].item
      OBVIOUS
    <3>4. Fresh(z)'
      BY <2>1, <3>2, <3>3
    <3> QED
      BY <3>1, <3>3, <3>4 DEF Fresh, Apart, Holding
  <2>5. ASSUME Bringing', pc'[Isr].at = "add2"
        PROVE  next'[pc'[Isr].item] = 1 /\ prev'[pc'[Isr].item] = pc'[Isr].prv
    <3>1. Bringing /\ pc[Isr].at = "add2" /\ pc'[Isr] = pc[Isr]
      BY <2>2, <2>5
    <3>2. /\ Fresh(pc[Isr].item)
          /\ next[pc[Isr].item] = 1 /\ prev[pc[Isr].item] = pc[Isr].prv
      BY <2>3, <3>1 DEF Brought
    <3>3. next'[pc[Isr].item] = next[pc[Isr].item] /\ prev'[pc[Isr].item] = prev[pc[Isr].item]
      BY <2>1, <3>2
    <3> QED
      BY <3>1, <3>2, <3>3
  <2> QED
    BY <2>4, <2>5 DEF Brought
<1>15. Tails'
  <2>1. prev'[1] = prev[1]
    BY <1>1, <1>2, <1>6
  <2>2. \A w : AtEnd(w) => AtEnd(w)'
    BY <1>1, <1>6 DEF AtEnd
  <2> QED
    BY <2>1, <2>2, StillBringing, ActorsAre DEF Lists, Chain, Tails
<1> QED
  BY <1>10, <1>12, <1>13, <1>14, <1>15 DEF Lists, Chain

(* A read looks at the first entry, to copy from it.                        *)
LEMMA PickTakes ==
  ASSUME TypeOK, OneProducer, HeadWhole, FramesOK, Lists, NEW p \in Procs,
         pc[p].at = "pick",
         OnlyHolder(p), Handed(p)', DropsOne(p),
         DropsOne(p)' = DropsOne(p),
         pc'[p].at = "copy", pc'[p].pos = next[1],
         UNCHANGED <<next, prev, allocated>>
  PROVE  Lists'
<1>1. /\ Live' = Live /\ Live = {1} \cup allocated /\ allocated \subseteq Nodes /\ 1 \notin Nodes
  BY OneHead DEF Live
<1>2. p \in Actors /\ p # Isr /\ Isr \in Actors
  BY ActorsAre
<1>3. Linked'
  BY <1>1 DEF Lists, Linked, Closed, Single, Unlinked
<1>4. HolderOK(p)'
  BY <1>1 DEF HolderOK, Lists, Linked, Closed
<1>5. Exclusive' /\ Held'
  BY <1>2, <1>4, OnlyHolderKeeps
<1>6. Back'
  <2>1. \A b \in Actors, d \in Live : ~Bypassed(b, d)
    BY <1>2, FreersHold DEF Bypassed, OnlyHolder
  <2> QED
    BY <1>1, <2>1 DEF Lists, Chain, Back
<1>7. Brought'
  <2>1. ASSUME NEW y, Fresh(y) PROVE Fresh(y)'
    <3>1. 1 \in Live \ {y}
      BY <1>1, <2>1 DEF Fresh
    <3>2. next[1] # y
      BY <2>1, <3>1 DEF Fresh
    <3>3. Apart(p, y)'
      BY <3>2 DEF Apart
    <3>4. \A b \in Actors : Holding(b)' => b = p
      BY <1>2, OnlyHolderKeeps
    <3> QED
      BY <1>1, <2>1, <3>3, <3>4 DEF Fresh
  <2> QED
    BY <1>2, <2>1 DEF Lists, Chain, Brought, Bringing, OnlyHolder
<1>8. Tails'
  BY <1>2 DEF Lists, Chain, Tails, AtEnd, OnlyHolder
<1> QED
  BY <1>3, <1>5, <1>6, <1>7, <1>8 DEF Lists, Chain

(***************************************************************************)
(* Every step of the driver is one of these.                               *)
(***************************************************************************)
(* rmmod has not begun while init runs or the module is loaded.             *)
Parked == Loading \/ module = "loaded" => pc[Rmmod] = Idle

(* rmmod is idle until the module is loaded, and while it is.               *)
LEMMA NextParked ==
  ASSUME Framed, Parked, [Next]_vars
  PROVE  Parked'
<1> SUFFICES ASSUME Loading' \/ module' = "loaded" PROVE pc'[Rmmod] = Idle
  BY DEF Parked
<1>1. Rmmod \in Actors /\ Isr \in Actors \ {Rmmod} /\ Procs \subseteq Actors \ {Rmmod}
  BY ActorsAre
<1>2. pc[Rmmod] = Idle /\ (Loading \/ module = "loaded")
  <2>1. ASSUME NEW p \in Procs, NEW o, NEW f, ku_pir_open(p, o, f) PROVE UNCHANGED module
    BY <2>1 DEF ku_pir_open
  <2>2. ASSUME NEW a \in Actors, ListStep(a) PROVE UNCHANGED module
    BY <2>2 DEF ListStep, Premature, Walk, Unlink, Free, Decrement, Increment, Load, Store,
                AddTail, Wake, gate
  <2>3. ASSUME NEW p \in Procs, ThreadStep(p) \/ Signal(p) PROVE UNCHANGED module
    BY <2>3 DEF ThreadStep, Wait, Pick, Copy, Write, Full, Find, Take, Reset, ku_pir_release,
                Fault, Signal, gate
  <2>4. ASSUME ku_pir_isr \/ Glitch \/ Push \/ ExitNext PROVE UNCHANGED module
    BY <2>4 DEF ku_pir_isr, Glitch, Push, ExitNext, gate
  <2>5. ~(ExitBegin \/ ExitEnd)
    BY DEF ExitBegin, ExitEnd, Loading
  <2>6. CASE UNCHANGED vars
    BY <2>6 DEF Parked, Loading, vars, gate
  <2>7. UNCHANGED module => pc[Rmmod] = Idle /\ (Loading \/ module = "loaded")
    BY DEF Parked, Loading
  <2>8. CASE InitIrq \/ InitQueues
    BY <2>8 DEF Parked, Loading, InitIrq, InitQueues
  <2> QED
    BY <2>1, <2>2, <2>3, <2>4, <2>5, <2>6, <2>7, <2>8 DEF Next
<1>3. CASE UNCHANGED pc
  BY <1>2, <1>3
<1>4. ASSUME NEW a \in Actors \ {Rmmod}, \A b \in Actors \ {a} : pc'[b] = pc[b]
      PROVE  pc'[Rmmod] = Idle
  BY <1>1, <1>2, <1>4
<1>5. ASSUME NEW a \in Actors, ListStep(a) PROVE pc'[Rmmod] = Idle
  <2>1. CASE Wake(a)
    <3>1. a # Rmmod
      BY <1>2, <2>1 DEF Wake, At, Idle
    <3> QED
      BY <1>1, <1>2, <2>1, <3>1 DEF Wake, Idle
  <2>2. CASE ~Wake(a)
    <3>1. a # Rmmod
      BY <1>2, <1>5 DEF ListStep, Premature, Walk, Unlink, Free, Decrement, Increment, Load,
                        Store, AddTail, Wake, At, Idle
    <3>2. \A b \in Actors \ {a} : pc'[b] = pc[b]
      BY <1>5, <2>2, ListStepMoves, OopsEnds DEF Moves, Killed
    <3> QED
      BY <1>4, <3>1, <3>2
  <2> QED
    BY <2>1, <2>2
<1>6. ASSUME NEW p \in Procs, NEW fr, Become(p, fr) PROVE pc'[Rmmod] = Idle
  BY <1>1, <1>4, <1>6 DEF Become, Framed, TypeOK
<1>7. ASSUME NEW p \in Procs, ThreadStep(p) \/ Signal(p) PROVE pc'[Rmmod] = Idle
  <2>1. CASE ku_pir_release(p) \/ Fault(p)
    <3>1. \A b \in Actors \ {p} : pc'[b] = pc[b]
      BY <1>1, <2>1 DEF ku_pir_release, Fault, Become, Goto, Framed, TypeOK
    <3> QED
      BY <1>1, <1>4, <3>1
  <2> QED
    BY <1>1, <1>4, <1>7, <2>1, CallMoves DEF ThreadStep, Moves
<1>8. CASE ku_pir_isr \/ Push
  <2>1. \A b \in Actors \ {Isr} : pc'[b] = pc[b]
    BY <1>8 DEF ku_pir_isr, Push, Goto, Become, Framed, TypeOK
  <2> QED
    BY <1>1, <1>4, <2>1
<1>9. ~ExitBegin /\ ~ExitNext /\ ~ExitEnd
  BY <1>2 DEF Loading, ExitBegin, ExitNext, ExitEnd, At, Idle
<1>10. ASSUME NEW call \in Programs \cap (Procs \X Ops), NEW f \in Fds,
              ku_pir_open(call[1], call[2], f)
       PROVE  pc'[Rmmod] = Idle
  BY <1>6, <1>10 DEF ku_pir_open
<1> QED
  BY <1>3, <1>5, <1>7, <1>8, <1>9, <1>10 DEF Next, vars, Glitch, InitIrq, InitQueues

Scene == Framed /\ Called /\ HeadWhole /\ Parked /\ OneProducer /\ Running /\ Lists

(* An actor in the driver's code, for descriptor 1; nobody inserts entries  *)
(* but the handler.                                                         *)
LEMMA OnScene ==
  ASSUME Scene, NEW a \in Actors, pc[a].at \notin {"idle", "dead"}
  PROVE  /\ pc[a] \in CallFrames /\ Placed(pc[a]) /\ Owned(a, pc[a]) /\ Holds(pc[a])
         /\ pc[a].fd = 1 /\ pc[a].op # "write"
         /\ pc[a].op = "isr" <=> a = Isr
         /\ pc[a].op = "exit" => a = Rmmod
<1>1. /\ pc[a] \in CallFrames /\ Placed(pc[a]) /\ Owned(a, pc[a]) /\ Holds(pc[a])
  BY Here DEF Scene, Framed
<1>2. pc[a].fd \in Fds /\ Fds = {1}
  BY <1>1, OneHead DEF CallFrames, Scene, Framed
<1>3. a \in Procs => pc[a].op # "write"
  BY DEF Scene, Called, OneProducer
<1>4. pc[Isr].at # "oops"
  BY DEF Scene, Running
<1> QED
  BY <1>1, <1>2, <1>3, <1>4, ActorsAre DEF Owned, Ops

(* One actor takes a step; the others do not move.                          *)
LEMMA Became ==
  ASSUME TypeOK, NEW a \in Actors, NEW fr, Become(a, fr)
  PROVE  pc'[a] = fr /\ \A b \in Actors \ {a} : pc'[b] = pc[b]
BY DEF Become, TypeOK

(* A Goto changes the position of one actor and nothing else of it.         *)
LEMMA Went ==
  ASSUME TypeOK, NEW a \in Actors, NEW l, Goto(a, l), pc[a] \in CallFrames
  PROVE  /\ pc'[a] = [pc[a] EXCEPT !.at = l]
         /\ pc'[a].at = l /\ pc'[a].op = pc[a].op /\ pc'[a].pos = pc[a].pos
         /\ pc'[a].q = pc[a].q /\ pc'[a].item = pc[a].item /\ pc'[a].prv = pc[a].prv
         /\ \A b \in Actors \ {a} : pc'[b] = pc[b]
<1>1. pc'[a] = [pc[a] EXCEPT !.at = l] /\ \A b \in Actors \ {a} : pc'[b] = pc[b]
  BY DEF Goto, TypeOK
<1> QED
  BY <1>1 DEF CallFrames

(* An actor that holds nothing at its new place.                            *)
LEMMA StepRests ==
  ASSUME NEW a \in Actors, \A b \in Actors \ {a} : pc'[b] = pc[b],
         UNCHANGED <<next, prev, allocated>>,
         pc[a].at # "free", pc'[a].at \notin {"copy", "unlink", "free"},
         pc'[a].at \in {"idle", "dead"} \/ (pc'[a].pos = 0 /\ pc'[a].q = 0),
         a = Isr => /\ pc[Isr].at \notin {"add2", "add3"}
                    /\ pc'[Isr].at \notin {"add2", "add3"}
                    /\ Bringing' => Bringing /\ pc'[Isr].item = pc[Isr].item
  PROVE  Rests
<1>1. PutsDown(a)
  BY DEF PutsDown, Holding, Handed
<1> QED
  BY <1>1, ActorsAre DEF Rests, Bringing

(* Most steps only move the actor on.                                       *)
LEMMA StepOnRests ==
  ASSUME Scene, NEW a \in Actors, \A b \in Actors \ {a} : pc'[b] = pc[b],
         UNCHANGED <<next, prev, allocated>>,
         pc[a].at \notin {"idle", "dead", "copy", "walk", "unlink", "free", "add2", "add3"},
         pc'[a].at \notin {"copy", "unlink", "free", "add2", "add3"},
         pc'[a].pos = pc[a].pos, pc'[a].q = pc[a].q, pc'[a].item = pc[a].item,
         a = Isr => (Bringing' => Bringing)
  PROVE  Rests
<1>1. pc[a].pos = 0 /\ pc[a].q = 0
  BY DEF Scene, Lists, Chain, Held, Handed
<1> QED
  BY <1>1, StepRests

(* The steps of cnt-- and cnt++ rest.                                       *)
LEMMA CountersRest ==
  ASSUME Scene, NEW a \in Actors, Decrement(a) \/ Increment(a)
  PROVE  Rests
<1> DEFINE to == pc'[a]
<1>1. pc[a].at \in {"dec", "dec2", "inc", "inc2"} /\ UNCHANGED <<next, prev, allocated>>
  BY DEF Decrement, Increment, Load, Store, At, memory
<1>2. pc[a] \in CallFrames /\ TypeOK
  BY <1>1, OnScene DEF Scene, Framed
<1>3. /\ to.at \in {"dec2", "release", "add", "inc2", "next", "wake"}
      /\ to.pos = pc[a].pos /\ to.q = pc[a].q /\ to.item = pc[a].item
      /\ \A b \in Actors \ {a} : pc'[b] = pc[b]
      /\ to.at = "add" => pc[a].at = "dec2"
      /\ to.at = "dec2" => pc[a].at = "dec"
  <2>1. ASSUME NEW l, NEW m, NEW c \in Int, Load(a, l, m, c)
        PROVE  /\ to.at = m /\ to.pos = pc[a].pos /\ to.q = pc[a].q /\ to.item = pc[a].item
               /\ \A b \in Actors \ {a} : pc'[b] = pc[b]
    <3> DEFINE v == ku_pir_volume[pc[a].fd] + c
    <3>1. Become(a, [pc[a] EXCEPT !.at = m, !.n = v])
      BY <2>1 DEF Load
    <3> HIDE DEF v
    <3>2. to = [pc[a] EXCEPT !.at = m, !.n = v] /\ \A b \in Actors \ {a} : pc'[b] = pc[b]
      BY <1>2, <3>1, Became
    <3> QED
      BY <1>2, <3>2 DEF CallFrames
  <2>2. ASSUME NEW l, NEW m, Store(a, l, m)
        PROVE  /\ to.at = m /\ to.pos = pc[a].pos /\ to.q = pc[a].q /\ to.item = pc[a].item
               /\ \A b \in Actors \ {a} : pc'[b] = pc[b]
    <3>1. Become(a, [pc[a] EXCEPT !.at = m, !.n = 0])
      BY <2>2 DEF Store
    <3>2. to = [pc[a] EXCEPT !.at = m, !.n = 0] /\ \A b \in Actors \ {a} : pc'[b] = pc[b]
      BY <1>2, <3>1, Became
    <3> QED
      BY <1>2, <3>2 DEF CallFrames
  <2>3. ASSUME NEW c \in Int, c = -1, Load(a, "dec", "dec2", c)
        PROVE  to.at = "dec2" /\ to.pos = pc[a].pos /\ to.q = pc[a].q /\ to.item = pc[a].item
               /\ (\A b \in Actors \ {a} : pc'[b] = pc[b]) /\ pc[a].at = "dec"
    BY <2>1, <2>3 DEF Load, At
  <2>4. CASE Decrement(a)
    <3> DEFINE m == IF pc[a].op = "read" THEN "release" ELSE "add"
    <3>1. CASE Load(a, "dec", "dec2", -1)
      <4>1. PICK c \in Int : c = -1
        OBVIOUS
      <4>2. Load(a, "dec", "dec2", c)
        BY <3>1, <4>1
      <4> QED
        BY <2>3, <4>1, <4>2
    <3>2. CASE Store(a, "dec2", m)
      <4>1. pc[a].at = "dec2"
        BY <3>2 DEF Store, At
      <4>2. to.at = m
        BY <2>2, <3>2
      <4> QED
        BY <2>2, <3>2, <4>1, <4>2
    <3> QED
      BY <2>4, <3>1, <3>2 DEF Decrement
  <2>5. CASE Increment(a)
    <3> DEFINE m == IF a = Isr THEN "next" ELSE "wake"
    <3>1. CASE Load(a, "inc", "inc2", 1)
      BY <2>1, <3>1
    <3>2. CASE Store(a, "inc2", m)
      <4>1. to.at = m
        BY <2>2, <3>2
      <4> QED
        BY <2>2, <3>2, <4>1
    <3> QED
      BY <2>5, <3>1, <3>2 DEF Increment
  <2> QED
    BY <2>4, <2>5
<1> QED
  BY <1>1, <1>3, StepOnRests DEF Bringing

(* The wake-up at the end of the handler rests.                             *)
LEMMA WakeRests ==
  ASSUME Scene, NEW a \in Actors, Wake(a)
  PROVE  Rests
<1>1. pc[a].at = "wake" /\ TypeOK /\ UNCHANGED <<next, prev, allocated>>
  BY DEF Wake, At, Scene, Framed, memory
<1>2. a = Isr
  BY <1>1, OnScene DEF Placed, CallFrames, Ops, InLoop, InDrop, Leaving
<1>3. pc'[a] = Idle
  BY <1>2 DEF Wake
<1>4. ASSUME NEW b \in Actors \ {a}, pc'[b] # pc[b]
      PROVE  pc[b].at = "asleep" /\ pc'[b] = [pc[b] EXCEPT !.at = "wait"]
  BY <1>4 DEF Wake
<1>5. ASSUME NEW b \in Actors, pc'[b] # pc[b] PROVE PutsDown(b)
  <2>1. CASE b = a
    BY <1>1, <1>3, <2>1 DEF PutsDown, Holding, Handed, Idle
  <2>2. CASE b # a
    <3>1. pc[b].at = "asleep" /\ pc'[b] = [pc[b] EXCEPT !.at = "wait"]
      BY <1>4, <1>5, <2>2
    <3>2. pc[b] \in CallFrames /\ pc[b].pos = 0 /\ pc[b].q = 0
      BY <3>1, OnScene DEF Scene, Lists, Chain, Held, Handed
    <3>3. pc'[b].at = "wait" /\ pc'[b].pos = 0 /\ pc'[b].q = 0
      BY <3>1, <3>2 DEF CallFrames
    <3> QED
      BY <3>1, <3>3 DEF PutsDown, Holding, Handed
  <2> QED
    BY <2>1, <2>2
<1> QED
  BY <1>1, <1>2, <1>3, <1>5 DEF Rests, Bringing, Idle

(* So does a step that follows a null pointer during init.                  *)
LEMMA PrematureRests ==
  ASSUME Scene, NEW a \in Actors, Premature(a)
  PROVE  /\ Rests /\ UNCHANGED <<data, got, jiffies>>
         /\ pc[a].at \in {"wait", "wake", "walk", "pick", "add"}
         /\ pc[a].at = "walk" => 1 \notin made
         /\ \A b \in Actors \ {a} : pc'[b] = pc[b]
<1>1. /\ TypeOK /\ Oops(a) /\ UNCHANGED <<next, prev, allocated, data, got, jiffies>>
      /\ pc[a].at \in {"wait", "wake", "walk", "pick", "add"}
      /\ pc[a].at = "walk" => pc[a].fd \notin made
  BY DEF Scene, Framed, Premature, At, memory, history
<1>2. pc[a].fd = 1
  BY <1>1, OnScene
<1> DEFINE fr == Frame(IF a \in Procs THEN "release" ELSE "oops", "dead", 1)
<1>3. fr.at \in {"release", "oops"} /\ fr.pos = 0 /\ fr.q = 0
  BY DEF Frame
<1>4. Become(a, fr)
  BY <1>1 DEF Oops
<1> HIDE DEF fr
<1>5. pc'[a] = fr /\ \A b \in Actors \ {a} : pc'[b] = pc[b]
  BY <1>1, <1>4, Became
<1>6. Rests
  BY <1>1, <1>3, <1>5, StepRests DEF Bringing
<1> QED
  BY <1>1, <1>2, <1>5, <1>6

(* A thread at a label of a call that it goes on from.                      *)
LEMMA GoneRests ==
  ASSUME Scene, NEW p \in Procs, NEW l, Goto(p, l),
         pc[p].at \notin {"idle", "dead", "copy", "walk", "unlink", "free", "add2", "add3"},
         l \notin {"copy", "unlink", "free", "add2", "add3"},
         UNCHANGED <<next, prev, allocated>>
  PROVE  Rests
<1>1. TypeOK /\ p \in Actors /\ p # Isr
  BY ActorsAre DEF Scene, Framed
<1>2. pc[p] \in CallFrames
  BY <1>1, OnScene
<1>3. /\ pc'[p].at = l /\ pc'[p].pos = pc[p].pos /\ pc'[p].q = pc[p].q /\ pc'[p].item = pc[p].item
      /\ \A b \in Actors \ {p} : pc'[b] = pc[b]
  BY <1>1, <1>2, Went
<1> QED
  BY <1>1, <1>3, StepOnRests

(* The steps of a system call outside the list operations rest.             *)
LEMMA CallRests ==
  ASSUME Scene, NEW p \in Procs,
         Wait(p) \/ Signal(p) \/ Full(p) \/ Find(p) \/ Take(p) \/ ku_pir_release(p)
  PROVE  Rests
<1>1. TypeOK /\ p \in Actors /\ p # Isr /\ UNCHANGED <<next, prev, allocated>>
  BY ActorsAre DEF Scene, Framed, Wait, Signal, Full, Find, Take, ku_pir_release, memory
<1>2. CASE Wait(p) \/ Signal(p) \/ Full(p) \/ Take(p)
  <2>1. PICK l \in {"wait", "pick", "asleep", "walk", "add", "init"} :
          Goto(p, l) /\ pc[p].at \in {"read", "wait", "asleep", "full", "take", "close"}
    BY <1>2 DEF Wait, Signal, Full, Take, At
  <2> QED
    BY <1>1, <2>1, GoneRests
<1>3. CASE Find(p)
  <2>1. pc[p].at = "find"
    BY <1>3 DEF Find, At
  <2>2. CASE Goto(p, "release")
    BY <1>1, <2>1, <2>2, GoneRests
  <2>3. ASSUME NEW f \in Fds, Become(p, [pc[p] EXCEPT !.at = "take", !.fd = f]) PROVE Rests
    <3>1. pc[p] \in CallFrames
      BY <1>1, <2>1, OnScene
    <3>2. /\ pc'[p] = [pc[p] EXCEPT !.at = "take", !.fd = f]
          /\ \A b \in Actors \ {p} : pc'[b] = pc[b]
      BY <1>1, <2>3, Became
    <3>3. /\ pc'[p].at = "take" /\ pc'[p].pos = pc[p].pos
          /\ pc'[p].q = pc[p].q /\ pc'[p].item = pc[p].item
      BY <3>1, <3>2 DEF CallFrames
    <3> QED
      BY <1>1, <2>1, <3>2, <3>3, StepOnRests
  <2> QED
    BY <1>3, <2>2, <2>3 DEF Find
<1>4. CASE ku_pir_release(p)
  <2>1. pc[p].at \in {"release", "sync"}
    BY <1>4 DEF ku_pir_release, At
  <2>2. CASE Goto(p, "sync")
    BY <1>1, <2>1, <2>2, GoneRests
  <2>3. CASE Become(p, IF pc[p].op = "dead" THEN [at |-> "dead"] ELSE Idle)
    <3>1. pc'[p].at \in {"idle", "dead"} /\ \A b \in Actors \ {p} : pc'[b] = pc[b]
      BY <1>1, <2>3, Became DEF Idle
    <3> QED
      BY <1>1, <2>1, <3>1, StepRests
  <2> QED
    BY <1>4, <2>2, <2>3 DEF ku_pir_release
<1> QED
  BY <1>2, <1>3, <1>4

(* No call inserts an entry here.                                           *)
LEMMA NoWrite ==
  ASSUME Scene, NEW p \in Procs
  PROVE  ~Write(p)
BY OnScene, ActorsAre DEF Write, At, Placed, CallFrames, Ops, InLoop, InDrop, InAdd, Leaving

(* A read puts down what it has copied from.                                *)
LEMMA CopyRests ==
  ASSUME Scene, NEW p \in Procs, Copy(p)
  PROVE  /\ Rests
         /\ \A b \in Actors \ {p} : pc'[b] = pc[b]
         /\ pc[p].at = "copy" /\ pc[p].op = "read" /\ pc'[p].op = "read"
         /\ pc'[p].at \in {"walk", "release"} /\ pc'[p].pos = 0 /\ pc'[p].q = 0
<1>1. /\ TypeOK /\ p \in Actors /\ p # Isr /\ UNCHANGED <<next, prev, allocated>>
      /\ pc[p].at = "copy"
  BY ActorsAre DEF Scene, Framed, Copy, At, memory
<1>2. pc[p] \in CallFrames /\ pc[p].q = 0 /\ pc[p].op = "read"
  BY <1>1, OnScene DEF Scene, Lists, Chain, Held, Handed, Placed, CallFrames, Ops,
                       InLoop, InDrop, InAdd, Leaving
<1>3. PICK l \in {"walk", "release"} : Become(p, [pc[p] EXCEPT !.at = l, !.pos = 0])
  BY DEF Copy
<1>4. /\ pc'[p] = [pc[p] EXCEPT !.at = l, !.pos = 0]
      /\ \A b \in Actors \ {p} : pc'[b] = pc[b]
  BY <1>1, <1>3, Became
<1>5. pc'[p].at = l /\ pc'[p].pos = 0 /\ pc'[p].q = 0 /\ pc'[p].op = "read"
  <2> DEFINE z == 0
  <2>1. pc'[p] = [pc[p] EXCEPT !.at = l, !.pos = z]
    BY <1>4
  <2> HIDE DEF z
  <2>2. pc'[p].at = l /\ pc'[p].pos = z /\ pc'[p].q = pc[p].q /\ pc'[p].op = pc[p].op
    BY <1>2, <2>1 DEF CallFrames
  <2> QED
    BY <1>2, <2>2 DEF z
<1>6. Rests
  BY <1>1, <1>4, <1>5, StepRests
<1> QED
  BY <1>1, <1>2, <1>4, <1>5, <1>6

(* The library's open, the loop of the handler, and rmmod.                  *)
LEMMA OpenRests ==
  ASSUME Scene, NEW call \in Programs \cap (Procs \X Ops), NEW f \in Fds,
         ku_pir_open(call[1], call[2], f)
  PROVE  Rests
<1> DEFINE p == call[1]
           e == Entry[call[2]]
<1>1. /\ p \in Procs /\ call[2] \in Ops /\ p \in Actors /\ p # Isr /\ TypeOK
      /\ pc[p] = Idle /\ Become(p, Frame(e, call[2], f))
      /\ UNCHANGED <<next, prev, allocated>>
  BY ActorsAre DEF Scene, Framed, ku_pir_open, memory
<1>2. e \in {"read", "write", "find", "close", "walk"}
  BY <1>1 DEF Entry, Ops
<1> HIDE DEF e, p
<1>3. pc'[p] = Frame(e, call[2], f) /\ \A b \in Actors \ {p} : pc'[b] = pc[b]
  BY <1>1, Became
<1>4. pc'[p].at = e /\ pc'[p].pos = 0 /\ pc'[p].q = 0 /\ pc[p].at = "idle"
  BY <1>1, <1>3 DEF Frame, Idle
<1> QED
  BY <1>1, <1>2, <1>3, <1>4, StepRests

(* The start of the handler and its choice of a descriptor rest.            *)
LEMMA PushRests ==
  ASSUME Scene, Push
  PROVE  Rests
<1>1. /\ TypeOK /\ Isr \in Actors /\ UNCHANGED <<next, prev, allocated>>
      /\ pc[Isr].at \in {"fd", "next"}
  BY ActorsAre DEF Scene, Framed, Push, At, memory
<1>2. pc[Isr] \in CallFrames /\ pc[Isr].fd = 1 /\ KUPIR_MAX_DEV = 1
  BY <1>1, OnScene DEF Scene, OneProducer
<1>3. CASE At(Isr, "fd") /\ \E l \in {"next", "walk", "add"} : Goto(Isr, l)
  <2>1. PICK l \in {"next", "walk", "add"} : Goto(Isr, l)
    BY <1>3
  <2>2. pc[Isr].at = "fd"
    BY <1>3 DEF At
  <2>3. /\ pc'[Isr].at = l /\ pc'[Isr].pos = pc[Isr].pos /\ pc'[Isr].q = pc[Isr].q
        /\ pc'[Isr].item = pc[Isr].item
        /\ \A b \in Actors \ {Isr} : pc'[b] = pc[b]
    BY <1>1, <1>2, <2>1, Went
  <2> QED
    BY <1>1, <2>2, <2>3, StepOnRests DEF Bringing
<1>4. CASE At(Isr, "next") /\ Become(Isr, [pc[Isr] EXCEPT !.at = "wake"])
  <2>1. pc[Isr].at = "next"
    BY <1>4 DEF At
  <2>2. pc'[Isr] = [pc[Isr] EXCEPT !.at = "wake"] /\ \A b \in Actors \ {Isr} : pc'[b] = pc[b]
    BY <1>1, <1>4, Became
  <2>3. /\ pc'[Isr].at = "wake" /\ pc'[Isr].pos = pc[Isr].pos /\ pc'[Isr].q = pc[Isr].q
        /\ pc'[Isr].item = pc[Isr].item
    BY <1>2, <2>2 DEF CallFrames
  <2> QED
    BY <1>1, <2>1, <2>2, <2>3, StepOnRests DEF Bringing
<1>5. At(Isr, "next") => Become(Isr, [pc[Isr] EXCEPT !.at = "wake"])
  BY <1>2 DEF Push, At
<1>6. At(Isr, "fd") => \E l \in {"next", "walk", "add"} : Goto(Isr, l)
  <2>1. fd_list[1] = 0 \/ ku_pir_volume[1] = KUPIR_MAX_MSG
          \/ (fd_list[1] # 0 /\ ku_pir_volume[1] # KUPIR_MAX_MSG)
    OBVIOUS
  <2> QED
    BY <1>2, <2>1 DEF Push, At
<1>7. At(Isr, "fd") \/ At(Isr, "next")
  BY DEF Push
<1> QED
  BY <1>3, <1>4, <1>5, <1>6, <1>7

(* The steps of rmmod between its walks rest.                               *)
LEMMA ExitRests ==
  ASSUME Scene, ExitBegin \/ ExitNext \/ ExitEnd
  PROVE  Rests
<1>1. /\ TypeOK /\ Rmmod \in Actors /\ Rmmod # Isr /\ UNCHANGED <<next, prev, allocated>>
  BY ActorsAre DEF Scene, Framed, ExitBegin, ExitNext, ExitEnd, memory
<1>2. PICK fr : /\ Become(Rmmod, fr)
                /\ fr = Idle \/ (\E l \in {"walk", "free_irq"}, f \in Int : fr = Frame(l, "exit", f))
  <2>1. CASE ExitBegin
    BY <2>1 DEF ExitBegin
  <2>2. CASE ExitNext
    <3>1. pc[Rmmod].fd = 1
      BY <1>1, <2>2, OnScene DEF ExitNext, At
    <3> QED
      BY <2>2, <3>1 DEF ExitNext, Scene, OneProducer
  <2>3. CASE ExitEnd
    BY <2>3 DEF ExitEnd
  <2> QED
    BY <2>1, <2>2, <2>3
<1>3. pc'[Rmmod] = fr /\ \A b \in Actors \ {Rmmod} : pc'[b] = pc[b]
  BY <1>1, <1>2, Became
<1>4. fr.at = "idle" \/ (fr.at \in {"walk", "free_irq"} /\ fr.pos = 0 /\ fr.q = 0)
  BY <1>2 DEF Frame, Idle
<1>5. pc[Rmmod].at # "free"
  BY DEF Scene, Parked, Idle, ExitBegin, ExitNext, ExitEnd, At
<1> QED
  BY <1>1, <1>3, <1>4, <1>5, StepRests

(* INIT_LIST_HEAD, and the reset of the counter.                            *)
LEMMA ResetKeeps ==
  ASSUME Scene, NEW p \in Procs, Reset(p)
  PROVE  Rests \/ (/\ HoldersStay /\ UNCHANGED allocated /\ pc'[Isr] = pc[Isr]
                   /\ next' = [next EXCEPT ![1] = 1] /\ prev' = [prev EXCEPT ![1] = 1])
<1>1. TypeOK /\ p \in Actors /\ p # Isr /\ Isr \in Actors /\ UNCHANGED allocated
  BY ActorsAre DEF Scene, Framed, Reset
<1>2. pc[p].at \in {"init", "zero"}
  BY DEF Reset, At
<1>3. pc[p] \in CallFrames /\ pc[p].fd = 1 /\ pc[p].pos = 0 /\ pc[p].q = 0
  BY <1>1, <1>2, OnScene DEF Scene, Lists, Chain, Held, Handed
<1>4. PICK l \in {"zero", "release"} :
        /\ Goto(p, l)
        /\ l = "release" => UNCHANGED <<next, prev>>
        /\ l = "zero" => next' = [next EXCEPT ![1] = 1] /\ prev' = [prev EXCEPT ![1] = 1]
  BY <1>3 DEF Reset
<1>5. CASE l = "release"
  BY <1>1, <1>2, <1>4, <1>5, GoneRests
<1>6. CASE l = "zero"
  <2>1. /\ pc'[p].at = "zero" /\ pc'[p].pos = 0 /\ pc'[p].q = 0
        /\ \A b \in Actors \ {p} : pc'[b] = pc[b]
    BY <1>1, <1>3, <1>4, <1>6, Went
  <2>2. ASSUME NEW b \in Actors
        PROVE  /\ Holding(b)' <=> Holding(b)
               /\ Holding(b) => pc'[b] = pc[b]
               /\ pc[b].at = "free" <=> pc'[b].at = "free"
               /\ Handed(b)'
    BY <1>2, <1>3, <2>1 DEF Holding, Handed, DropsOne, Scene, Lists, Chain, Held
  <2> QED
    BY <1>1, <1>4, <1>6, <2>1, <2>2 DEF HoldersStay
<1> QED
  BY <1>5, <1>6

(* The initialisation of the only list head by ku_pir_init.                 *)
LEMMA InitStepKeeps ==
  ASSUME Scene, InitQueues
  PROVE  /\ HoldersStay /\ UNCHANGED <<allocated, pc, data, got, jiffies>>
         /\ next' = [next EXCEPT ![1] = 1] /\ prev' = [prev EXCEPT ![1] = 1]
<1>1. /\ Fds = {1} /\ Cells = {1} \cup Nodes
      /\ next \in [Cells -> Cells] /\ prev \in [Cells -> Cells \cup {Poison}]
  BY OneHead DEF Scene, Framed
<1>2. UNCHANGED <<allocated, pc, data, got, jiffies>>
  BY DEF InitQueues, history
<1>3. next' = [next EXCEPT ![1] = 1] /\ prev' = [prev EXCEPT ![1] = 1]
  BY <1>1 DEF InitQueues
<1>4. \A b \in Actors : Handed(b)
  BY DEF Scene, Lists, Chain, Held
<1>5. HoldersStay
  BY <1>2, <1>4 DEF HoldersStay, Holding, Handed, DropsOne
<1> QED
  BY <1>2, <1>3, <1>5

(* The handler allocates a node, for its list, or to lose it.               *)
LEMMA NodeTaken ==
  ASSUME Scene, ku_pir_isr \/ Glitch
  PROVE  /\ HoldersStay /\ UNCHANGED <<next, prev>> /\ pc[Isr] = Idle
         /\ pc'[Isr].at \notin {"add2", "add3"}
         /\ \E n \in Nodes \ allocated : /\ allocated' = allocated \cup {n}
                                         /\ Bringing' => pc'[Isr].item = n
<1>1. TypeOK /\ Isr \in Actors /\ UNCHANGED <<next, prev>> /\ pc[Isr] = Idle
  BY ActorsAre DEF Scene, Framed, ku_pir_isr, Glitch
<1>2. CASE Glitch
  <2>1. pc' = pc
    BY <1>2 DEF Glitch
  <2>2. HoldersStay
    BY <2>1 DEF HoldersStay, Holding, Handed, DropsOne, Scene, Lists, Chain, Held
  <2> QED
    BY <1>1, <1>2, <2>1, <2>2 DEF Glitch, Bringing, Idle
<1>3. CASE ku_pir_isr
  <2>1. PICK n \in Nodes \ allocated :
          /\ allocated' = allocated \cup {n}
          /\ Become(Isr, [Frame("fd", "isr", 1) EXCEPT !.item = n])
    BY <1>3 DEF ku_pir_isr
  <2>2. /\ pc'[Isr] = [Frame("fd", "isr", 1) EXCEPT !.item = n]
        /\ \A b \in Actors \ {Isr} : pc'[b] = pc[b]
    BY <1>1, <2>1, Became
  <2>3. pc'[Isr].at = "fd" /\ pc'[Isr].item = n /\ pc'[Isr].pos = 0 /\ pc'[Isr].q = 0
    BY <2>2 DEF Frame
  <2>4. ASSUME NEW b \in Actors
        PROVE  /\ Holding(b)' <=> Holding(b)
               /\ Holding(b) => pc'[b] = pc[b]
               /\ pc[b].at = "free" <=> pc'[b].at = "free"
               /\ Handed(b)'
    <3>1. CASE b = Isr
      BY <1>1, <2>3, <3>1 DEF Holding, Handed, Idle
    <3>2. CASE b # Isr
      BY <2>2, <3>2 DEF Holding, Handed, DropsOne, Scene, Lists, Chain, Held
    <3> QED
      BY <3>1, <3>2
  <2> QED
    BY <1>1, <2>1, <2>3, <2>4 DEF HoldersStay
<1> QED
  BY <1>2, <1>3

(* An actor that no other one contends with is the only holder.             *)
LEMMA Alone ==
  ASSUME Scene, NEW a \in Actors, \A b \in Actors \ {a} : pc'[b] = pc[b],
         ~Contends(a, 1) \/ Holding(a)
  PROVE  OnlyHolder(a)
<1> SUFFICES ASSUME NEW b \in Actors \ {a}, Holding(b) PROVE FALSE
  BY DEF OnlyHolder
<1>1. pc[b].fd = 1
  BY OnScene DEF Holding
<1> QED
  BY <1>1 DEF Contends, Holding, Scene, Lists, Chain, Exclusive

(* What a frame holds after the step of a loop.                             *)
LEMMA WalkLeads ==
  ASSUME Scene, NEW a \in Actors, Walk(a), ~contended'
  PROVE  /\ UNCHANGED <<next, prev, allocated>> /\ OnlyHolder(a) /\ pc[a].at = "walk"
         /\ pc'[a].op = pc[a].op
         /\ pc'[a].item = pc[a].item
         /\ \/ Rests /\ (pc[a].q = 0 => next[1] = 1) /\ ~Holding(a)' /\ pc'[a].at \notin InLoop
            \/ LET x == IF pc[a].q = 0 THEN next[1] ELSE pc[a].q
               IN  /\ x # 1 /\ pc'[a].at = "unlink" /\ pc'[a].pos = x /\ pc'[a].q = next[x]
                   /\ Lists'
<1> DEFINE x == IF pc[a].q = 0 THEN next[1] ELSE pc[a].q
<1>1. /\ TypeOK /\ UNCHANGED <<next, prev, allocated>> /\ pc[a].at = "walk"
      /\ OneProducer /\ HeadWhole /\ FramesOK /\ Lists
  BY DEF Scene, Framed, Walk, At, memory
<1>2. /\ pc[a] \in CallFrames /\ Placed(pc[a]) /\ Owned(a, pc[a]) /\ pc[a].fd = 1
      /\ pc[a].op # "write" /\ (pc[a].op = "isr" <=> a = Isr)
  BY <1>1, OnScene
<1>3. pc[a].pos = 0 /\ (DropsOne(a) => pc[a].q = 0)
  BY <1>1 DEF Lists, Chain, Held, Handed
<1>4. /\ Live = {1} \cup allocated /\ allocated \subseteq Nodes /\ 1 \notin Nodes /\ 0 \notin Nodes
      /\ Cells = {1} \cup Nodes
  BY <1>1, OneHead
<1>5. ~Contends(a, 1) /\ a \in Actors
  BY <1>2 DEF Walk
<1>6. x \in Live
  <2>1. CASE pc[a].q = 0
    BY <1>1, <1>4, <2>1 DEF Lists, Linked, Closed
  <2>2. CASE pc[a].q # 0
    <3>1. Holding(a) /\ HolderOK(a)
      BY <1>1, <2>2 DEF Holding, Lists, Chain, Held
    <3>2. pc[a].q \in Cells
      BY <1>2, <2>2 DEF CallFrames
    <3> QED
      BY <1>1, <1>4, <2>2, <3>1, <3>2 DEF HolderOK, FirstEntry
  <2> QED
    BY <2>1, <2>2
<1>7. CASE x = 1 /\ Become(a, [pc[a] EXCEPT !.at = AfterLoop[pc[a].op], !.q = 0])
  <2> DEFINE l == AfterLoop[pc[a].op]
             z == 0
  <2>1. l \in {"release", "add", "init", "zero", "next"} /\ (a = Isr => l = "add")
    BY <1>1, <1>2, AfterLoops DEF Placed, CallFrames, Ops, InLoop, InDrop, InAdd, Leaving
  <2>2. /\ pc'[a] = [pc[a] EXCEPT !.at = l, !.q = z]
        /\ \A b \in Actors \ {a} : pc'[b] = pc[b]
    BY <1>1, <1>7, Became
  <2> HIDE DEF l, z
  <2>3. /\ pc'[a].at = l /\ pc'[a].pos = pc[a].pos /\ pc'[a].q = z /\ pc'[a].item = pc[a].item
        /\ pc'[a].op = pc[a].op
    BY <1>2, <2>2 DEF CallFrames
  <2>4. pc'[a].q = 0 /\ pc'[a].pos = 0
    BY <1>3, <2>3 DEF z
  <2>5. OnlyHolder(a)
    BY <1>5, <2>2, Alone
  <2>6. Rests
    BY <1>1, <2>1, <2>2, <2>3, <2>4, StepRests DEF Bringing
  <2>7. ~Holding(a)' /\ pc'[a].at \notin InLoop
    BY <2>1, <2>3 DEF Holding, InLoop
  <2> QED
    BY <1>1, <1>7, <2>3, <2>4, <2>5, <2>6, <2>7
<1>8. CASE x # 1 /\ Become(a, [pc[a] EXCEPT !.at = "unlink", !.pos = x, !.q = next[x]])
  <2> HIDE DEF x
  <2>1. /\ pc'[a] = [pc[a] EXCEPT !.at = "unlink", !.pos = x, !.q = next[x]]
        /\ \A b \in Actors \ {a} : pc'[b] = pc[b]
    BY <1>1, <1>8, Became
  <2>2. /\ pc'[a].at = "unlink" /\ pc'[a].pos = x /\ pc'[a].q = next[x]
        /\ pc'[a].item = pc[a].item /\ pc'[a].op = pc[a].op
    BY <1>2, <2>1 DEF CallFrames
  <2>3. OnlyHolder(a)
    BY <1>5, <2>1, Alone
  <2>4. StillBrings(a) /\ Handed(a)' /\ DropsOne(a)' = DropsOne(a)
    BY <1>1, <2>2 DEF StillBrings, Handed, DropsOne
  <2>5. Lists'
    BY <1>1, <1>2, <1>8, <2>2, <2>3, <2>4, WalkTakes DEF x
  <2> QED
    BY <1>1, <1>8, <2>2, <2>3, <2>5 DEF x
<1>9. \/ x = 1 /\ Become(a, [pc[a] EXCEPT !.at = AfterLoop[pc[a].op], !.q = 0])
      \/ x # 1 /\ Become(a, [pc[a] EXCEPT !.at = "unlink", !.pos = x, !.q = next[x]])
  BY <1>2, <1>6 DEF Walk
<1> QED
  BY <1>7, <1>8, <1>9

(* The first store of list_del_rcu: it alone holds the entry, and changes   *)
(* only a prev.                                                             *)
LEMMA UnlinkLeads ==
  ASSUME Scene, NEW a \in Actors, Unlink(a)
  PROVE  /\ UNCHANGED <<next, allocated>> /\ OnlyHolder(a) /\ pc[a].at = "unlink"
         /\ pc[a].pos \in Nodes
         /\ pc'[a].op = pc[a].op /\ pc'[a].item = pc[a].item
         /\ pc'[a].at = "free" /\ pc'[a].pos = pc[a].pos /\ pc'[a].q = pc[a].q
         /\ pc'[a].nxt = next[pc[a].pos] /\ Lists'
<1> DEFINE x == pc[a].pos
           y == next[x]
           z == prev[x]
<1>1. /\ TypeOK /\ UNCHANGED <<next, allocated>> /\ pc[a].at = "unlink"
      /\ OneProducer /\ HeadWhole /\ FramesOK /\ Lists
  BY DEF Scene, Framed, Unlink, At
<1>2. /\ pc[a] \in CallFrames /\ Placed(pc[a]) /\ Owned(a, pc[a])
      /\ pc[a].op # "write" /\ (pc[a].op = "isr" <=> a = Isr)
  BY <1>1, OnScene
<1>3. x \in Nodes /\ 0 \notin Nodes
  BY <1>1, OneHead DEF HeadWhole, OneProducer
<1>4. Holding(a) /\ HolderOK(a)
  BY <1>1, <1>3 DEF Holding, Lists, Chain, Held
<1>5. z = 1 /\ z # Poison
  BY <1>1, <1>4 DEF HolderOK, FirstEntry, Poison
<1>6. /\ Become(a, [pc[a] EXCEPT !.at = "free", !.prv = z, !.nxt = y])
      /\ prev' = IF y \in Live THEN [prev EXCEPT ![y] = z] ELSE prev
  BY <1>5 DEF Unlink
<1> HIDE DEF x, y, z
<1>7. /\ pc'[a] = [pc[a] EXCEPT !.at = "free", !.prv = z, !.nxt = y]
      /\ \A b \in Actors \ {a} : pc'[b] = pc[b]
  BY <1>1, <1>6, Became
<1>8. /\ pc'[a].at = "free" /\ pc'[a].pos = x /\ pc'[a].q = pc[a].q
      /\ pc'[a].item = pc[a].item /\ pc'[a].op = pc[a].op
      /\ pc'[a].prv = z /\ pc'[a].nxt = y
  BY <1>2, <1>7 DEF CallFrames, x
<1>9. OnlyHolder(a)
  BY <1>4, <1>7, Alone
<1>10. StillBrings(a) /\ Handed(a)' /\ DropsOne(a)' = DropsOne(a)
  BY <1>1, <1>8 DEF StillBrings, Handed, DropsOne
<1>11. Lists'
  BY <1>1, <1>6, <1>8, <1>9, <1>10, UnlinkBypasses DEF x, y, z
<1> QED
  BY <1>1, <1>3, <1>8, <1>9, <1>11 DEF x, y

(* The rest of list_del_rcu and kfree: the entry leaves the list and the    *)
(* allocated nodes.                                                         *)
LEMMA FreeLeads ==
  ASSUME Scene, NEW a \in Actors, Free(a)
  PROVE  /\ OnlyHolder(a) /\ pc[a].at = "free" /\ pc[a].pos \in allocated
         /\ next' = [next EXCEPT ![1] = pc[a].nxt, ![pc[a].pos] = pc[a].pos]
         /\ allocated' = allocated \ {pc[a].pos}
         /\ pc'[a].op = pc[a].op /\ pc'[a].item = pc[a].item /\ pc'[a].pos = 0
         /\ \/ DropsOne(a) /\ pc'[a].at = "dec" /\ pc'[a].q = 0
            \/ ~DropsOne(a) /\ pc'[a].at = "walk" /\ pc'[a].q = pc[a].q
         /\ Lists'
<1> DEFINE x == pc[a].pos
           y == pc[a].nxt
           l == IF DropsOne(a) THEN "dec" ELSE "walk"
           q == IF DropsOne(a) THEN 0 ELSE pc[a].q
           z == 0
<1>1. /\ TypeOK /\ pc[a].at = "free" /\ OneProducer /\ HeadWhole /\ FramesOK /\ Lists
      /\ next \in [Cells -> Cells] /\ Live = {1} \cup allocated
  BY OneHead DEF Scene, Framed, Free, At
<1>2. /\ pc[a] \in CallFrames /\ Placed(pc[a]) /\ Owned(a, pc[a]) /\ Holds(pc[a])
      /\ pc[a].op # "write" /\ (pc[a].op = "isr" <=> a = Isr)
  BY <1>1, OnScene
<1>3. Holding(a) /\ HolderOK(a)
  BY <1>1, FreersHold DEF Lists, Chain, Held
<1>4. x \in allocated /\ pc[a].prv = 1 /\ y \in Cells
  BY <1>1, <1>2, <1>3 DEF HolderOK, FirstEntry, Holds
<1>5. /\ Become(a, [pc[a] EXCEPT !.at = l, !.q = q, !.pos = z, !.prv = z, !.nxt = z])
      /\ next' = [(IF pc[a].prv \in Live THEN [next EXCEPT ![pc[a].prv] = y] ELSE next)
                    EXCEPT ![x] = x]
      /\ prev' = [prev EXCEPT ![x] = Poison]
      /\ allocated' = allocated \ {x}
  BY <1>4 DEF Free
<1>6. next' = [next EXCEPT ![1] = y, ![x] = x]
  BY <1>1, <1>4, <1>5
<1> HIDE DEF x, y, l, q, z
<1>7. /\ pc'[a] = [pc[a] EXCEPT !.at = l, !.q = q, !.pos = z, !.prv = z, !.nxt = z]
      /\ \A b \in Actors \ {a} : pc'[b] = pc[b]
  BY <1>1, <1>5, Became
<1>8. /\ pc'[a].at = l /\ pc'[a].pos = z /\ pc'[a].q = q
      /\ pc'[a].item = pc[a].item /\ pc'[a].op = pc[a].op
  BY <1>2, <1>7 DEF CallFrames
<1>9. OnlyHolder(a)
  BY <1>3, <1>7, Alone
<1>10. DropsOne(a)' = DropsOne(a) /\ pc'[a].pos = 0
  BY <1>8 DEF DropsOne, z
<1>11. \/ DropsOne(a) /\ pc'[a].at = "dec" /\ pc'[a].q = 0
       \/ ~DropsOne(a) /\ pc'[a].at = "walk" /\ pc'[a].q = pc[a].q
  BY <1>8 DEF l, q
<1>12. StillBrings(a) /\ Handed(a)'
  BY <1>1, <1>8, <1>10, <1>11 DEF StillBrings, Handed, DropsOne
<1>13. Lists'
  BY <1>1, <1>4, <1>5, <1>9, <1>10, <1>11, <1>12, FreeTakesOut DEF x, y
<1> QED
  BY <1>1, <1>4, <1>5, <1>6, <1>8, <1>9, <1>10, <1>11, <1>13 DEF x, y

(* A read that finds an entry becomes the only holder.                      *)
LEMMA PickLeads ==
  ASSUME Scene, NEW p \in Procs, Pick(p), ~contended'
  PROVE  /\ UNCHANGED <<next, prev, allocated>> /\ OnlyHolder(p) /\ pc[p].at = "pick"
         /\ pc[p].op = "read" /\ pc'[p].op = "read"
         /\ pc'[p].at = "copy" /\ pc'[p].pos = next[1] /\ Lists'
<1> DEFINE y == next[1]
<1>1. /\ TypeOK /\ UNCHANGED <<next, prev, allocated>> /\ pc[p].at = "pick" /\ p \in Actors
      /\ OneProducer /\ HeadWhole /\ FramesOK /\ Lists
  BY ActorsAre DEF Scene, Framed, Pick, At, memory
<1>2. /\ pc[p] \in CallFrames /\ Placed(pc[p]) /\ pc[p].fd = 1 /\ pc[p].q = 0
  BY <1>1, OnScene DEF Lists, Chain, Held, Handed
<1>3. pc[p].op = "read"
  BY <1>1, <1>2 DEF Placed, CallFrames, Ops, InLoop, InDrop, InAdd, Leaving
<1>4. Become(p, [pc[p] EXCEPT !.at = "copy", !.pos = y]) /\ ~Contends(p, 1)
  BY <1>2 DEF Pick
<1> HIDE DEF y
<1>5. /\ pc'[p] = [pc[p] EXCEPT !.at = "copy", !.pos = y]
      /\ \A b \in Actors \ {p} : pc'[b] = pc[b]
  BY <1>1, <1>4, Became
<1>6. pc'[p].at = "copy" /\ pc'[p].pos = y /\ pc'[p].q = 0 /\ pc'[p].op = "read"
  BY <1>2, <1>3, <1>5 DEF CallFrames
<1>7. OnlyHolder(p)
  BY <1>1, <1>4, <1>5, Alone
<1>8. Handed(p)' /\ DropsOne(p) /\ DropsOne(p)' = DropsOne(p)
  BY <1>3, <1>6 DEF Handed, DropsOne
<1>9. Lists'
  BY <1>1, <1>6, <1>7, <1>8, PickTakes DEF y
<1> QED
  BY <1>1, <1>3, <1>6, <1>7, <1>9 DEF y

(* The handler links its node.                                              *)
LEMMA AddLeads ==
  ASSUME Scene, NEW a \in Actors, AddTail(a)
  PROVE  /\ a = Isr /\ UNCHANGED allocated /\ pc[Isr].item \in Nodes /\ Lists'
         /\ \/ HandlerGoes("add", "add2") /\ next' = [next EXCEPT ![pc[Isr].item] = 1]
            \/ HandlerGoes("add2", "add3")
               /\ next' = IF pc[Isr].prv \in Live
                          THEN [next EXCEPT ![pc[Isr].prv] = pc[Isr].item] ELSE next
            \/ HandlerGoes("add3", "inc") /\ UNCHANGED next
<1> DEFINE x == pc[a].item
           w == prev[1]
           z == 0
<1>1. /\ TypeOK /\ UNCHANGED allocated /\ pc[a].at \in {"add", "add2", "add3"}
      /\ OneProducer /\ HeadWhole /\ FramesOK /\ Lists
  BY DEF Scene, Framed, AddTail, At
<1>2. /\ pc[a] \in CallFrames /\ Placed(pc[a]) /\ Holds(pc[a]) /\ pc[a].fd = 1
      /\ pc[a].op # "write" /\ (pc[a].op = "isr" <=> a = Isr)
      /\ pc[a].pos = 0 /\ pc[a].q = 0
  BY <1>1, OnScene DEF Lists, Chain, Held, Handed
<1>3. a = Isr /\ x \in Nodes
  BY <1>1, <1>2 DEF Placed, CallFrames, Ops, InLoop, InDrop, Leaving, Holds
<1>4. ASSUME NEW from \in {"add", "add2", "add3"}, NEW to \in {"add2", "add3", "inc"},
             pc[a].at = from, pc'[a].at = to, pc'[a].pos = 0, pc'[a].q = 0, pc'[a].item = x,
             \A b \in Actors \ {a} : pc'[b] = pc[b]
      PROVE  HandlerGoes(from, to)
  BY <1>3, <1>4 DEF HandlerGoes, Handed
<1>5. CASE pc[a].at = "add"
  <2>1. /\ Become(a, [pc[a] EXCEPT !.at = "add2", !.prv = w])
        /\ next' = [next EXCEPT ![x] = 1] /\ prev' = [prev EXCEPT ![x] = w]
    BY <1>2, <1>5 DEF AddTail, At
  <2> HIDE DEF w
  <2>2. /\ pc'[a] = [pc[a] EXCEPT !.at = "add2", !.prv = w]
        /\ \A b \in Actors \ {a} : pc'[b] = pc[b]
    BY <1>1, <2>1, Became
  <2>3. /\ pc'[a].at = "add2" /\ pc'[a].pos = 0 /\ pc'[a].q = 0 /\ pc'[a].item = x
        /\ pc'[a].prv = w
    BY <1>2, <2>2 DEF CallFrames
  <2>4. HandlerGoes("add", "add2")
    BY <1>4, <1>5, <2>2, <2>3
  <2>5. Lists'
    BY <1>1, <1>3, <2>1, <2>3, <2>4, AddOwn DEF w
  <2> QED
    BY <1>1, <1>3, <2>1, <2>4, <2>5
<1>6. CASE pc[a].at = "add2"
  <2>1. pc[a].prv # Poison
    BY <1>1, <1>6 DEF HeadWhole, OneProducer
  <2>2. /\ Become(a, [pc[a] EXCEPT !.at = "add3", !.prv = z]) /\ UNCHANGED prev
        /\ next' = IF pc[a].prv \in Live THEN [next EXCEPT ![pc[a].prv] = x] ELSE next
    BY <1>6, <2>1 DEF AddTail, At
  <2> HIDE DEF z
  <2>3. /\ pc'[a] = [pc[a] EXCEPT !.at = "add3", !.prv = z]
        /\ \A b \in Actors \ {a} : pc'[b] = pc[b]
    BY <1>1, <2>2, Became
  <2>4. pc'[a].at = "add3" /\ pc'[a].pos = 0 /\ pc'[a].q = 0 /\ pc'[a].item = x
    BY <1>2, <2>3 DEF CallFrames
  <2>5. HandlerGoes("add2", "add3")
    BY <1>4, <1>6, <2>3, <2>4
  <2>6. Lists'
    BY <1>1, <1>3, <2>2, <2>5, AddLast
  <2> QED
    BY <1>1, <1>3, <2>2, <2>5, <2>6
<1>7. CASE pc[a].at = "add3"
  <2>1. Goto(a, "inc") /\ prev' = [prev EXCEPT ![1] = x] /\ UNCHANGED next
    BY <1>2, <1>7 DEF AddTail, At
  <2>2. /\ pc'[a].at = "inc" /\ pc'[a].pos = 0 /\ pc'[a].q = 0 /\ pc'[a].item = x
        /\ \A b \in Actors \ {a} : pc'[b] = pc[b]
    BY <1>1, <1>2, <2>1, Went
  <2>3. HandlerGoes("add3", "inc")
    BY <1>4, <1>7, <2>2
  <2>4. Lists'
    BY <1>1, <1>3, <2>1, <2>3, AddHead
  <2> QED
    BY <1>1, <1>3, <2>1, <2>3, <2>4
<1> QED
  BY <1>1, <1>5, <1>6, <1>7

(***************************************************************************)
(* The invariant is inductive.                                             *)
(***************************************************************************)
LEMMA ContendedStays ==
  ASSUME [Next]_vars, ~contended'
  PROVE  ~contended
BY DEF Next, vars, history, ku_pir_open, ListStep, Premature, Walk, Unlink, Free, Decrement,
       Increment, Load, Store, AddTail, Wake, ThreadStep, Wait, Pick, Copy, Write, Full, Find,
       Take, Reset, ku_pir_release, Fault, Signal, ku_pir_isr, Glitch, Push, InitIrq, InitQueues,
       ExitBegin, ExitNext, ExitEnd

(* After a crash, and when the code is gone, nobody touches a list.         *)
LEMMA NothingRuns ==
  ASSUME ~Running, [Next]_vars
  PROVE  UNCHANGED <<next, prev, data, allocated, jiffies, got, module>>
BY DEF Next, vars, memory, gate, history, ku_pir_open, ListStep, Premature, Walk, Unlink, Free,
       Decrement, Increment, Load, Store, AddTail, Wake, ThreadStep, Wait, Pick, Copy, Write,
       Full, Find, Take, Reset, ku_pir_release, Fault, Signal, ku_pir_isr, Glitch, Push, At,
       InitIrq, InitQueues, ExitBegin, ExitNext, ExitEnd

(* After a crash of the machine, or rmmod, nothing runs again.              *)
LEMMA StaysStopped ==
  ASSUME Framed, ~Running, [Next]_vars
  PROVE  ~Running'
<1>1. CASE module = "unloaded"
  BY <1>1, NothingRuns DEF Running
<1>2. CASE module # "unloaded"
  <2>1. CASE UNCHANGED vars
    BY <2>1 DEF vars, gate, Running
  <2>2. CASE Next
    BY <1>2, <2>2 DEF Next, ku_pir_open, ListStep, Premature, Walk, Unlink, Free, Decrement,
       Increment, Load, Store, AddTail, Wake, ThreadStep, Wait, Pick, Copy, Write, Full, Find,
       Take, Reset, ku_pir_release, Fault, Signal, ku_pir_isr, Glitch, Push, At,
       InitIrq, InitQueues, ExitBegin, ExitNext, ExitEnd
  <2> QED
    BY <2>1, <2>2
<1> QED
  BY <1>1, <1>2

(* A step of a handler, a thread or rmmod that runs keeps the lists whole.  *)
LEMMA NextLists ==
  ASSUME Scene, [Next]_vars, ~contended'
  PROVE  Lists'
<1>1. TypeOK /\ OneProducer /\ HeadWhole /\ FramesOK /\ Lists /\ module # "unloaded"
  BY DEF Scene, Framed, Running
<1>2. Rests => Lists'
  BY <1>1, RestsKeepLists
<1>3. CASE UNCHANGED vars
  <2>1. Rests
    BY <1>3 DEF vars, memory, Rests
  <2> QED
    BY <1>2, <2>1
<1>4. ASSUME NEW a \in Actors, ListStep(a) PROVE Lists'
  BY <1>2, <1>4, WalkLeads, UnlinkLeads, FreeLeads, AddLeads, CountersRest, WakeRests,
     PrematureRests DEF ListStep
<1>5. ASSUME NEW p \in Procs, Reset(p) PROVE Lists'
  <2>1. CASE Rests
    BY <1>2, <2>1
  <2>2. CASE ~Rests
    BY <1>1, <1>5, <2>2, ResetKeeps, InitHead
  <2> QED
    BY <2>1, <2>2
<1>6. ASSUME NEW p \in Procs, ThreadStep(p) \/ Signal(p) PROVE Lists'
  <2>1. ~Write(p) /\ ~Fault(p)
    BY <1>1, NoWrite DEF Fault
  <2> QED
    BY <1>2, <1>5, <1>6, <2>1, CallRests, PickLeads, CopyRests DEF ThreadStep
<1>7. CASE ku_pir_isr \/ Glitch
  BY <1>1, <1>7, NodeTaken, NewNode
<1>8. CASE Push \/ ExitBegin \/ ExitNext \/ ExitEnd
  BY <1>2, <1>8, PushRests, ExitRests
<1>9. ASSUME NEW call \in Programs \cap (Procs \X Ops), NEW f \in Fds,
             ku_pir_open(call[1], call[2], f)
      PROVE  Lists'
  BY <1>2, <1>9, OpenRests
<1>10. CASE InitIrq
  <2>1. Rests
    BY <1>10 DEF InitIrq, memory, Rests
  <2> QED
    BY <1>2, <2>1
<1>11. CASE InitQueues
  BY <1>1, <1>11, InitStepKeeps, InitHead
<1> QED
  BY <1>3, <1>4, <1>6, <1>7, <1>8, <1>9, <1>10, <1>11 DEF Next

(* What a holder takes off is the first entry: its prev is the head.        *)
LEMMA UnlinksAreSafe ==
  ASSUME Scene
  PROVE  SafeUnlinks
<1> SUFFICES ASSUME NEW a \in Actors, pc[a].at = "unlink" PROVE prev[pc[a].pos] # Poison
  BY DEF SafeUnlinks
<1>1. TypeOK /\ OneProducer /\ pc[a].pos \in Nodes
  BY DEF Scene, Framed, HeadWhole, OneProducer
<1>2. Holding(a)
  BY <1>1, OneHead DEF Holding
<1>3. FirstEntry(pc[a].pos)
  BY <1>2 DEF Scene, Lists, Chain, Held, HolderOK
<1> QED
  BY <1>1, <1>3, OneHead DEF FirstEntry

ListsInv == Framed /\ Called /\ (~contended /\ Running => HeadWhole) /\ Parked /\ ListInv

(* The head stays one until two actors take entries off at the same time.   *)
LEMMA NextListsHead ==
  ASSUME OneProducer, ListsInv, [Next]_vars, ~contended', Running'
  PROVE  Scene /\ HeadWhole'
<1>1. ~contended /\ Running
  BY ContendedStays, StaysStopped DEF ListsInv
<1>2. Scene
  BY <1>1 DEF ListsInv, ListInv, Scene, Lists
<1> QED
  BY <1>2, UnlinksAreSafe, NextHead DEF Scene

(* The invariant of the lists holds when init requests the interrupt.       *)
LEMMA InitListsInv ==
  ASSUME OneProducer, Init
  PROVE  ListsInv
<1>1. Framed /\ TypeOK
  BY InitFramed DEF Framed
<1>2. \A a \in Actors : pc[a] = Idle /\ pc[a].at = "idle"
  BY DEF Init, Idle
<1>3. prev[1] # Poison /\ Isr \in Actors /\ Rmmod \in Actors /\ Procs \subseteq Actors
  BY ActorsAre DEF Init, Poison
<1>4. Called /\ HeadWhole /\ Parked
  BY <1>2, <1>3 DEF Called, HeadWhole, Parked
<1>5. /\ Live = {1} /\ allocated = {} /\ Cells = {1} \cup Nodes /\ 1 \notin Nodes
      /\ \A c \in Cells : next[c] = c /\ prev[c] = c
  BY <1>1, OneHead DEF Init, Cells
<1>6. Linked
  BY <1>5 DEF Linked, Closed, Single, Unlinked
<1>7. Exclusive /\ Held
  BY <1>2 DEF Exclusive, Held, Holding, Handed
<1>8. Back
  BY <1>5 DEF Back
<1>9. Brought /\ Tails
  BY <1>2, <1>3, <1>5 DEF Brought, Bringing, Tails, AtEnd
<1> QED
  BY <1>1, <1>4, <1>6, <1>7, <1>8, <1>9 DEF ListsInv, ListInv, Chain

(* Every step of the driver keeps the invariant of the lists.               *)
LEMMA NextListsInv ==
  ASSUME OneProducer, ListsInv, [Next]_vars
  PROVE  ListsInv'
<1>1. Framed' /\ Called' /\ (~contended' /\ Running' => HeadWhole') /\ Parked'
  BY NextFramed, NextCalled, NextListsHead, NextParked DEF ListsInv
<1>2. ASSUME ~contended' PROVE Linked' /\ (Running' => Chain')
  <2>1. ~contended
    BY <1>2, ContendedStays
  <2>2. CASE Running
    <3>1. Scene
      BY <2>1, <2>2 DEF ListsInv, ListInv, Scene, Lists
    <3> QED
      BY <1>2, <3>1, NextLists DEF Lists
  <2>3. CASE ~Running
    <3>1. ~Running' /\ UNCHANGED <<next, allocated>>
      BY <2>3, StaysStopped, NothingRuns DEF ListsInv
    <3>2. Linked
      BY <2>1 DEF ListsInv, ListInv
    <3> QED
      BY <3>1, <3>2 DEF Linked, Closed, Single, Unlinked, Live
  <2> QED
    BY <2>2, <2>3
<1> QED
  BY <1>1, <1>2 DEF ListsInv, ListInv

(***************************************************************************)
(* Following next from the head.                                           *)
(***************************************************************************)
Stride(c) == IF c \in Nodes THEN next[c] ELSE c

IsPath(k, s) ==
  /\ DOMAIN s = 0..k /\ s[0] = next[1]
  /\ \A i \in 1..k : s[i] = Stride(s[i-1])

(* Step(1) is such a path.                                                  *)
LEMMA StepIsPath ==
  ASSUME NEW N \in Nat, N = Cardinality(Nodes)
  PROVE  IsPath(N, Step(1))
<1> DEFINE Body(s, k) == [i \in 0..k |-> IF i = 0 THEN next[1]
                                         ELSE IF s[i-1] \in Nodes THEN next[s[i-1]] ELSE s[i-1]]
           S == {k \in Nat : \E s : s = Body(s, k)}
<1>1. 0 \in S
  <2> DEFINE s == [i \in 0..0 |-> next[1]]
  <2>1. s = Body(s, 0)
    OBVIOUS
  <2> QED
    BY <2>1
<1>2. ASSUME NEW k \in S \cap Nat PROVE k + 1 \in S
  <2>1. PICK s : s = Body(s, k)
    BY <1>2
  <2> DEFINE t == [i \in 0..(k + 1) |-> IF i = k + 1
                                        THEN IF s[k] \in Nodes THEN next[s[k]] ELSE s[k]
                                        ELSE s[i]]
  <2>2. ASSUME NEW i \in 0..(k + 1) PROVE t[i] = Body(t, k + 1)[i]
    <3>1. CASE i = k + 1
      <4>1. i # 0 /\ i - 1 = k /\ k \in 0..(k + 1) /\ k # k + 1
        BY <3>1
      <4>2. t[i - 1] = s[k]
        BY <4>1
      <4> QED
        BY <3>1, <4>1, <4>2
    <3>2. CASE i \in 0..k
      <4>1. t[i] = s[i] /\ s[i] = Body(s, k)[i]
        BY <2>1, <3>2
      <4>2. i # 0 => i - 1 \in 0..k /\ t[i - 1] = s[i - 1]
        BY <3>2
      <4> QED
        BY <3>2, <4>1, <4>2
    <3> QED
      BY <3>1, <3>2
  <2>3. t = Body(t, k + 1)
    <3> DEFINE u == Body(t, k + 1)
    <3>1. DOMAIN u = 0..(k + 1) /\ u = [i \in 0..(k + 1) |-> u[i]]
      OBVIOUS
    <3>2. DOMAIN t = 0..(k + 1) /\ t = [i \in 0..(k + 1) |-> t[i]]
      OBVIOUS
    <3> HIDE DEF t, u
    <3>3. \A i \in 0..(k + 1) : t[i] = u[i]
      BY <2>2 DEF u
    <3>4. t = u
      BY <3>1, <3>2, <3>3
    <3> QED
      BY <3>4 DEF u
  <2> HIDE DEF t
  <2> QED
    BY <2>3
<1>3. N \in S
  <2> HIDE DEF S
  <2> QED
    BY <1>1, <1>2, SetInduction
<1>4. \E s : s = Body(s, N)
  BY <1>3
<1>5. Step(1) = CHOOSE s : s = Body(s, N)
  BY DEF Step
<1>6. Step(1) = Body(Step(1), N)
  BY <1>4, <1>5
<1> DEFINE p == Step(1)
<1> HIDE DEF p
<1>7. p = Body(p, N)
  BY <1>6 DEF p
<1>8. DOMAIN p = 0..N /\ p[0] = next[1]
  BY <1>7
<1>9. ASSUME NEW i \in 1..N PROVE p[i] = Stride(p[i-1])
  <2>1. i \in 0..N /\ i # 0
    OBVIOUS
  <2> QED
    BY <1>7, <2>1 DEF Stride
<1> QED
  BY <1>8, <1>9 DEF IsPath, p

(* It stays in live cells and, as no two cells lead to the same entry, does *)
(* not come by an entry twice: after so many steps it is at the head.       *)
LEMMA PathReturns ==
  ASSUME TypeOK, OneProducer, Linked, NEW N \in Nat, N = Cardinality(Nodes),
         NEW s, IsPath(N, s)
  PROVE  s[N] = 1 /\ \A i \in 0..N : s[i] \in Live
<1>1. /\ Live = {1} \cup allocated /\ allocated \subseteq Nodes /\ 1 \notin Nodes
      /\ IsFiniteSet(Nodes)
  BY OneHead, KuPirAssumption
<1>2. \A i \in 0..N : s[i] \in Live
  <2> DEFINE S == {i \in Nat : i <= N => s[i] \in Live}
  <2>1. 0 \in S
    BY <1>1 DEF IsPath, Linked, Closed
  <2>2. ASSUME NEW i \in S \cap Nat PROVE i + 1 \in S
    <3> SUFFICES ASSUME i + 1 <= N PROVE s[i + 1] \in Live
      OBVIOUS
    <3>1. i <= N /\ i + 1 \in 1..N /\ (i + 1) - 1 = i
      OBVIOUS
    <3>2. s[i] \in Live /\ s[i + 1] = Stride(s[i])
      BY <2>2, <3>1 DEF IsPath
    <3> QED
      BY <3>2 DEF Stride, Linked, Closed
  <2>3. Nat \subseteq S
    <3> HIDE DEF S
    <3> QED
      BY <2>1, <2>2, SetInduction
  <2> QED
    BY <2>3
<1>3. ASSUME s[N] # 1 PROVE FALSE
  <2>1. \A i \in 0..N : s[i] \in Nodes
    <3> DEFINE S == {d \in Nat : d <= N => s[N - d] # 1}
    <3>1. 0 \in S
      BY <1>3
    <3>2. ASSUME NEW d \in S \cap Nat PROVE d + 1 \in S
      <4> SUFFICES ASSUME d + 1 <= N, s[N - (d + 1)] = 1 PROVE FALSE
        OBVIOUS
      <4>1. N - d \in 1..N /\ (N - d) - 1 = N - (d + 1) /\ d <= N
        OBVIOUS
      <4>2. s[N - d] = Stride(s[N - (d + 1)])
        BY <4>1 DEF IsPath
      <4> QED
        BY <1>1, <3>2, <4>1, <4>2 DEF Stride
    <3>3. Nat \subseteq S
      <4> HIDE DEF S
      <4> QED
        BY <3>1, <3>2, SetInduction
    <3> SUFFICES ASSUME NEW i \in 0..N PROVE s[i] # 1
      BY <1>1, <1>2
    <3>4. N - i \in Nat /\ N - i <= N /\ N - (N - i) = i
      OBVIOUS
    <3>5. N - i \in S
      BY <3>3, <3>4
    <3> QED
      BY <3>4, <3>5
  <2>2. \A i \in 1..N : s[i] = next[s[i-1]] /\ s[i-1] \in Nodes /\ s[i-1] \in Live
    <3> SUFFICES ASSUME NEW i \in 1..N
                 PROVE  s[i] = next[s[i-1]] /\ s[i-1] \in Nodes /\ s[i-1] \in Live
      OBVIOUS
    <3>1. i - 1 \in 0..N
      OBVIOUS
    <3> QED
      BY <1>2, <2>1, <3>1 DEF IsPath, Stride
  <2>3. \A i, j \in 0..N : i < j => s[i] # s[j]
    <3> DEFINE S == {i \in Nat : \A j \in 0..N : i < j => s[i] # s[j]}
    <3>1. 0 \in S
      <4> SUFFICES ASSUME NEW j \in 0..N, 0 < j, s[0] = s[j] PROVE FALSE
        OBVIOUS
      <4>1. j \in 1..N
        OBVIOUS
      <4>2. s[j] = next[s[j-1]] /\ s[j-1] \in Nodes /\ s[j-1] \in Live /\ s[j] \in Nodes
        BY <2>1, <2>2, <4>1
      <4>3. next[1] = next[s[j-1]] /\ next[1] \in Nodes /\ 1 \in Live
        BY <1>1, <4>2 DEF IsPath
      <4> QED
        BY <1>1, <4>2, <4>3 DEF Linked, Single
    <3>2. ASSUME NEW i \in S \cap Nat PROVE i + 1 \in S
      <4> SUFFICES ASSUME NEW j \in 0..N, i + 1 < j, s[i + 1] = s[j] PROVE FALSE
        OBVIOUS
      <4>1. /\ j \in 1..N /\ i + 1 \in 1..N /\ (i + 1) - 1 = i /\ j - 1 \in 0..N /\ i < j - 1
        OBVIOUS
      <4>2. /\ s[j] = next[s[j-1]] /\ s[j-1] \in Live /\ s[j] \in Nodes
            /\ s[i+1] = next[s[i]] /\ s[i] \in Live
        BY <2>1, <2>2, <4>1
      <4>3. s[i] = s[j-1]
        BY <4>2 DEF Linked, Single
      <4> QED
        BY <3>2, <4>1, <4>3
    <3>3. Nat \subseteq S
      <4> HIDE DEF S
      <4> QED
        BY <3>1, <3>2, SetInduction
    <3> QED
      BY <3>3
  <2>4. IsFiniteSet(0..N) /\ Cardinality(0..N) = N + 1
    <3>1. 0 \in Int /\ N \in Int /\ ~(0 > N) /\ N - 0 + 1 = N + 1
      OBVIOUS
    <3> QED
      BY <3>1, FS_Interval
  <2> DEFINE f == [i \in 0..N |-> s[i]]
  <2>5. f \in [0..N -> Nodes]
    BY <2>1
  <2>6. \E i, j \in 0..N : i # j /\ f[i] = f[j]
    <3> HIDE DEF f
    <3>1. Cardinality(Nodes) < Cardinality(0..N)
      BY <2>4
    <3> QED
      BY <1>1, <2>4, <2>5, <3>1, FS_PigeonHole
  <2>7. PICK i \in 0..N, j \in 0..N : i # j /\ s[i] = s[j]
    BY <2>6
  <2>8. i < j \/ j < i
    BY <2>7
  <2> QED
    BY <2>3, <2>7, <2>8
<1> QED
  BY <1>2, <1>3

(***************************************************************************)
(* However opens, reads, flushes, closes and rmmod interleave with the     *)
(* handler, until two of them take entries off the list at the same time   *)
(* next leads from the head through allocated entries back to it, though   *)
(* INIT_LIST_HEAD, and the handler's three stores, race with all of them.  *)
(***************************************************************************)
THEOREM ListsHold == OneProducer /\ Spec => []ListsWellFormed
<1>1. OneProducer /\ Init => ListsInv
  BY InitListsInv
<1>2. OneProducer /\ ListsInv /\ [Next]_vars => ListsInv'
  BY NextListsInv
<1>3. OneProducer /\ ListsInv => ListsWellFormed
  <2> SUFFICES ASSUME OneProducer, ListsInv, ~contended
               PROVE  \A f \in Fds : /\ Step(f)[Cardinality(Nodes)] = f
                                     /\ \A i \in DOMAIN Step(f) : Step(f)[i] \in allocated \cup {f}
    BY DEF ListsWellFormed
  <2>1. TypeOK /\ Linked
    BY DEF ListsInv, ListInv, Framed
  <2>2. PICK N \in Nat : N = Cardinality(Nodes)
    BY KuPirAssumption, FS_CardinalityType
  <2>3. IsPath(N, Step(1))
    BY <2>2, StepIsPath
  <2>4. Step(1)[N] = 1 /\ \A i \in 0..N : Step(1)[i] \in Live
    BY <2>1, <2>2, <2>3, PathReturns
  <2>5. Fds = {1} /\ Live = {1} \cup allocated
    BY <2>1, OneHead
  <2> QED
    BY <2>2, <2>3, <2>4, <2>5 DEF IsPath
<1>4. OneProducer => OneProducer'
  BY DEF OneProducer
<1> QED
  BY <1>1, <1>2, <1>3, <1>4, PTL DEF Spec

(***************************************************************************)
(* The order of the entries.  LastGot is the last sensor entry that a      *)
(* thread was delivered; an entry is new to it if it was detected later,   *)
(* or at the end of the clock.                                             *)
(***************************************************************************)
LastGot(p) == IF got[p].now > 0 THEN got[p].now ELSE got[p].last
New(p, x) == data[x] > LastGot(p) \/ data[x] = MaxTime

(* A read that takes out what it has delivered.                             *)
Mid(p) == pc[p].at \in InLoop /\ pc[p].op = "read"
Unread(p, x) == IF Mid(p) THEN data[x] >= LastGot(p) ELSE New(p, x)

Newest(x) == /\ \A n \in Nodes \ {x} : data[n] < data[x] \/ data[x] = MaxTime
             /\ \A p \in Procs : New(p, x)

Ages == /\ \A n \in Nodes : data[n] <= jiffies
        /\ \A p \in Procs : LastGot(p) <= jiffies
        /\ Bringing => Newest(pc[Isr].item)

(* Each entry is followed by a later one.                                   *)
Sorted == \A d \in allocated :
            next[d] \in Nodes /\ next[d] # d => data[d] < data[next[d]] \/ data[next[d]] = MaxTime

(* The first entry, and what is, or will be, the first for those who take   *)
(* entries out, are new to every thread, but for the one that a read has    *)
(* delivered and takes out.                                                 *)
HeadNew(p) == next[1] \in Nodes => Unread(p, next[1])

TakesNew(p, a) ==
  /\ pc[a].at = "unlink" => Unread(p, pc[a].pos)
  /\ pc[a].at = "free" /\ pc[a].nxt \in Nodes => New(p, pc[a].nxt)
  /\ pc[a].at = "walk" /\ pc[a].q \in Nodes => New(p, pc[a].q)

CopiesNew(p) ==
  pc[p].at = "copy" /\ pc[p].pos \in Nodes =>
    /\ New(p, pc[p].pos)
    /\ next[1] \in Nodes => data[next[1]] >= data[pc[p].pos]

ReadOn == \A p \in Procs : HeadNew(p) /\ CopiesNew(p) /\ \A a \in Actors : TakesNew(p, a)

Ordered == Ages /\ Sorted /\ ReadOn

OrderInv == InOrder /\ (~contended /\ Running => Ordered)

(* The range of the clock and of what is delivered.                         *)
LEMMA TimeFacts ==
  ASSUME TypeOK, NEW p \in Procs
  PROVE  /\ LastGot(p) \in 0..MaxTime /\ MaxTime \in Nat /\ MaxTime > 0
         /\ jiffies \in Nat /\ jiffies <= MaxTime
         /\ \A x \in Nodes : data[x] \in Int /\ data[x] >= -2 /\ data[x] <= MaxTime
<1>1. got[p] \in [now: {UserEntry, Junk} \cup (0..MaxTime), last: 0..MaxTime]
  BY DEF TypeOK
<1>2. MaxTime \in Nat /\ MaxTime > 0 /\ jiffies \in 0..MaxTime
  BY KuPirAssumption DEF TypeOK
<1>3. got[p].now \in {-1, -2} \cup (0..MaxTime) /\ got[p].last \in 0..MaxTime
  BY <1>1 DEF UserEntry, Junk
<1>4. LastGot(p) \in 0..MaxTime
  BY <1>2, <1>3 DEF LastGot
<1>5. ASSUME NEW x \in Nodes PROVE data[x] \in Int /\ data[x] >= -2 /\ data[x] <= MaxTime
  BY <1>2 DEF TypeOK, UserEntry, Junk
<1> QED
  BY <1>2, <1>4, <1>5

(* What is new is not older than what was delivered.                        *)
LEMMA NewIsUnread ==
  ASSUME TypeOK, NEW p \in Procs, NEW x \in Nodes, New(p, x)
  PROVE  data[x] >= LastGot(p) /\ Unread(p, x)
<1>1. data[x] >= LastGot(p)
  BY TimeFacts DEF New
<1> QED
  BY <1>1 DEF Unread

(* What a read has still to take out is not older than what it delivered.   *)
LEMMA UnreadIsNotOlder ==
  ASSUME TypeOK, NEW p \in Procs, NEW x \in Nodes, Unread(p, x)
  PROVE  data[x] >= LastGot(p)
BY NewIsUnread DEF Unread

(* What is said of entries and readings stays true while they stay.         *)
LEMMA SameTimes ==
  ASSUME UNCHANGED <<data, got>>
  PROVE  /\ \A p : LastGot(p)' = LastGot(p)
         /\ \A p, x : New(p, x)' <=> New(p, x)
         /\ \A x : Newest(x)' <=> Newest(x)
BY DEF LastGot, New, Newest

(* The ages stay true while no entry is written and nothing is delivered.   *)
LEMMA SameAges ==
  ASSUME UNCHANGED <<data, got, jiffies>>, Ages,
         Bringing' => Bringing /\ pc'[Isr].item = pc[Isr].item
  PROVE  Ages'
BY SameTimes DEF Ages

(* Those who hold nothing take nothing.                                     *)
LEMMA TakesNothing ==
  ASSUME OneProducer, HeadWhole', NEW a \in Actors, ~Holding(a)'
  PROVE  /\ \A p : TakesNew(p, a)'
         /\ pc'[a].at = "copy" => pc'[a].pos \notin Nodes
<1>1. 0 \notin Nodes
  BY KuPirAssumption
<1> QED
  BY <1>1 DEF TakesNew, Holding, HeadWhole, OneProducer

(***************************************************************************)
(* Steps that change neither entries nor readings.                         *)
(***************************************************************************)
(* A read does not stop taking out, unless the list is empty and nobody     *)
(* takes anything.                                                          *)
StaysMid ==
  \/ \A p \in Procs : Mid(p) => Mid(p)'
  \/ next[1] \notin Nodes /\ \A a \in Actors : ~Holding(a)'

(* What is unread stays so while nothing is delivered.                      *)
LEMMA UnreadKept ==
  ASSUME TypeOK, UNCHANGED <<data, got>>, NEW p \in Procs, Mid(p) => Mid(p)',
         NEW x \in Nodes, Unread(p, x)
  PROVE  Unread(p, x)'
<1>1. data[x] >= LastGot(p)
  BY UnreadIsNotOlder
<1>2. LastGot(p)' = LastGot(p) /\ (New(p, x)' <=> New(p, x)) /\ data'[x] = data[x]
  BY SameTimes
<1> QED
  BY <1>1, <1>2 DEF Unread

(* Steps that change no link keep the order.                                *)
LEMMA RestsOrdered ==
  ASSUME Scene, Ordered, Rests, UNCHANGED <<data, got, jiffies>>, StaysMid,
         HeadWhole'
  PROVE  Ordered'
<1>1. TypeOK /\ OneProducer /\ HeadWhole
  BY DEF Scene, Framed, OneProducer
<1>2. UNCHANGED <<next, prev, allocated>>
  BY DEF Rests
<1>3. \A b \in Actors : Holding(b)' => pc'[b] = pc[b]
  BY DEF Rests, PutsDown
<1>4. Ages'
  <2>1. Bringing' => Bringing /\ pc'[Isr].item = pc[Isr].item
    BY DEF Rests, Bringing
  <2> QED
    BY <2>1, SameAges DEF Ordered
<1>5. Sorted'
  BY <1>2 DEF Ordered, Sorted
<1>6. ASSUME NEW p \in Procs PROVE HeadNew(p)' /\ CopiesNew(p)' /\ \A a \in Actors : TakesNew(p, a)'
  <2>1. p \in Actors /\ HeadNew(p) /\ CopiesNew(p) /\ \A a \in Actors : TakesNew(p, a)
    BY ActorsAre DEF Ordered, ReadOn
  <2>2. \A x : New(p, x)' <=> New(p, x)
    BY SameTimes
  <2>3. CASE Mid(p) => Mid(p)'
    <3>1. HeadNew(p)'
      BY <1>1, <1>2, <2>1, <2>3, UnreadKept DEF HeadNew
    <3>2. ASSUME NEW a \in Actors PROVE TakesNew(p, a)'
      <4>1. CASE Holding(a)'
        <5>1. pc'[a] = pc[a] /\ (pc[a].at = "unlink" => pc[a].pos \in Nodes)
          BY <1>1, <1>3, <4>1 DEF HeadWhole, OneProducer
        <5>2. pc[a].at = "unlink" => Unread(p, pc[a].pos)'
          BY <1>1, <2>1, <2>3, <5>1, UnreadKept DEF TakesNew
        <5> QED
          BY <2>1, <2>2, <5>1, <5>2 DEF TakesNew
      <4>2. CASE ~Holding(a)'
        BY <1>1, <4>2, TakesNothing
      <4> QED
        BY <4>1, <4>2
    <3>3. CopiesNew(p)'
      <4>1. CASE pc'[p].at = "copy" /\ pc'[p].pos \in Nodes
        <5>1. Holding(p)'
          BY <1>1, <4>1, OneHead DEF Holding
        <5>2. pc'[p] = pc[p]
          BY <1>3, <2>1, <5>1
        <5> QED
          BY <1>2, <2>1, <2>2, <5>2 DEF CopiesNew
      <4> QED
        BY <4>1 DEF CopiesNew
    <3> QED
      BY <3>1, <3>2, <3>3
  <2>4. CASE ~(Mid(p) => Mid(p)')
    <3>1. next[1] \notin Nodes /\ \A a \in Actors : ~Holding(a)'
      BY <2>4 DEF StaysMid
    <3>2. ASSUME NEW a \in Actors PROVE TakesNew(p, a)' /\ (pc'[a].at = "copy" => pc'[a].pos \notin Nodes)
      <4>1. ~Holding(a)'
        BY <3>1
      <4> QED
        BY <1>1, <4>1, TakesNothing
    <3> QED
      BY <1>2, <2>1, <3>1, <3>2 DEF HeadNew, CopiesNew
  <2> QED
    BY <2>3, <2>4
<1> QED
  BY <1>4, <1>5, <1>6 DEF Ordered, ReadOn

(* INIT_LIST_HEAD keeps the order of what is left and of what a holder      *)
(* holds.                                                                   *)
LEMMA EmptiedOrdered ==
  ASSUME Scene, Ordered, UNCHANGED <<allocated, data, got, jiffies>>, pc'[Isr] = pc[Isr],
         next' = [next EXCEPT ![1] = 1],
         \A b \in Actors : \/ pc'[b] = pc[b]
                           \/ pc[b].at \notin InLoop /\ pc'[b].at \notin InLoop \cup {"copy"}
  PROVE  Ordered'
<1>1. TypeOK /\ OneProducer /\ HeadWhole
  BY DEF Scene, Framed
<1>2. /\ allocated \subseteq Nodes /\ 1 \notin Nodes /\ 0 \notin Nodes
      /\ next'[1] = 1 /\ \A c \in Nodes : next'[c] = next[c]
  BY <1>1, OneHead
<1>3. Ages'
  BY SameAges DEF Ordered, Bringing
<1>4. Sorted'
  BY <1>2 DEF Ordered, Sorted
<1>5. ASSUME NEW r \in Procs PROVE HeadNew(r)' /\ CopiesNew(r)' /\ \A a \in Actors : TakesNew(r, a)'
  <2>1. r \in Actors /\ CopiesNew(r) /\ \A a \in Actors : TakesNew(r, a)
    BY ActorsAre DEF Ordered, ReadOn
  <2>2. \A x : (New(r, x)' <=> New(r, x)) /\ LastGot(r)' = LastGot(r)
    BY SameTimes
  <2>3. Mid(r)' <=> Mid(r)
    BY <2>1 DEF Mid
  <2>4. ASSUME NEW a \in Actors PROVE TakesNew(r, a)'
    <3>1. CASE pc'[a] = pc[a]
      BY <2>1, <2>2, <2>3, <3>1 DEF TakesNew, Unread
    <3>2. CASE pc'[a] # pc[a]
      BY <3>2 DEF TakesNew, InLoop
    <3> QED
      BY <3>1, <3>2
  <2>5. CopiesNew(r)'
    <3>1. CASE pc'[r] = pc[r]
      BY <1>2, <2>1, <2>2, <3>1 DEF CopiesNew
    <3>2. CASE pc'[r] # pc[r]
      BY <2>1, <3>2 DEF CopiesNew
    <3> QED
      BY <3>1, <3>2
  <2> QED
    BY <1>2, <2>4, <2>5 DEF HeadNew
<1> QED
  BY <1>3, <1>4, <1>5 DEF Ordered, ReadOn

(* So do INIT_LIST_HEAD of a call and of init.                              *)
LEMMA HeadOrdered ==
  ASSUME Scene, Ordered, NEW p \in Procs, Reset(p), ~Rests
  PROVE  Ordered'
<1>1. /\ UNCHANGED allocated /\ pc'[Isr] = pc[Isr]
      /\ next' = [next EXCEPT ![1] = 1]
  BY ResetKeeps
<1>2. UNCHANGED <<data, got, jiffies>> /\ pc[p].at \in {"init", "zero"}
  BY DEF Reset, At, history
<1>3. TypeOK /\ p \in Actors
  BY ActorsAre DEF Scene, Framed
<1>4. \A b \in Actors \ {p} : pc'[b] = pc[b]
  BY <1>3 DEF Reset, Goto, TypeOK
<1>5. pc'[p].at \notin InLoop \cup {"copy"}
  <2>1. pc[p] \in CallFrames
    BY <1>2, <1>3, OnScene
  <2>2. \E l \in {"zero", "release"} : Goto(p, l)
    BY DEF Reset
  <2> QED
    BY <1>3, <2>1, <2>2, Went DEF InLoop
<1>6. pc[p].at \notin InLoop
  BY <1>2 DEF InLoop
<1> QED
  BY <1>1, <1>2, <1>4, <1>5, <1>6, EmptiedOrdered

LEMMA InitStepOrdered ==
  ASSUME Scene, Ordered, InitIrq \/ InitQueues, HeadWhole'
  PROVE  Ordered'
<1>1. CASE InitIrq
  <2>1. Rests /\ UNCHANGED <<data, got, jiffies>> /\ StaysMid
    BY <1>1 DEF InitIrq, memory, Rests, StaysMid, Mid
  <2> QED
    BY <2>1, RestsOrdered
<1>2. CASE InitQueues
  BY <1>2, InitStepKeeps, EmptiedOrdered
<1> QED
  BY <1>1, <1>2

(* A node that the handler does not use.                                    *)
LEMMA GlitchOrdered ==
  ASSUME Scene, Ordered, Glitch
  PROVE  Ordered'
<1>1. /\ UNCHANGED <<next, data, got, jiffies, pc>>
      /\ \E n \in Nodes \ allocated : allocated' = allocated \cup {n}
  BY DEF Glitch, history
<1>2. PICK n \in Nodes \ allocated : allocated' = allocated \cup {n}
  BY <1>1
<1>3. next[n] = n
  BY DEF Scene, Lists, Linked, Unlinked
<1>4. Sorted'
  BY <1>1, <1>2, <1>3 DEF Ordered, Sorted
<1>5. Ages'
  BY <1>1, SameAges DEF Ordered, Bringing
<1>6. ReadOn'
  BY <1>1 DEF Ordered, ReadOn, HeadNew, TakesNew, CopiesNew, Unread, Mid, New, LastGot
<1> QED
  BY <1>4, <1>5, <1>6 DEF Ordered

(* The handler's new entry is the latest.                                   *)
LEMMA IsrOrdered ==
  ASSUME Scene, Ordered, ku_pir_isr
  PROVE  Ordered'
<1>1. /\ TypeOK /\ OneProducer /\ HeadWhole /\ FramesOK /\ Lists /\ pc[Isr] = Idle /\ Isr \in Actors
      /\ UNCHANGED <<next, got>>
      /\ jiffies' = IF jiffies < MaxTime THEN jiffies + 1 ELSE MaxTime
  BY ActorsAre DEF Scene, Framed, ku_pir_isr, history
<1>2. PICK n \in Nodes \ allocated :
        /\ allocated' = allocated \cup {n}
        /\ data' = [data EXCEPT ![n] = jiffies']
        /\ Become(Isr, [Frame("fd", "isr", 1) EXCEPT !.item = n])
  BY DEF ku_pir_isr
<1>3. /\ pc'[Isr] = [Frame("fd", "isr", 1) EXCEPT !.item = n]
      /\ \A b \in Actors \ {Isr} : pc'[b] = pc[b]
  BY <1>1, <1>2, Became
<1>4. pc'[Isr].at = "fd" /\ pc'[Isr].item = n /\ pc[Isr].at = "idle"
  BY <1>1, <1>3 DEF Frame, Idle
<1>5. data'[n] = jiffies' /\ \A m : m # n => data'[m] = data[m]
  BY <1>1, <1>2 DEF TypeOK
<1>6. /\ Live = {1} \cup allocated /\ allocated \subseteq Nodes /\ 1 \notin Nodes /\ 0 \notin Nodes
      /\ next[n] = n /\ \A c \in Live : next[c] \in Live /\ next[c] # n
  BY <1>1, OneHead DEF Lists, Linked, Unlinked, Closed
<1>7. jiffies \in Nat /\ jiffies <= MaxTime /\ MaxTime \in Nat /\ jiffies' \in Nat /\ jiffies' >= jiffies
      /\ (jiffies' > jiffies \/ jiffies' = MaxTime)
  BY <1>1, KuPirAssumption DEF TypeOK
<1>8. Ages'
  <2>1. ASSUME NEW m \in Nodes PROVE data'[m] <= jiffies'
    <3>1. data[m] <= jiffies /\ data[m] \in Int
      BY <1>1 DEF Ordered, Ages, TypeOK, UserEntry, Junk
    <3> QED
      BY <1>5, <1>7, <3>1
  <2>2. ASSUME NEW p \in Procs PROVE LastGot(p)' <= jiffies' /\ New(p, n)'
    <3>1. LastGot(p) <= jiffies /\ LastGot(p) \in Int /\ LastGot(p)' = LastGot(p)
      BY <1>1, TimeFacts DEF Ordered, Ages, LastGot
    <3> QED
      BY <1>5, <1>7, <3>1 DEF New
  <2>3. ASSUME NEW m \in Nodes \ {n} PROVE data'[m] < data'[n] \/ data'[n] = MaxTime
    <3>1. data[m] <= jiffies /\ data[m] \in Int
      BY <1>1 DEF Ordered, Ages, TypeOK, UserEntry, Junk
    <3> QED
      BY <1>5, <1>7, <3>1
  <2> QED
    BY <1>4, <2>1, <2>2, <2>3 DEF Ages, Newest
<1>9. Sorted'
  <2> SUFFICES ASSUME NEW d \in allocated', next[d] \in Nodes, next[d] # d
               PROVE  data'[d] < data'[next[d]] \/ data'[next[d]] = MaxTime
    BY <1>1 DEF Sorted
  <2>1. d \in allocated /\ d # n /\ next[d] # n
    BY <1>2, <1>6
  <2> QED
    BY <1>5, <2>1 DEF Ordered, Sorted
<1>10. ASSUME NEW p \in Procs
       PROVE  HeadNew(p)' /\ CopiesNew(p)' /\ \A a \in Actors : TakesNew(p, a)'
  <2>1. /\ p \in Actors /\ p # Isr /\ HeadNew(p) /\ CopiesNew(p) /\ \A a \in Actors : TakesNew(p, a)
    BY ActorsAre DEF Ordered, ReadOn
  <2>2. LastGot(p)' = LastGot(p) /\ (Mid(p)' <=> Mid(p))
    BY <1>1, <1>3, <2>1 DEF LastGot, Mid
  <2>3. \A x : x # n => (New(p, x)' <=> New(p, x)) /\ (Unread(p, x)' <=> Unread(p, x))
    BY <1>5, <2>2 DEF New, Unread
  <2>4. HeadNew(p)'
    BY <1>1, <1>6, <2>1, <2>3 DEF HeadNew
  <2>5. ASSUME NEW a \in Actors, Holding(a) PROVE Apart(a, n) /\ Handed(a)
    BY <1>1, <2>5, HoldersPointToLive DEF Lists, Chain, Held
  <2>6. ASSUME NEW a \in Actors PROVE TakesNew(p, a)'
    <3>1. CASE a = Isr
      BY <1>4, <3>1 DEF TakesNew
    <3>2. CASE a # Isr
      <4>1. pc'[a] = pc[a] /\ TakesNew(p, a)
        BY <1>3, <2>1, <3>2
      <4>2. pc[a].at = "unlink" => pc[a].pos # n
        BY <1>1, <1>6, <2>5 DEF Holding, HeadWhole, OneProducer, Apart
      <4>3. pc[a].at = "free" => pc[a].nxt # n
        BY <1>1, <2>5, FreersHold DEF Apart
      <4>4. pc[a].at = "walk" => pc[a].q # n
        BY <1>6, <2>5 DEF Holding, Handed, Apart
      <4> QED
        BY <2>3, <4>1, <4>2, <4>3, <4>4 DEF TakesNew
    <3> QED
      BY <3>1, <3>2
  <2>7. CopiesNew(p)'
    <3>1. pc'[p] = pc[p]
      BY <1>3, <2>1
    <3>2. pc[p].at = "copy" /\ pc[p].pos \in Nodes => pc[p].pos # n
      BY <1>6, <2>1, <2>5 DEF Holding, Apart
    <3> QED
      BY <1>1, <1>5, <1>6, <2>1, <2>3, <3>1, <3>2 DEF CopiesNew
  <2> QED
    BY <2>4, <2>6, <2>7
<1> QED
  BY <1>8, <1>9, <1>10 DEF Ordered, ReadOn

(* The handler's entry goes to the end of the list, or, if the list is empty *)
(* or the handler's last entry has been freed meanwhile, to its head or     *)
(* nowhere: it is later than all.                                           *)
LEMMA AddOrdered ==
  ASSUME Scene, Ordered, NEW a \in Actors, AddTail(a)
  PROVE  Ordered'
<1> DEFINE x == pc[Isr].item
           w == pc[Isr].prv
<1>1. /\ a = Isr /\ UNCHANGED allocated /\ x \in Nodes
      /\ \/ HandlerGoes("add", "add2") /\ next' = [next EXCEPT ![x] = 1]
         \/ HandlerGoes("add2", "add3")
            /\ next' = IF w \in Live THEN [next EXCEPT ![w] = x] ELSE next
         \/ HandlerGoes("add3", "inc") /\ UNCHANGED next
  BY AddLeads
<1>2. /\ TypeOK /\ OneProducer /\ HeadWhole /\ Lists /\ UNCHANGED <<data, got, jiffies>>
      /\ Isr \in Actors
  BY ActorsAre DEF Scene, Framed, AddTail, history
<1>3. /\ Live = {1} \cup allocated /\ allocated \subseteq Nodes /\ 1 \notin Nodes /\ 0 \notin Nodes
      /\ next \in [Cells -> Cells] /\ Cells = {1} \cup Nodes
  BY <1>2, OneHead
<1>4. /\ pc[Isr].at \in {"add", "add2", "add3"} /\ pc'[Isr].at \in {"add2", "add3", "inc"}
      /\ \A b \in Actors \ {Isr} : pc'[b] = pc[b]
      /\ pc'[Isr].item = x
      /\ Bringing' => Bringing
  BY <1>1 DEF HandlerGoes, Bringing
<1>5. Ages'
  BY <1>2, <1>4, SameAges DEF Ordered
<1>6. (\A c \in Cells : next'[c] = next[c] \/ next'[c] = 1 \/ (Bringing /\ next'[c] = x))
      /\ (next'[1] = next[1] \/ (Bringing /\ next'[1] = x))
  <2>1. CASE HandlerGoes("add", "add2") /\ next' = [next EXCEPT ![x] = 1]
    BY <1>1, <1>3, <2>1
  <2>2. CASE HandlerGoes("add2", "add3") /\ next' = IF w \in Live THEN [next EXCEPT ![w] = x] ELSE next
    BY <1>1, <1>3, <2>2 DEF HandlerGoes, Bringing
  <2>3. CASE UNCHANGED next
    BY <2>3
  <2> QED
    BY <1>1, <2>1, <2>2, <2>3
<1>7. ASSUME Bringing
      PROVE  /\ \A n \in Nodes \ {x} : data[n] < data[x] \/ data[x] = MaxTime
             /\ \A p \in Procs : New(p, x)
             /\ Fresh(x)
  BY <1>2, <1>7 DEF Ordered, Ages, Newest, Lists, Chain, Brought
<1>8. Sorted'
  <2> SUFFICES ASSUME NEW d \in allocated, next'[d] \in Nodes, next'[d] # d
               PROVE  data[next'[d]] = MaxTime \/ data[d] < data[next'[d]]
    BY <1>1, <1>2 DEF Sorted
  <2>1. next'[d] = next[d] \/ (Bringing /\ next'[d] = x)
    BY <1>3, <1>6
  <2> QED
    BY <1>3, <1>7, <2>1 DEF Ordered, Sorted
<1>9. ASSUME NEW p \in Procs
      PROVE  HeadNew(p)' /\ CopiesNew(p)' /\ \A b \in Actors : TakesNew(p, b)'
  <2>1. /\ p \in Actors /\ p # Isr /\ HeadNew(p) /\ CopiesNew(p) /\ \A b \in Actors : TakesNew(p, b)
    BY ActorsAre DEF Ordered, ReadOn
  <2>2. pc'[p] = pc[p]
    BY <1>4, <2>1
  <2>3. \A z : (New(p, z)' <=> New(p, z)) /\ (Unread(p, z)' <=> Unread(p, z))
    BY <1>2, <2>2 DEF New, Unread, Mid, LastGot
  <2>4. HeadNew(p)'
    <3>1. CASE next'[1] = next[1]
      BY <2>1, <2>3, <3>1 DEF HeadNew
    <3>2. CASE Bringing /\ next'[1] = x
      <4>1. Unread(p, x)
        BY <1>1, <1>2, <1>7, <3>2, NewIsUnread
      <4> QED
        BY <2>3, <3>2, <4>1 DEF HeadNew
    <3> QED
      BY <1>6, <3>1, <3>2
  <2>5. ASSUME NEW b \in Actors PROVE TakesNew(p, b)'
    <3>1. CASE b = Isr
      BY <1>4, <3>1 DEF TakesNew
    <3>2. CASE b # Isr
      BY <1>4, <2>1, <2>3, <3>2 DEF TakesNew
    <3> QED
      BY <3>1, <3>2
  <2>6. CopiesNew(p)'
    <3> SUFFICES ASSUME pc[p].at = "copy", pc[p].pos \in Nodes, next'[1] \in Nodes
                 PROVE  data[next'[1]] >= data[pc[p].pos]
      BY <1>2, <2>1, <2>2, <2>3 DEF CopiesNew
    <3>1. CASE next'[1] = next[1]
      BY <2>1, <3>1 DEF CopiesNew
    <3>2. CASE Bringing /\ next'[1] = x
      <4>1. Holding(p) /\ pc[p].pos # x
        BY <1>3, <1>7, <2>1, <3>2 DEF Holding, Fresh, Apart
      <4>2. data[x] \in Int /\ data[pc[p].pos] \in Int /\ data[pc[p].pos] <= MaxTime /\ MaxTime \in Nat
        BY <1>1, <1>2, TimeFacts
      <4> QED
        BY <1>7, <3>2, <4>1, <4>2
    <3> QED
      BY <1>6, <3>1, <3>2
  <2> QED
    BY <2>4, <2>5, <2>6
<1> QED
  BY <1>5, <1>8, <1>9 DEF Ordered, ReadOn

(***************************************************************************)
(* The steps of a holder.                                                  *)
(***************************************************************************)
LEMMA OthersTakeNothing ==
  ASSUME OneProducer, HeadWhole', NEW a \in Actors, OnlyHolder(a), NEW b \in Actors \ {a}
  PROVE  /\ \A p : TakesNew(p, b)'
         /\ pc'[b].at = "copy" => pc'[b].pos \notin Nodes
<1>1. ~Holding(b)'
  BY DEF OnlyHolder, Holding
<1> QED
  BY <1>1, TakesNothing

(* A step of list_for_each_entry_safe keeps the order.                      *)
LEMMA WalkOrdered ==
  ASSUME Scene, Ordered, NEW a \in Actors, Walk(a), ~contended', HeadWhole'
  PROVE  Ordered'
<1> DEFINE x == IF pc[a].q = 0 THEN next[1] ELSE pc[a].q
<1>1. /\ TypeOK /\ OneProducer /\ HeadWhole /\ Lists /\ UNCHANGED <<next, data, got, jiffies, allocated>>
  BY DEF Scene, Framed, Walk, memory
<1>2. /\ OnlyHolder(a) /\ pc[a].at = "walk" /\ pc'[a].op = pc[a].op /\ pc'[a].item = pc[a].item
      /\ \/ Rests /\ (pc[a].q = 0 => next[1] = 1) /\ ~Holding(a)' /\ pc'[a].at \notin InLoop
         \/ x # 1 /\ pc'[a].at = "unlink" /\ pc'[a].pos = x
  BY WalkLeads
<1>3. /\ Live = {1} \cup allocated /\ allocated \subseteq Nodes /\ 1 \notin Nodes /\ 0 \notin Nodes
  BY <1>1, OneHead
<1>4. CASE Rests /\ (pc[a].q = 0 => next[1] = 1) /\ ~Holding(a)' /\ pc'[a].at \notin InLoop
  <2>1. \A b \in Actors : ~Holding(b)'
    BY <1>2, <1>4 DEF OnlyHolder, Holding
  <2>2. StaysMid
    <3>1. CASE pc[a].op = "read"
      <4>1. pc[a].q = 0
        BY <1>1, <1>2, <3>1 DEF Lists, Chain, Held, Handed, DropsOne
      <4> QED
        BY <1>3, <1>4, <2>1, <4>1 DEF StaysMid
    <3>2. CASE pc[a].op # "read"
      <4>1. \A p \in Procs : Mid(p) => Mid(p)'
        BY <1>2, <3>2, ActorsAre DEF Mid, OnlyHolder
      <4> QED
        BY <4>1 DEF StaysMid
    <3> QED
      BY <3>1, <3>2
  <2> QED
    BY <1>1, <1>4, <2>2, RestsOrdered
<1>5. CASE x # 1 /\ pc'[a].at = "unlink" /\ pc'[a].pos = x
  <2>1. Ages'
    <3>1. Bringing' => Bringing /\ pc'[Isr].item = pc[Isr].item
      BY <1>2, <1>5, ActorsAre DEF OnlyHolder, Bringing
    <3> QED
      BY <1>1, <3>1, SameAges DEF Ordered
  <2>2. Sorted'
    BY <1>1 DEF Ordered, Sorted
  <2>3. x \in Nodes
    <3>1. pc[a] \in CallFrames
      BY <1>2, OnScene
    <3>2. next[1] \in {1} \cup Nodes
      BY <1>1, <1>3 DEF Lists, Linked, Closed
    <3> QED
      BY <1>1, <1>5, <3>1, <3>2, OneHead DEF CallFrames
  <2>4. ASSUME NEW p \in Procs
        PROVE  HeadNew(p)' /\ CopiesNew(p)' /\ \A b \in Actors : TakesNew(p, b)'
    <3>1. p \in Actors /\ HeadNew(p) /\ TakesNew(p, a)
      BY ActorsAre DEF Ordered, ReadOn
    <3>2. Mid(p)' <=> Mid(p)
      BY <1>2, <1>5, <3>1 DEF Mid, InLoop, OnlyHolder
    <3>3. \A z : (New(p, z)' <=> New(p, z)) /\ (Unread(p, z)' <=> Unread(p, z))
      BY <1>1, <3>2 DEF New, Unread, LastGot
    <3>4. Unread(p, x)
      <4>1. CASE pc[a].q = 0
        BY <2>3, <3>1, <4>1 DEF HeadNew
      <4>2. CASE pc[a].q # 0
        BY <1>1, <1>2, <2>3, <3>1, <4>2, NewIsUnread DEF TakesNew
      <4> QED
        BY <4>1, <4>2
    <3>5. TakesNew(p, a)'
      BY <1>5, <3>3, <3>4 DEF TakesNew
    <3>6. \A b \in Actors : TakesNew(p, b)'
      BY <1>1, <1>2, <3>5, OthersTakeNothing
    <3>7. CopiesNew(p)'
      <4>1. CASE p = a
        BY <1>5, <4>1 DEF CopiesNew
      <4>2. CASE p # a
        BY <1>1, <1>2, <3>1, <4>2, OthersTakeNothing DEF CopiesNew
      <4> QED
        BY <4>1, <4>2
    <3> QED
      BY <1>1, <3>1, <3>3, <3>6, <3>7 DEF HeadNew
  <2> QED
    BY <2>1, <2>2, <2>4 DEF Ordered, ReadOn
<1> QED
  BY <1>2, <1>4, <1>5

(* The first store of list_del_rcu keeps the order.                         *)
LEMMA UnlinkOrdered ==
  ASSUME Scene, Ordered, NEW a \in Actors, Unlink(a), HeadWhole'
  PROVE  Ordered'
<1> DEFINE x == pc[a].pos
           y == next[x]
<1>1. TypeOK /\ OneProducer /\ HeadWhole /\ Lists /\ UNCHANGED <<next, data, got, jiffies, allocated>>
  BY DEF Scene, Framed, Unlink, history
<1>2. /\ OnlyHolder(a) /\ pc[a].at = "unlink" /\ x \in Nodes
      /\ pc'[a].op = pc[a].op /\ pc'[a].item = pc[a].item
      /\ pc'[a].at = "free" /\ pc'[a].pos = x /\ pc'[a].nxt = y
  BY UnlinkLeads
<1>3. x \in allocated /\ y # x
  <2>1. Holding(a)
    BY <1>1, <1>2, OneHead DEF Holding
  <2> QED
    BY <1>1, <1>2, <2>1 DEF Lists, Chain, Held, HolderOK, FirstEntry
<1>4. Ages'
  <2>1. Bringing' => Bringing /\ pc'[Isr].item = pc[Isr].item
    BY <1>2, ActorsAre DEF OnlyHolder, Bringing
  <2> QED
    BY <1>1, <2>1, SameAges DEF Ordered
<1>5. Sorted'
  BY <1>1 DEF Ordered, Sorted
<1>6. ASSUME NEW p \in Procs
      PROVE  HeadNew(p)' /\ CopiesNew(p)' /\ \A b \in Actors : TakesNew(p, b)'
  <2>1. p \in Actors /\ HeadNew(p) /\ TakesNew(p, a)
    BY ActorsAre DEF Ordered, ReadOn
  <2>2. Mid(p)' <=> Mid(p)
    BY <1>2, <2>1 DEF Mid, InLoop, OnlyHolder
  <2>3. \A z : (New(p, z)' <=> New(p, z)) /\ (Unread(p, z)' <=> Unread(p, z))
    BY <1>1, <2>2 DEF New, Unread, LastGot
  <2>4. y \in Nodes => New(p, y)
    <3> SUFFICES ASSUME y \in Nodes PROVE New(p, y)
      OBVIOUS
    <3>1. data[x] >= LastGot(p)
      BY <1>1, <1>2, <2>1, UnreadIsNotOlder DEF TakesNew
    <3>2. data[x] < data[y] \/ data[y] = MaxTime
      BY <1>3 DEF Ordered, Sorted
    <3>3. data[x] \in Int /\ data[y] \in Int /\ LastGot(p) \in Int
      BY <1>1, <1>2, TimeFacts
    <3> QED
      BY <3>1, <3>2, <3>3 DEF New
  <2>5. TakesNew(p, a)'
    BY <1>2, <2>3, <2>4 DEF TakesNew
  <2>6. \A b \in Actors : TakesNew(p, b)'
    BY <1>1, <1>2, <2>5, OthersTakeNothing
  <2>7. CopiesNew(p)'
    <3>1. CASE p = a
      BY <1>2, <3>1 DEF CopiesNew
    <3>2. CASE p # a
      BY <1>1, <1>2, <2>1, <3>2, OthersTakeNothing DEF CopiesNew
    <3> QED
      BY <3>1, <3>2
  <2> QED
    BY <1>1, <2>1, <2>3, <2>6, <2>7 DEF HeadNew
<1> QED
  BY <1>4, <1>5, <1>6 DEF Ordered, ReadOn

(* Taking out and freeing the first entry keeps the order of those left.    *)
LEMMA FreeOrdered ==
  ASSUME Scene, Ordered, NEW a \in Actors, Free(a), HeadWhole'
  PROVE  Ordered'
<1>0. PICK x, y : x = pc[a].pos /\ y = pc[a].nxt
  OBVIOUS
<1>1. TypeOK /\ OneProducer /\ HeadWhole /\ FramesOK /\ Lists /\ UNCHANGED <<got, jiffies>>
  BY DEF Scene, Framed, Free, history
<1>2. /\ OnlyHolder(a) /\ pc[a].at = "free" /\ x \in allocated
      /\ next' = [next EXCEPT ![1] = y, ![x] = x]
      /\ allocated' = allocated \ {x}
      /\ pc'[a].op = pc[a].op /\ pc'[a].item = pc[a].item
      /\ \/ DropsOne(a) /\ pc'[a].at = "dec" /\ pc'[a].q = 0
         \/ ~DropsOne(a) /\ pc'[a].at = "walk" /\ pc'[a].q = pc[a].q
      /\ Lists'
  BY <1>0, FreeLeads
<1>3. /\ Live = {1} \cup allocated /\ allocated \subseteq Nodes /\ 1 \notin Nodes /\ 0 \notin Nodes
      /\ next \in [Cells -> Cells] /\ Cells = {1} \cup Nodes /\ Fds = {1}
  BY <1>1, OneHead
<1>4. /\ data'[x] = Junk /\ \A n \in Nodes \ {x} : data'[n] = data[n]
  BY <1>0, <1>2, <1>3 DEF Free
<1>5. /\ next'[1] = y /\ \A c \in Cells \ {1, x} : next'[c] = next[c]
  BY <1>2, <1>3
<1>6. Holding(a) /\ HolderOK(a)
  BY <1>1, <1>2, FreersHold DEF Lists, Chain, Held
<1>7. (y \in Nodes => y # x) /\ (~DropsOne(a) /\ pc[a].q \in Nodes => pc[a].q = y)
  BY <1>0, <1>2, <1>6 DEF HolderOK
<1>8. \A p : LastGot(p)' = LastGot(p)
  BY <1>1 DEF LastGot
<1>9. \A p : \A n \in Nodes \ {x} : New(p, n)' <=> New(p, n)
  BY <1>4, <1>8 DEF New
<1>10. Ages'
  <2>1. ASSUME NEW n \in Nodes PROVE data'[n] <= jiffies'
    <3>1. CASE n = x
      <4>1. jiffies \in Nat
        BY <1>1 DEF TypeOK
      <4> QED
        BY <1>1, <1>4, <3>1, <4>1 DEF Junk
    <3>2. CASE n # x
      BY <1>1, <1>4, <3>2 DEF Ordered, Ages
    <3> QED
      BY <3>1, <3>2
  <2>2. ASSUME Bringing' PROVE Newest(pc[Isr].item)'
    <3>1. Bringing /\ pc'[Isr].item = pc[Isr].item
      BY <1>2, <2>2, ActorsAre DEF OnlyHolder, Bringing
    <3>0. PICK i : i = pc[Isr].item
      OBVIOUS
    <3>2. i \in Nodes \ {x}
      <4>1. Fresh(i)
        BY <1>1, <3>0, <3>1 DEF Lists, Chain, Brought
      <4> QED
        BY <1>0, <1>3, <1>6, <4>1 DEF Fresh, Apart
    <3>3. Newest(i)
      BY <3>0, <3>1 DEF Ordered, Ages
    <3>4. ASSUME NEW n \in Nodes \ {i} PROVE data'[n] < data'[i] \/ data'[i] = MaxTime
      <4>1. data[n] < data[i] \/ data[i] = MaxTime
        BY <3>3 DEF Newest
      <4>2. data[n] \in Int /\ data[n] >= -2 /\ data[i] \in Int
        BY <1>1, <3>2 DEF TypeOK, UserEntry, Junk
      <4>3. data'[n] = data[n] \/ data'[n] = -2
        BY <1>4 DEF Junk
      <4>4. data'[i] = data[i]
        BY <1>4, <3>2
      <4>5. data'[n] <= data[n] /\ data'[n] \in Int
        BY <4>2, <4>3
      <4> QED
        BY <4>1, <4>2, <4>4, <4>5
    <3>5. \A p \in Procs : New(p, i)'
      BY <1>9, <3>2, <3>3 DEF Newest
    <3> QED
      BY <3>0, <3>1, <3>4, <3>5 DEF Newest
  <2>3. \A p \in Procs : LastGot(p)' <= jiffies'
    BY <1>1, <1>8 DEF Ordered, Ages
  <2> QED
    BY <2>1, <2>2, <2>3 DEF Ages
<1>11. Sorted'
  <2> SUFFICES ASSUME NEW d \in allocated \ {x}, next'[d] \in Nodes, next'[d] # d
               PROVE  data'[d] < data'[next'[d]] \/ data'[next'[d]] = MaxTime
    BY <1>2 DEF Sorted
  <2>1. next'[d] = next[d]
    BY <1>3, <1>5
  <2>2. next'[d] # x
    <3>1. d \in Live' /\ Live' = Fds \cup allocated'
      BY <1>2 DEF Live
    <3>2. next'[d] \in Live'
      BY <1>2, <3>1 DEF Lists, Linked, Closed
    <3> QED
      BY <1>2, <1>3, <3>1, <3>2
  <2> QED
    BY <1>3, <1>4, <2>1, <2>2 DEF Ordered, Sorted
<1>12. ASSUME NEW p \in Procs
       PROVE  HeadNew(p)' /\ CopiesNew(p)' /\ \A b \in Actors : TakesNew(p, b)'
  <2>1. p \in Actors /\ TakesNew(p, a)
    BY ActorsAre DEF Ordered, ReadOn
  <2>2. y \in Nodes => New(p, y) /\ New(p, y)' /\ data'[y] = data[y]
    BY <1>0, <1>2, <1>4, <1>7, <1>9, <2>1 DEF TakesNew
  <2>3. HeadNew(p)'
    <3> SUFFICES ASSUME y \in Nodes PROVE Unread(p, y)'
      BY <1>5 DEF HeadNew
    <3>1. data[y] >= LastGot(p)
      BY <1>1, <2>2, NewIsUnread
    <3> QED
      BY <1>8, <2>2, <3>1 DEF Unread
  <2>4. TakesNew(p, a)'
    BY <1>2, <1>3, <1>7, <2>2 DEF TakesNew
  <2>5. \A b \in Actors : TakesNew(p, b)'
    BY <1>1, <1>2, <2>4, OthersTakeNothing
  <2>6. CopiesNew(p)'
    <3>1. CASE p = a
      BY <1>2, <3>1 DEF CopiesNew
    <3>2. CASE p # a
      BY <1>1, <1>2, <2>1, <3>2, OthersTakeNothing DEF CopiesNew
    <3> QED
      BY <3>1, <3>2
  <2> QED
    BY <2>3, <2>5, <2>6
<1> QED
  BY <1>10, <1>11, <1>12 DEF Ordered, ReadOn

(* A read that finds an entry finds one that is new to it.                  *)
LEMMA PickOrdered ==
  ASSUME Scene, Ordered, NEW p \in Procs, Pick(p), ~contended', HeadWhole'
  PROVE  Ordered'
<1>1. /\ TypeOK /\ OneProducer /\ HeadWhole /\ Lists /\ p \in Actors /\ p # Isr
      /\ UNCHANGED <<next, data, got, jiffies, allocated>>
  BY ActorsAre DEF Scene, Framed, Pick, memory
<1>2. /\ OnlyHolder(p) /\ pc[p].at = "pick" /\ pc'[p].at = "copy" /\ pc'[p].pos = next[1]
  BY PickLeads
<1>3. Ages'
  <2>1. pc'[Isr] = pc[Isr]
    BY <1>1, <1>2, ActorsAre DEF OnlyHolder
  <2> QED
    BY <1>1, <2>1, SameAges DEF Ordered, Bringing
<1>4. Sorted'
  BY <1>1 DEF Ordered, Sorted
<1>5. ASSUME NEW r \in Procs
      PROVE  HeadNew(r)' /\ CopiesNew(r)' /\ \A b \in Actors : TakesNew(r, b)'
  <2>1. r \in Actors /\ HeadNew(r)
    BY ActorsAre DEF Ordered, ReadOn
  <2>2. Mid(r)' <=> Mid(r)
    BY <1>2, <2>1 DEF Mid, InLoop, OnlyHolder
  <2>3. \A z : (New(r, z)' <=> New(r, z)) /\ (Unread(r, z)' <=> Unread(r, z))
    BY <1>1, <2>2 DEF New, Unread, LastGot
  <2>4. TakesNew(r, p)'
    BY <1>2 DEF TakesNew
  <2>5. \A b \in Actors : TakesNew(r, b)'
    BY <1>1, <1>2, <2>4, OthersTakeNothing
  <2>6. CopiesNew(r)'
    <3>1. CASE r = p
      <4> SUFFICES ASSUME next[1] \in Nodes PROVE New(p, next[1]) /\ data[next[1]] >= data[next[1]]
        BY <1>1, <1>2, <2>3, <3>1 DEF CopiesNew
      <4>1. New(p, next[1])
        BY <1>2, <2>1, <3>1 DEF HeadNew, Unread, Mid, InLoop
      <4>2. data[next[1]] \in Int
        BY <1>1, TimeFacts
      <4> QED
        BY <4>1, <4>2
    <3>2. CASE r # p
      BY <1>1, <1>2, <2>1, <3>2, OthersTakeNothing DEF CopiesNew
    <3> QED
      BY <3>1, <3>2
  <2> QED
    BY <1>1, <2>1, <2>3, <2>5, <2>6 DEF HeadNew
<1> QED
  BY <1>3, <1>4, <1>5 DEF Ordered, ReadOn

(* A read delivers what it points to: a list head's zeros, or an entry that *)
(* is still in the list and new to the thread.                              *)
LEMMA CopyOrdered ==
  ASSUME Scene, Ordered, NEW p \in Procs, Copy(p), HeadWhole', InOrder
  PROVE  Ordered' /\ InOrder'
<1>0. PICK x : x = pc[p].pos
  OBVIOUS
<1>1. /\ TypeOK /\ OneProducer /\ HeadWhole /\ Lists /\ p \in Actors /\ p # Isr
      /\ UNCHANGED <<next, prev, data, jiffies, allocated, contended>>
  BY ActorsAre DEF Scene, Framed, Copy, memory
<1>2. /\ Rests /\ (\A b \in Actors \ {p} : pc'[b] = pc[b])
      /\ pc[p].at = "copy" /\ pc[p].op = "read" /\ pc'[p].op = "read"
      /\ pc'[p].at \in {"walk", "release"} /\ pc'[p].pos = 0 /\ pc'[p].q = 0
  BY CopyRests
<1>3. /\ Live = {1} \cup allocated /\ allocated \subseteq Nodes /\ 1 \notin Nodes /\ 0 \notin Nodes
      /\ Fds = {1} /\ Cells = {1} \cup Nodes
  BY <1>1, OneHead
<1>4. CASE UNCHANGED got
  <2>1. \A r \in Procs : Mid(r) => Mid(r)'
    BY <1>2, ActorsAre DEF Mid, InLoop
  <2>2. StaysMid
    BY <2>1 DEF StaysMid
  <2>3. Ordered'
    BY <1>1, <1>2, <1>4, <2>2, RestsOrdered
  <2> QED
    BY <1>1, <1>4, <2>3 DEF InOrder
<1>5. ASSUME NEW value, value = (IF x \in Fds THEN NoEntry ELSE data[x]),
             got' = [got EXCEPT ![p] = [now |-> value, last |-> LastGot(p)]],
             pc'[p].at = "walk"
      PROVE  Ordered' /\ InOrder'
  <2>1. /\ got'[p] = [now |-> value, last |-> LastGot(p)]
        /\ \A r \in Procs \ {p} : got'[r] = got[r]
    BY <1>1, <1>5 DEF TypeOK
  <2>2. /\ LastGot(p)' = (IF value > 0 THEN value ELSE LastGot(p))
        /\ got'[p].now = value /\ got'[p].last = LastGot(p)
    BY <2>1 DEF LastGot
  <2>3. x \in {1} \cup Nodes
    <3>1. Holds(pc[p])
      BY <1>1, <1>2, OnScene
    <3> QED
      BY <1>0, <1>2, <1>3, <3>1 DEF Holds
  <2>4. /\ LastGot(p) \in Nat /\ MaxTime \in Nat /\ MaxTime > 0 /\ jiffies \in Nat
        /\ \A n \in Nodes : data[n] \in Int /\ data[n] <= MaxTime
    BY <1>1, TimeFacts
  <2>5. /\ HeadNew(p) /\ CopiesNew(p)
        /\ LastGot(p) <= jiffies /\ \A n \in Nodes : data[n] <= jiffies
    BY DEF Ordered, ReadOn, Ages
  <2>6. ~Mid(p) /\ Mid(p)'
    BY <1>2, <1>5 DEF Mid, InLoop
  <2>8. ASSUME x \in Nodes
        PROVE  /\ value = data[x] /\ value \in Int /\ value > 0
               /\ value > LastGot(p) \/ value = MaxTime
    <3>1. value = data[x] /\ value \in Int
      BY <1>3, <1>5, <2>4, <2>8
    <3>2. New(p, x)
      BY <1>0, <1>2, <2>5, <2>8 DEF CopiesNew
    <3> QED
      BY <2>4, <3>1, <3>2 DEF New
  <2>9. /\ LastGot(p)' \in Nat /\ LastGot(p)' <= jiffies
        /\ LastGot(p)' = LastGot(p) \/ (x \in Nodes /\ LastGot(p)' = data[x])
        /\ value > 0 => value > LastGot(p) \/ value = MaxTime
    <3>1. CASE x = 1
      <4>1. value = 0
        BY <1>3, <1>5, <3>1 DEF NoEntry
      <4> QED
        BY <2>2, <2>4, <2>5, <4>1
    <3>2. CASE x \in Nodes
      <4>1. LastGot(p)' = data[x] /\ data[x] <= jiffies
        BY <2>2, <2>5, <2>8, <3>2
      <4> QED
        BY <2>4, <2>8, <3>2, <4>1
    <3> QED
      BY <2>3, <3>1, <3>2
  <2>10. next[1] \in Nodes => data[next[1]] >= LastGot(p)'
    <3> SUFFICES ASSUME next[1] \in Nodes PROVE data[next[1]] >= LastGot(p)'
      OBVIOUS
    <3>1. data[next[1]] >= LastGot(p)
      BY <1>1, <2>5, UnreadIsNotOlder DEF HeadNew
    <3>2. x \in Nodes => data[next[1]] >= data[x]
      BY <1>0, <1>2, <2>5 DEF CopiesNew
    <3> QED
      BY <2>9, <3>1, <3>2
  <2>11. \A r \in Procs \ {p} : /\ LastGot(r)' = LastGot(r)
                                /\ \A z : New(r, z)' <=> New(r, z)
    BY <1>1, <2>1 DEF LastGot, New
  <2>12. Holding(p) \/ x = 1
    BY <1>0, <1>2, <1>3, <2>3 DEF Holding
  <2>13. Ages'
    <3>1. ASSUME Bringing' PROVE Newest(pc[Isr].item)'
      <4>1. Bringing
        BY <1>1, <1>2, <3>1, ActorsAre DEF Bringing
      <4>2. PICK i : i = pc[Isr].item
        OBVIOUS
      <4>3. Newest(i) /\ Fresh(i) /\ i \in Nodes
        BY <1>1, <1>3, <4>1, <4>2 DEF Ordered, Ages, Lists, Chain, Brought, Fresh
      <4>4. data[i] > LastGot(p)' \/ data[i] = MaxTime
        <5>1. CASE LastGot(p)' = LastGot(p)
          BY <4>3, <5>1 DEF Newest, New
        <5>2. CASE x \in Nodes /\ LastGot(p)' = data[x]
          <6>1. x # i
            BY <1>0, <1>1, <1>3, <2>12, <4>3, <5>2 DEF Fresh, Apart
          <6>2. data[x] < data[i] \/ data[i] = MaxTime
            BY <4>3, <5>2, <6>1 DEF Newest
          <6>3. data[x] \in Int /\ data[i] \in Int
            BY <2>4, <4>3, <5>2
          <6> QED
            BY <5>2, <6>2, <6>3
        <5> QED
          BY <2>9, <5>1, <5>2
      <4>5. \A r \in Procs : New(r, i)'
        <5> SUFFICES ASSUME NEW r \in Procs PROVE New(r, i)'
          OBVIOUS
        <5>1. CASE r = p
          BY <1>1, <4>4, <5>1 DEF New
        <5>2. CASE r # p
          BY <2>11, <4>3, <5>2 DEF Newest
        <5> QED
          BY <5>1, <5>2
      <4>6. \A n \in Nodes \ {i} : data'[n] < data'[i] \/ data'[i] = MaxTime
        BY <1>1, <4>3 DEF Newest
      <4>7. Newest(i)'
        BY <4>5, <4>6 DEF Newest
      <4>8. pc'[Isr].item = i
        BY <1>1, <1>2, <4>2, ActorsAre
      <4> QED
        BY <4>7, <4>8 DEF Newest
    <3>2. \A r \in Procs : LastGot(r)' <= jiffies
      BY <2>9, <2>11 DEF Ordered, Ages
    <3> QED
      BY <1>1, <2>5, <3>1, <3>2 DEF Ages
  <2>14. Sorted'
    BY <1>1 DEF Ordered, Sorted
  <2>15. ASSUME NEW r \in Procs
         PROVE  HeadNew(r)' /\ CopiesNew(r)' /\ \A b \in Actors : TakesNew(r, b)'
    <3>1. r \in Actors /\ HeadNew(r) /\ CopiesNew(r) /\ \A b \in Actors : TakesNew(r, b)
      BY ActorsAre DEF Ordered, ReadOn
    <3>2. CASE r = p
      <4>1. HeadNew(r)'
        BY <1>1, <2>6, <2>10, <3>2 DEF HeadNew, Unread
      <4>2. CopiesNew(r)'
        BY <1>5, <3>2 DEF CopiesNew
      <4>3. ASSUME NEW b \in Actors PROVE TakesNew(r, b)'
        <5>1. CASE b = p
          BY <1>2, <1>3, <1>5, <5>1 DEF TakesNew
        <5>2. CASE b # p /\ Holding(b)
          <6>1. x = 1 /\ pc'[b] = pc[b]
            BY <1>1, <1>2, <2>12, <5>2 DEF Lists, Chain, Exclusive
          <6>2. LastGot(p)' = LastGot(p)
            BY <1>3, <2>9, <6>1
          <6>3. \A z : New(p, z)' <=> New(p, z)
            BY <1>1, <6>2 DEF New
          <6>4. \A z \in Nodes : Unread(p, z) => Unread(p, z)'
            <7> SUFFICES ASSUME NEW z \in Nodes, Unread(p, z) PROVE Unread(p, z)'
              OBVIOUS
            <7>1. data[z] >= LastGot(p)
              BY <1>1, UnreadIsNotOlder
            <7> QED
              BY <1>1, <2>6, <6>2, <7>1 DEF Unread
          <6>5. pc[b].at = "unlink" => pc[b].pos \in Nodes
            BY <1>1 DEF HeadWhole, OneProducer
          <6> QED
            BY <3>1, <3>2, <6>1, <6>3, <6>4, <6>5 DEF TakesNew
        <5>3. CASE b # p /\ ~Holding(b)
          <6>1. ~Holding(b)'
            BY <1>2, <5>3 DEF Holding
          <6> QED
            BY <1>1, <6>1, TakesNothing
        <5> QED
          BY <5>1, <5>2, <5>3
      <4> QED
        BY <4>1, <4>2, <4>3
    <3>3. CASE r # p
      <4>1. pc'[r] = pc[r]
        BY <1>2, <3>1, <3>3
      <4>2. \A z : (New(r, z)' <=> New(r, z)) /\ (Unread(r, z)' <=> Unread(r, z))
        BY <1>1, <2>11, <3>3, <4>1 DEF Unread, Mid
      <4>3. HeadNew(r)' /\ CopiesNew(r)'
        BY <1>1, <3>1, <4>1, <4>2 DEF HeadNew, CopiesNew
      <4>4. ASSUME NEW b \in Actors PROVE TakesNew(r, b)'
        <5>1. CASE b = p
          BY <1>2, <1>3, <1>5, <5>1 DEF TakesNew
        <5>2. CASE b # p
          BY <1>2, <3>1, <4>2, <5>2 DEF TakesNew
        <5> QED
          BY <5>1, <5>2
      <4> QED
        BY <4>3, <4>4
    <3> QED
      BY <3>2, <3>3
  <2>16. InOrder'
    <3> SUFFICES ASSUME NEW r \in Procs, got'[r].now > 0
                 PROVE  got'[r].now > got'[r].last \/ got'[r].now = MaxTime \/ contended'
      BY DEF InOrder
    <3>1. CASE r = p
      BY <2>2, <2>9, <3>1
    <3>2. CASE r # p
      BY <1>1, <2>1, <3>2 DEF InOrder
    <3> QED
      BY <3>1, <3>2
  <2> QED
    BY <2>13, <2>14, <2>15, <2>16 DEF Ordered, ReadOn
<1>6. ASSUME ~UNCHANGED got
      PROVE  LET value == IF x \in Fds THEN NoEntry ELSE data[x]
             IN  /\ got' = [got EXCEPT ![p] = [now |-> value, last |-> LastGot(p)]]
                 /\ pc'[p].at = "walk"
  <2> DEFINE value == IF x \in Fds THEN NoEntry ELSE data[x]
  <2>1. /\ got' = [got EXCEPT ![p] = [now |-> value, last |-> IF @.now > 0 THEN @.now ELSE @.last]]
        /\ Become(p, [pc[p] EXCEPT !.at = "walk", !.pos = 0])
    BY <1>0, <1>6 DEF Copy
  <2> HIDE DEF value
  <2>2. got' = [got EXCEPT ![p] = [now |-> value, last |-> LastGot(p)]]
    BY <2>1 DEF LastGot
  <2>3. pc'[p] = [pc[p] EXCEPT !.at = "walk", !.pos = 0]
    BY <1>1, <2>1, Became
  <2>4. pc[p] \in CallFrames
    BY <1>1, <1>2, OnScene
  <2>5. pc'[p].at = "walk"
    BY <2>3, <2>4 DEF CallFrames
  <2> QED
    BY <2>2, <2>5 DEF value
<1> QED
  BY <1>4, <1>5, <1>6

(***************************************************************************)
(* The order is kept by every step.                                        *)
(***************************************************************************)
(* A step outside the loops ends no read's deletion.                        *)
LEMMA CalmStep ==
  ASSUME \A p \in Procs : pc'[p] = pc[p] \/ pc[p].at \notin InLoop
  PROVE  StaysMid
BY DEF StaysMid, Mid

(* A step of an actor outside the deleting loops interrupts no read that    *)
(* deletes.                                                                 *)
LEMMA CalmActor ==
  ASSUME NEW a \in Actors, \A b \in Actors \ {a} : pc'[b] = pc[b], pc[a].at \notin InLoop
  PROVE  StaysMid
BY CalmStep, ActorsAre

(* A read that copies or deletes does so from an initialised list.          *)
Reading(p) == pc[p].at \in InLoop \cup {"copy"} /\ pc[p].op = "read"
ReadsMade == \A p \in Procs : Reading(p) => 1 \in made

(* Every step of a list operation keeps the order.                          *)
LEMMA ListStepOrdered ==
  ASSUME Scene, Ordered, ReadsMade, NEW a \in Actors, ListStep(a), ~contended', HeadWhole'
  PROVE  Ordered'
<1>1. Framed /\ TypeOK
  BY DEF Scene, Framed
<1>2. CASE Decrement(a) \/ Increment(a)
  <2>1. UNCHANGED <<data, got, jiffies>> /\ pc[a].at \in {"dec", "dec2", "inc", "inc2"}
    BY <1>2 DEF Decrement, Increment, Load, Store, At, memory, history
  <2>2. \A b \in Actors \ {a} : pc'[b] = pc[b]
    BY <1>1, <1>2 DEF Decrement, Increment, Load, Store, Become, TypeOK
  <2>3. StaysMid
    BY <2>1, <2>2, CalmActor DEF InLoop
  <2> QED
    BY <1>2, <2>1, <2>3, CountersRest, RestsOrdered
<1>3. CASE Wake(a)
  <2>1. UNCHANGED <<data, got, jiffies>>
    BY <1>3 DEF Wake, memory, history
  <2>2. ASSUME NEW p \in Procs PROVE pc'[p] = pc[p] \/ pc[p].at \notin InLoop
    BY <1>3, ActorsAre DEF Wake, At, InLoop
  <2>3. StaysMid
    BY <2>2, CalmStep
  <2> QED
    BY <1>3, <2>1, <2>3, WakeRests, RestsOrdered
<1>4. CASE Premature(a)
  <2>1. ~(a \in Procs /\ Mid(a))
    BY <1>4, PrematureRests DEF ReadsMade, Reading, Mid, InLoop
  <2>2. \A p \in Procs : Mid(p) => Mid(p)'
    BY <1>4, <2>1, PrematureRests, ActorsAre DEF Mid
  <2> QED
    BY <1>4, <2>2, PrematureRests, RestsOrdered DEF StaysMid
<1> QED
  BY <1>2, <1>3, <1>4, WalkOrdered, UnlinkOrdered, FreeOrdered, AddOrdered DEF ListStep

(* Every step of a system call outside the list operations keeps the order. *)
LEMMA CallOrdered ==
  ASSUME Scene, Ordered, NEW p \in Procs,
         \/ Wait(p) \/ Signal(p) \/ Full(p) \/ Find(p) \/ Take(p) \/ Reset(p)
         \/ ku_pir_release(p),
         HeadWhole'
  PROVE  Ordered'
<1>1. TypeOK /\ p \in Actors
  BY ActorsAre DEF Scene, Framed
<1>2. UNCHANGED <<data, got, jiffies>>
  BY DEF Wait, Signal, Full, Find, Take, Reset, ku_pir_release, memory, history
<1>3. pc[p].at \notin InLoop
  BY DEF Wait, Signal, Full, Find, Take, Reset, ku_pir_release, At, InLoop
<1>4. \A b \in Actors \ {p} : pc'[b] = pc[b]
  BY <1>1 DEF Wait, Signal, Full, Find, Take, Reset, ku_pir_release, Goto, Become, TypeOK
<1>5. StaysMid
  BY <1>1, <1>3, <1>4, CalmActor
<1>6. Rests => Ordered'
  BY <1>2, <1>5, RestsOrdered
<1> QED
  BY <1>6, CallRests, HeadOrdered

(* The start of the handler and rmmod keep the order.                       *)
LEMMA OutsideOrdered ==
  ASSUME Scene, Ordered, Push \/ ExitBegin \/ ExitNext \/ ExitEnd, HeadWhole'
  PROVE  Ordered'
<1>1. TypeOK
  BY DEF Scene, Framed
<1>2. UNCHANGED <<data, got, jiffies>>
  BY DEF Push, ExitBegin, ExitNext, ExitEnd, memory, history
<1>3. \A p \in Procs : pc'[p] = pc[p]
  <2>1. \A p \in Procs : p \in Actors /\ p # Isr /\ p # Rmmod
    BY ActorsAre
  <2> QED
    BY <1>1, <2>1 DEF Push, ExitBegin, ExitNext, ExitEnd, Goto, Become, TypeOK
<1>4. StaysMid
  BY <1>3, CalmStep
<1> QED
  BY <1>2, <1>4, PushRests, ExitRests, RestsOrdered

(* The start of a system call keeps the order.                              *)
LEMMA OpenOrdered ==
  ASSUME Scene, Ordered, NEW call \in Programs \cap (Procs \X Ops), NEW f \in Fds,
         ku_pir_open(call[1], call[2], f), HeadWhole'
  PROVE  Ordered'
<1>1. TypeOK /\ call[1] \in Actors /\ pc[call[1]] = Idle
  BY ActorsAre DEF Scene, Framed, ku_pir_open
<1>2. UNCHANGED <<data, got, jiffies>>
  BY DEF ku_pir_open, memory, history
<1>3. \A b \in Actors \ {call[1]} : pc'[b] = pc[b]
  BY <1>1 DEF ku_pir_open, Become, TypeOK
<1>4. StaysMid
  BY <1>1, <1>3, CalmActor DEF Idle, InLoop
<1> QED
  BY <1>2, <1>4, OpenRests, RestsOrdered

(* A step that changes nothing keeps the order.                             *)
LEMMA StutterOrdered ==
  ASSUME Scene, Ordered, UNCHANGED vars, HeadWhole'
  PROVE  Ordered'
<1>1. UNCHANGED <<next, prev, allocated, data, got, jiffies, pc>>
  BY DEF vars, memory, history
<1>2. Rests
  BY <1>1 DEF Rests
<1>3. StaysMid
  BY <1>1, CalmStep
<1> QED
  BY <1>1, <1>2, <1>3, RestsOrdered

(* Every step of the driver keeps the order while two actors do not take    *)
(* entries at once.                                                         *)
LEMMA NextOrdered ==
  ASSUME Scene, Ordered, ReadsMade, InOrder, [Next]_vars, ~contended', HeadWhole'
  PROVE  Ordered' 
<1>1. module # "unloaded"
  BY DEF Scene, Running
<1>2. CASE UNCHANGED vars
  BY <1>2, StutterOrdered
<1>3. ASSUME NEW a \in Actors, ListStep(a) PROVE Ordered'
  BY <1>3, ListStepOrdered
<1>4. ASSUME NEW p \in Procs, ThreadStep(p) \/ Signal(p) PROVE Ordered'
  <2>1. ~Write(p) /\ ~Fault(p)
    BY <1>1, NoWrite DEF Fault
  <2> QED
    BY <1>4, <2>1, CallOrdered, PickOrdered, CopyOrdered DEF ThreadStep
<1>5. CASE ku_pir_isr \/ Glitch
  BY <1>5, IsrOrdered, GlitchOrdered
<1>6. CASE Push \/ ExitBegin \/ ExitNext \/ ExitEnd
  BY <1>6, OutsideOrdered
<1>7. ASSUME NEW call \in Programs \cap (Procs \X Ops), NEW f \in Fds,
             ku_pir_open(call[1], call[2], f)
      PROVE  Ordered'
  BY <1>7, OpenOrdered
<1>8. CASE InitIrq \/ InitQueues
  BY <1>8, InitStepOrdered
<1> QED
  BY <1>2, <1>3, <1>4, <1>5, <1>6, <1>7, <1>8 DEF Next

(* Nothing but a read's copy changes what was delivered.                    *)
LEMMA OnlyCopyDelivers ==
  ASSUME [Next]_vars, \A p \in Procs : ~Copy(p)
  PROVE  UNCHANGED got
BY DEF Next, vars, history, ku_pir_open, ListStep, Premature, Walk, Unlink, Free, Decrement,
       Increment, Load, Store, AddTail, Wake, ThreadStep, Wait, Pick, Write, Full, Find, Take,
       Reset, ku_pir_release, Fault, Signal, ku_pir_isr, Glitch, Push, InitIrq, InitQueues,
       ExitBegin, ExitNext, ExitEnd

(* A list that is initialised stays so.                                     *)
LEMMA MadeGrows ==
  ASSUME TypeOK, [Next]_vars
  PROVE  made \subseteq made'
BY DEF TypeOK, Next, vars, gate, ku_pir_open, ListStep, Premature, Walk, Unlink, Free, Decrement,
       Increment, Load, Store, AddTail, Wake, ThreadStep, Wait, Pick, Copy, Write, Full, Find,
       Take, Reset, ku_pir_release, Fault, Signal, ku_pir_isr, Glitch, Push, InitIrq, InitQueues,
       ExitBegin, ExitNext, ExitEnd

(* Only Pick lets a read begin to copy.                                     *)
LEMMA NextReadsMade ==
  ASSUME Framed, OneProducer, ReadsMade, [Next]_vars
  PROVE  ReadsMade'
<1> SUFFICES ASSUME NEW p \in Procs, Reading(p)' PROVE Reading(p) \/ 1 \in made
  BY MadeGrows DEF ReadsMade, Framed
<1>1. /\ TypeOK /\ p \in Actors /\ p # Isr /\ p # Rmmod
      /\ Isr \in Actors /\ Rmmod \in Actors /\ Fds = {1}
  BY ActorsAre, OneHead DEF Framed
<1>2. CASE pc'[p] = pc[p]
  BY <1>2 DEF Reading
<1>3. pc'[p].at \in InLoop \cup {"copy"} /\ pc'[p].op = "read"
  BY DEF Reading
<1>4. ASSUME NEW a \in Actors, ListStep(a) PROVE Reading(p) \/ pc'[p] = pc[p]
  <2>1. CASE Wake(a)
    BY <1>1, <1>3, <2>1, WakeKeeps DEF InLoop
  <2>2. CASE a # p /\ ~Wake(a)
    BY <1>1, <1>4, <2>2, ListStepMoves, OopsEnds DEF Moves, Killed
  <2>3. CASE a = p /\ ~Wake(a)
    <3>1. Moves(p, Onward(p))
      BY <1>1, <1>3, <1>4, <2>3, ListStepMoves, OopsEnds DEF Killed
    <3>2. pc[p].op = "read" /\ pc[p].at \notin {"idle", "dead"} /\ pc'[p].at \in Onward(p)
      BY <1>3, <3>1 DEF Moves
    <3>3. pc[p] \in CallFrames /\ Placed(pc[p])
      BY <1>1, <3>2, Here DEF Framed
    <3>4. pc[p].at \in InDrop
      <4>1. pc[p].at \in {"walk", "unlink", "free", "dec", "dec2", "add", "add2", "add3", "inc",
                         "inc2", "wait", "wake", "pick"}
        BY <1>4, <2>3 DEF ListStep, Premature, Walk, Unlink, Free, Decrement, Increment, Load,
                          Store, AddTail, Wake, At
      <4>2. ~Premature(p)
        BY <1>1, <1>3, OopsEnds DEF Premature
      <4>3. pc[p].at \notin {"wait", "pick"}
        BY <1>4, <2>3, <4>2 DEF ListStep, Walk, Unlink, Free, Decrement, Increment, Load, Store,
                                AddTail, Wake, At
      <4> QED
        BY <3>2, <3>3, <4>1, <4>3 DEF Placed, InDrop, InLoop, Leaving
    <3>5. CASE pc[p].at \in {"dec", "dec2"}
      <4>1. Decrement(p)
        BY <1>4, <2>3, <3>5 DEF ListStep, Premature, Walk, Unlink, Free, Increment, Load, Store,
                                AddTail, Wake, At
      <4>2. \E l \in {"dec2", "release", "add"} : \E m : Become(p, [pc[p] EXCEPT !.at = l, !.n = m])
        BY <4>1 DEF Decrement, Load, Store
      <4> QED
        BY <1>1, <1>3, <3>3, <4>2 DEF Become, TypeOK, CallFrames, InLoop
    <3> QED
      BY <3>2, <3>4, <3>5 DEF Reading, InDrop
  <2> QED
    BY <2>1, <2>2, <2>3
<1>5. ASSUME NEW r \in Procs, ThreadStep(r) \/ Signal(r)
      PROVE  Reading(p) \/ pc'[p] = pc[p] \/ 1 \in made
  <2>1. r \in Actors
    BY ActorsAre
  <2>2. CASE ku_pir_release(r) \/ Fault(r)
    <3>1. \/ Become(r, Idle) \/ Become(r, [at |-> "dead"])
          \/ Goto(r, "sync") /\ pc[r].at = "release"
      BY <2>2 DEF ku_pir_release, Fault, At
    <3>2. Goto(r, "sync") /\ pc[r].at = "release" => Moves(r, {"sync"})
      BY <2>1, MovesGoto DEF Framed
    <3>3. \A b \in Actors \ {r} : pc'[b] = pc[b]
      BY <1>1, <2>1, <3>1, <3>2 DEF Become, TypeOK, Moves
    <3>4. pc'[r].at \in {"idle", "dead", "sync"}
      BY <1>1, <2>1, <3>1, <3>2 DEF Become, TypeOK, Idle, Moves
    <3> QED
      BY <1>1, <1>3, <3>3, <3>4 DEF InLoop
  <2>3. CASE ~ku_pir_release(r) /\ ~Fault(r)
    <3>1. Moves(r, CallLabels)
      BY <1>5, <2>3, CallMoves DEF ThreadStep
    <3>2. CASE r # p
      BY <1>1, <3>1, <3>2 DEF Moves
    <3>3. CASE r = p
      <4>1. pc[p].op = "read" /\ pc[p].at \notin {"idle", "dead"}
        BY <1>3, <3>1, <3>3 DEF Moves
      <4>2. pc[p] \in CallFrames /\ Placed(pc[p]) /\ pc[p].fd = 1
        BY <1>1, <4>1, Here DEF Framed, CallFrames
      <4>3. pc[p].at \in {"read", "wait", "asleep", "pick", "copy"} \cup InDrop \cup Leaving
        BY <4>1, <4>2 DEF Placed
      <4>4. Wait(p) \/ Signal(p) \/ Pick(p) \/ Copy(p)
        BY <1>5, <2>3, <3>3, <4>3 DEF ThreadStep, Write, Full, Find, Take, Reset, At, InDrop,
                                      InLoop, Leaving
      <4>5. CASE Wait(p) \/ Signal(p)
        <5>1. \E l \in {"wait", "pick", "asleep"} : Goto(p, l)
          BY <4>5 DEF Wait, Signal
        <5> QED
          BY <1>1, <1>3, <4>2, <5>1, Went DEF InLoop
      <4> QED
        BY <4>1, <4>2, <4>4, <4>5 DEF Pick, Copy, At, Reading
    <3> QED
      BY <3>2, <3>3
  <2> QED
    BY <2>2, <2>3
<1>6. CASE ku_pir_isr \/ Glitch \/ Push \/ ExitBegin \/ ExitNext \/ ExitEnd \/ InitIrq \/ InitQueues
  BY <1>1, <1>2, <1>6 DEF ku_pir_isr, Glitch, Push, ExitBegin, ExitNext, ExitEnd, InitIrq,
                          InitQueues, Become, Goto, TypeOK
<1>7. ASSUME NEW call \in Programs \cap (Procs \X Ops), NEW f \in Fds,
             ku_pir_open(call[1], call[2], f)
      PROVE  pc'[p] = pc[p]
  <2>1. call[1] \in Actors /\ call[2] \in Ops
    BY ActorsAre
  <2>2. pc'[call[1]] = Frame(Entry[call[2]], call[2], f) /\ \A b \in Actors \ {call[1]} : pc'[b] = pc[b]
    BY <1>1, <1>7, <2>1 DEF ku_pir_open, Become, TypeOK
  <2>3. CASE call[1] = p
    <3>1. call[2] = "read" /\ pc'[p].at = Entry["read"]
      BY <1>3, <2>2, <2>3 DEF Frame
    <3> QED
      BY <1>3, <3>1 DEF Entry, InLoop
  <2> QED
    BY <1>1, <2>2, <2>3
<1> QED
  BY <1>2, <1>4, <1>5, <1>6, <1>7 DEF Next, vars

OrdersInv == ListsInv /\ ReadsMade /\ OrderInv

(* Nothing is out of order when init requests the interrupt.                *)
LEMMA InitOrder ==
  ASSUME OneProducer, Init
  PROVE  OrderInv
<1>1. TypeOK
  BY InitFramed DEF Framed
<1>2. \A p \in Procs : got[p].now = -2 /\ got[p].last = 0
  BY DEF Init, Junk
<1>3. InOrder
  BY <1>2 DEF InOrder
<1>4. \A a \in Actors : pc[a].at = "idle"
  BY DEF Init, Idle
<1>5. \A p \in Procs : LastGot(p) = 0
  BY <1>2 DEF LastGot
<1>6. jiffies = 0 /\ allocated = {} /\ \A n \in Nodes : data[n] = -2
  BY DEF Init, Junk
<1>7. Ages
  BY <1>4, <1>5, <1>6, ActorsAre DEF Ages, Bringing
<1>8. Sorted
  BY <1>6 DEF Sorted
<1>9. next[1] = 1 /\ 1 \notin Nodes
  BY <1>1, OneHead, ActorsAre DEF Init
<1>10. ReadOn
  BY <1>4, <1>9, ActorsAre DEF ReadOn, HeadNew, CopiesNew, TakesNew
<1> QED
  BY <1>3, <1>7, <1>8, <1>10 DEF OrderInv, Ordered

(* Every step of the driver keeps the order of what is delivered.           *)
LEMMA NextOrder ==
  ASSUME OneProducer, OrdersInv, [Next]_vars
  PROVE  OrderInv'
<1>1. Framed /\ InOrder /\ ReadsMade
  BY DEF OrdersInv, ListsInv, OrderInv
<1>2. CASE contended'
  BY <1>2 DEF OrderInv, InOrder
<1>3. CASE ~contended' /\ Running
  <2>1. ~contended
    BY <1>3, ContendedStays
  <2>2. Scene /\ Ordered
    BY <1>3, <2>1 DEF OrdersInv, ListsInv, ListInv, OrderInv, Scene, Lists
  <2>3. HeadWhole'
    BY <2>2, UnlinksAreSafe, NextHead DEF Scene
  <2>4. Ordered'
    BY <1>1, <1>3, <2>2, <2>3, NextOrdered
  <2>5. InOrder'
    <3>1. CASE \E p \in Procs : Copy(p)
      BY <1>1, <2>2, <2>3, <3>1, CopyOrdered
    <3>2. CASE ~\E p \in Procs : Copy(p)
      <4>1. UNCHANGED got
        BY <3>2, OnlyCopyDelivers
      <4> QED
        BY <1>1, <2>1, <4>1 DEF InOrder
    <3> QED
      BY <3>1, <3>2
  <2> QED
    BY <2>4, <2>5 DEF OrderInv
<1>4. CASE ~contended' /\ ~Running
  <2>1. ~Running' /\ UNCHANGED got /\ ~contended
    BY <1>1, <1>4, StaysStopped, NothingRuns, ContendedStays
  <2> QED
    BY <1>1, <2>1 DEF OrderInv, InOrder
<1> QED
  BY <1>2, <1>3, <1>4

(***************************************************************************)
(* A thread is delivered sensor entries in the order of their detection,   *)
(* and none twice, until two actors take entries off the list at the same  *)
(* time: copying after rcu_read_unlock, and deleting by another walk, do   *)
(* not break the order while nobody else deletes.                          *)
(***************************************************************************)
THEOREM ReadsInOrder == OneProducer /\ Spec => []InOrder
<1>1. OneProducer /\ Init => OrdersInv
  <2>1. OneProducer /\ Init => ReadsMade
    BY ActorsAre DEF Init, ReadsMade, Reading, Idle, InLoop
  <2> QED
    BY <2>1, InitListsInv, InitOrder DEF OrdersInv
<1>2. OneProducer /\ OrdersInv /\ [Next]_vars => OrdersInv'
  BY NextListsInv, NextReadsMade, NextOrder DEF OrdersInv, ListsInv
<1>3. OrdersInv => InOrder
  BY DEF OrdersInv, OrderInv
<1>4. OneProducer => OneProducer'
  BY DEF OneProducer
<1> QED
  BY <1>1, <1>2, <1>3, <1>4, PTL DEF Spec

=============================================================================
