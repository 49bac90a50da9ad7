----------------------------- MODULE MsgQueues -----------------------------
(***************************************************************************)
(* What the driver of as1 promises its clients: a list of message queues,  *)
(* changed by atomic operations.  Locks, counters and calls in progress do *)
(* not appear here.                                                        *)
(***************************************************************************)
EXTENDS Integers, SequencesExt

CONSTANTS
  Keys,       \* the keys of queues
  Messages,   \* records with a type and a size
  MaxQueues,  \* the most queues there may be
  MaxMsgs     \* the most messages in a queue

VARIABLES
  queues,  \* a list of records [key, msgs]
  open     \* the service runs

(* Of the queues with one key, only the oldest is used.                     *)
Used(i) == \A h \in 1..(i-1) : queues[h].key # queues[i].key

(* Messages of a type leave a queue in order, except that a smaller message *)
(* may overtake larger ones that the receiver's buffer cannot hold.         *)
MayLeave(msgs, j) ==
  \A h \in 1..(j-1) : msgs[h].type = msgs[j].type => msgs[h].size > msgs[j].size

Init == queues = <<>> /\ open = TRUE

Create(k) ==
  /\ open
  /\ Len(queues) < MaxQueues
  /\ queues' = Append(queues, [key |-> k, msgs |-> <<>>])
  /\ UNCHANGED open

Destroy(i) ==
  /\ open
  /\ Used(i)
  /\ queues' = RemoveAt(queues, i)
  /\ UNCHANGED open

Send(i, m) ==
  /\ open
  /\ Used(i)
  /\ Len(queues[i].msgs) < MaxMsgs
  /\ queues' = [queues EXCEPT ![i].msgs = Append(@, m)]
  /\ UNCHANGED open

Receive(i, j) ==
  /\ open
  /\ Used(i)
  /\ MayLeave(queues[i].msgs, j)
  /\ queues' = [queues EXCEPT ![i].msgs = RemoveAt(@, j)]
  /\ UNCHANGED open

(* The service stops; it frees the queues or leaves them behind.            *)
Stop ==
  /\ open
  /\ open' = FALSE
  /\ queues' \in {<<>>, queues}

Next ==
  \/ \E k \in Keys : Create(k)
  \/ \E i \in DOMAIN queues :
       \/ Destroy(i)
       \/ \E m \in Messages : Send(i, m)
       \/ \E j \in DOMAIN queues[i].msgs : Receive(i, j)
  \/ Stop

Spec == Init /\ [][Next]_<<queues, open>>
=============================================================================
