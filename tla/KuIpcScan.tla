----------------------------- MODULE KuIpcScan -----------------------------
(***************************************************************************)
(* The list walk of ku_ipc_read, node by node as the loop does it.  KuIpc  *)
(* says which message a receive takes (Selected); ScanAgrees says that the *)
(* loop takes that one.                                                    *)
(***************************************************************************)
EXTENDS KuIpc

(* One turn of the loop at node i, with the loop's locals: min is the node  *)
(* of the smallest type so far, found the node taken before the break.      *)
ScanNode(msgs, r, s, i) ==
  LET m == msgs[i]
      min == IF s.count = 0 THEN i ELSE s.min
      wanted == IF r.type = 0 THEN s.count = 0 ELSE r.type > 0 /\ m.type = r.type
  IN  [ found |-> IF wanted /\ Fits(m, r) THEN i ELSE 0,
        min |-> IF r.type < 0 /\ m.type <= -r.type /\ msgs[min].type > m.type THEN i ELSE min,
        flag |-> r.type < 0,
        count |-> s.count + 1 ]

Scan(msgs, r) ==
  FoldLeftDomain(LAMBDA s, i : IF s.found # 0 THEN s ELSE ScanNode(msgs, r, s, i),
                 [found |-> 0, min |-> 0, flag |-> FALSE, count |-> 0], msgs)

(* The node taken: the one of the break, else min if it fits the buffer.    *)
Taken(msgs, r) ==
  LET s == Scan(msgs, r)
  IN  IF s.found # 0 THEN {s.found}
      ELSE {i \in DOMAIN msgs : s.flag /\ i = s.min /\ Fits(msgs[i], r)}

(* In every queue the driver can build, for every receive request, the loop *)
(* of ku_ipc_read takes the message that Selected names: the first, the     *)
(* first of a type that fits, or the first of the smallest type within      *)
(* |type| (the head, when no type is within |type|).                        *)
ScanAgrees ==
  \A i \in DOMAIN msg_q : \A r \in ReadReq :
    Taken(msg_q[i].msgs, r) = Selected(msg_q[i].msgs, r)
=============================================================================
