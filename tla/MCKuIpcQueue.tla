---------------------------- MODULE MCKuIpcQueue ----------------------------
(* One thread and one key, but queues of several messages of every kind.    *)
EXTENDS KuIpcScan

AllFlags == {{}, MSG_NOERROR}
(* A negative size, a sane one, and INT_MAX.                                *)
EverySize == {-2, 1, 4}
EveryRcvType == {0, 1, -1}
=============================================================================
