----------------------------- MODULE MCKuIpcLib -----------------------------
(* Small instances of the library, for several threads.                     *)
EXTENDS KuIpcLib

GetFlagWords == {IPC_CREAT, IPC_EXCL}
RcvFlagWords == {{}, IPC_NOWAIT}
AnyMessage == {0}
=============================================================================
