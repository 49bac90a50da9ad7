------------------------------ MODULE MCKuIpc ------------------------------
(* Small instances of the message-queue driver, for several threads.        *)
EXTENDS KuIpc

NoFlag == {{}}
AnyMessage == {0}
=============================================================================
