--------------------------- MODULE MCBridgeClient ---------------------------
(* An instance of BridgeClient for model checking: a read that is retried, a *)
(* mutation that is not, and QGIS restarting once.                           *)
EXTENDS BridgeClient

CONSTANTS read, edit

MCCallers == {read, edit}
MCRetryable == {read}
MCBulky == MCCallers
MCCancellable == MCCallers
=============================================================================
