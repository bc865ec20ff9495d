\* Two transactions sent through sendrawtransaction and a RelayInv of
\* capacity one: does WaitForShutdown return after Stop?
SPECIFICATION Spec
CONSTANTS
    Txs = {t1, t2}
    MaxPeers = 1
    MaxClients = 1
\* After shutdown every goroutine has ended: stopping is the program's end.
CHECK_DEADLOCK FALSE
PROPERTY ShutdownCompletes
