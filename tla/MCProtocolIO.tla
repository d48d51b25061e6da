---------------------------- MODULE MCProtocolIO ---------------------------
EXTENDS ProtocolIO, TLC

CONSTANTS c1, c2

MCClients == {c1, c2}
MCCommands == c1 :> 2 @@ c2 :> 1

Setting(iface, blocking, whole) ==
    [iface |-> iface, blocking |-> blocking, whole |-> whole]
MCSettings ==
    {Setting(1, FALSE, FALSE), Setting(1, TRUE, TRUE), Setting(0, FALSE, TRUE)}
============================================================================
