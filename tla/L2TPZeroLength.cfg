\* A new conversation on an established tunnel.
SPECIFICATION Spec
CONSTANTS
  SeqMod = 8
  MaxRetries = 2
  PeerWindow = 2
  Start = 7
  MaxSend = 3
  MaxHello <- Hellos
  MaxNet <- Packets
INVARIANT AckedDelivered
CHECK_DEADLOCK FALSE
