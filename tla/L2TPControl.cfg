\* Wrap-around of a small sequence space; a window of two.
SPECIFICATION Spec
CONSTANTS
  SeqMod = 8
  MaxRetries = 2
  PeerWindow = 2
  Start = 7
  MaxSend = 3
  MaxHello <- Hellos
  MaxNet <- Packets
INVARIANTS TypeOK WindowHeld DeliveredInOrder
CHECK_DEADLOCK FALSE
