\* One peer in any role against two slots; sequence numbers wrap.
SPECIFICATION Spec
CONSTANTS
  Isns <- McIsns
  Slots = {1, 2}
  Peers = {p1}
  Roles = {"client", "server", "vanisher"}
  MaxBacklog = 1
  RetransmissionLimit = 1
  RxBytes = 1
  MaxTimers = 2
  SequenceSpace = 64
  PeerIsn = 62
  MaxBytes = 2
  MaxGeneration = 3
  MaxUpsets = 1
  MaxOpens = 1
INVARIANTS SlotBooks ReceivedInOrder WrittenIsReceived EstablishedByBoth
CHECK_DEADLOCK FALSE
