\* Every packet has a joystick section.  Five packets let the caches rotate through all
\* their positions before and after the main thread connects.
SPECIFICATION Spec
CONSTANTS
  PacketWords = {"autonomous", "detached"}
  Sticks = {TRUE}
  MaxPackets = 5
INVARIANTS TypeOK ReaderUndisturbed HoldsNewest WordInSync FiresOncePerPress
PROPERTIES NeverGoesBack ImplementsMailbox
CHECK_DEADLOCK FALSE
