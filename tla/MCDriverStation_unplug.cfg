\* A joystick that is unplugged: packets may lack the joystick section.
SPECIFICATION Spec
CONSTANTS
  PacketWords = {"teleop"}
  Sticks = {TRUE, FALSE}
  MaxPackets = 6
INVARIANTS FiresOncePerPress
CHECK_DEADLOCK FALSE
