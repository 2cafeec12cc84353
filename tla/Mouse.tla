------------------------------- MODULE Mouse -------------------------------
(***************************************************************************)
(* The PS/2 mouse driver (drivers/mouse.rs): IRQ 12 delivers one byte at a *)
(* time, three bytes are a packet, a packet moves the pointer.  The device *)
(* and the controller are external: a packet's bytes arrive in order, and  *)
(* a byte may be lost when the controller's one-byte buffer is overrun.    *)
(***************************************************************************)
EXTENDS Integers, Sequences

CONSTANTS SCREEN_WIDTH, SCREEN_HEIGHT,
          Deltas,      \* movements the device reports, in -256..255
          ButtonSets,  \* values of the three button bits
          MaxPackets, MaxLost

VARIABLES packet, packet_index, mouse_x, mouse_y, mouse_buttons,
          wire,   \* bytes the device still has to deliver
          true,   \* where the packets sent so far put the pointer (history)
          sent, lost

vars == <<packet, packet_index, mouse_x, mouse_y, mouse_buttons, wire, true, sent, lost>>

driver == <<packet, packet_index, mouse_x, mouse_y, mouse_buttons>>

----------------------------------------------------------------------------

Bit(b, n) == (b \div 2^n) % 2 = 1

Clamp(v, max) == IF v < 0 THEN 0 ELSE IF v > max THEN max ELSE v

\* init(): the pointer in the middle of the screen.
Init ==
  /\ packet = <<0, 0, 0>> /\ packet_index = 0
  /\ mouse_x = SCREEN_WIDTH \div 2 /\ mouse_y = SCREEN_HEIGHT \div 2
  /\ mouse_buttons = 0
  /\ wire = <<>> /\ sent = 0 /\ lost = 0
  /\ true = [x |-> mouse_x, y |-> mouse_y, buttons |-> 0]

\* The device reports a movement: nine-bit deltas, their signs in the first
\* byte, whose bit 3 is always set; up is positive.
DeviceReports(dx, dy, buttons) ==
  /\ wire = <<>> /\ sent < MaxPackets
  /\ sent' = sent + 1
  /\ wire' = <<8 + buttons + (IF dx < 0 THEN 16 ELSE 0) + (IF dy < 0 THEN 32 ELSE 0), dx % 256, dy % 256>>
  /\ true' = [x |-> Clamp(true.x + dx, SCREEN_WIDTH - 1), y |-> Clamp(true.y - dy, SCREEN_HEIGHT - 1),
              buttons |-> buttons]
  /\ UNCHANGED <<driver, lost>>

DeviceLosesByte ==
  /\ wire # <<>> /\ lost < MaxLost
  /\ lost' = lost + 1 /\ wire' = Tail(wire)
  /\ UNCHANGED <<driver, true, sent>>

\* A mutant: the sign bit of y is read for x.
process_packet_sign(p) ==
  LET dx == IF Bit(p[1], 5) THEN p[2] - 256 ELSE p[2]
      dy == IF Bit(p[1], 5) THEN 256 - p[3] ELSE -p[3]
  IN  /\ mouse_x' = Clamp(mouse_x + dx, SCREEN_WIDTH - 1)
      /\ mouse_y' = Clamp(mouse_y + dy, SCREEN_HEIGHT - 1)
      /\ mouse_buttons' = p[1] % 8

process_packet(p) ==
  LET dx == IF Bit(p[1], 4) THEN p[2] - 256 ELSE p[2]
      dy == IF Bit(p[1], 5) THEN 256 - p[3] ELSE -p[3]
  IN  /\ mouse_x' = Clamp(mouse_x + dx, SCREEN_WIDTH - 1)
      /\ mouse_y' = Clamp(mouse_y + dy, SCREEN_HEIGHT - 1)
      /\ mouse_buttons' = p[1] % 8

\* handle_interrupt(): one byte.
HandleInterrupt ==
  LET byte == Head(wire)
      filled == [packet EXCEPT ![packet_index + 1] = byte]
      discard == packet_index = 0 /\ ~Bit(byte, 3)
  IN  /\ wire # <<>> /\ wire' = Tail(wire)
      /\ packet' = IF discard THEN packet ELSE filled
      /\ packet_index' = IF discard THEN packet_index ELSE (packet_index + 1) % 3
      /\ IF packet_index = 2 THEN process_packet(filled)
         ELSE UNCHANGED <<mouse_x, mouse_y, mouse_buttons>>
      /\ UNCHANGED <<true, sent, lost>>

Device == \E dx, dy \in Deltas, b \in ButtonSets : DeviceReports(dx, dy, b)

Next == Device \/ DeviceLosesByte \/ HandleInterrupt

Spec == Init /\ [][Next]_vars

----------------------------------------------------------------------------

\* The mouse driver's state has its type: the pointer is on the screen, also
\* when lost bytes make the driver read a packet that was never sent.
TypeOK ==
  /\ packet \in [1..3 -> 0..255] /\ packet_index \in 0..2
  /\ mouse_x \in 0..SCREEN_WIDTH - 1 /\ mouse_y \in 0..SCREEN_HEIGHT - 1
  /\ mouse_buttons \in 0..7

\* As long as no byte is lost the driver stays in step with the device: the
\* bytes it holds are those of the packet being sent, and between two packets
\* the pointer and the buttons are where the device's movements put them
\* (handle_interrupt, process_packet: signs, inverted y, clamping at each edge).
PointerFollows ==
  lost = 0 =>
    /\ packet_index = (3 - Len(wire)) % 3
    /\ wire = <<>> => [x |-> mouse_x, y |-> mouse_y, buttons |-> mouse_buttons] = true
=============================================================================
