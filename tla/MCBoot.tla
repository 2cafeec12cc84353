------------------------------- MODULE MCBoot -------------------------------
(***************************************************************************)
(* The start of the application processors and the device drivers for TLC: *)
(* the keyboard, the mouse, the disk and the network stack.  A behaviour   *)
(* exercises one of them, `part`, and the others rest.                     *)
(***************************************************************************)
EXTENDS SmpBoot

CONSTANTS Parts, Keys, Sectors, NoSector, OneSector

VARIABLES
    part,
    kbd_held, kbd_rest, kbd_esc, kbd_shift, kbd_ctrl, kbd_buffer, kbd_write,
    kbd_read, kbd_pc, kbd_c, kbd_typed,
    packet, packet_index, mouse_x, mouse_y, mouse_buttons, wire, true, sent, lost,
    world, free_desc, desc, avail_ring, avail_idx, used_ring, used_idx,
    last_used_idx, next_avail_idx, free_frames, mem, vio_pc, head_desc, io, result,
    dev_avail, dev_used, inflight, disk,
    devices, address, entries, rx, up, batch, known, out

Kbd == INSTANCE Keyboard WITH
    KB_BUFFER_SIZE <- 3,
    held <- kbd_held, rest <- kbd_rest, esc <- kbd_esc, shift <- kbd_shift,
    ctrl <- kbd_ctrl, buffer <- kbd_buffer, write <- kbd_write, read <- kbd_read,
    pc <- kbd_pc, c <- kbd_c, typed <- kbd_typed
Mou == INSTANCE Mouse WITH
    SCREEN_WIDTH <- 12, SCREEN_HEIGHT <- 10, Deltas <- {-256, -9, 0, 9, 255}, ButtonSets <- {0, 1},
    MaxPackets <- 2, MaxLost <- 1
Vio == INSTANCE MCVirtioBlk WITH pc <- vio_pc

\* This host, a peer with two network cards, and the frames the peer sends
Host == <<10, 0, 2, 15>>
Peer == <<10, 0, 2, 2>>
Cards == {"card1", "card2"}
Arp(op, mac, ip) ==
    [type |-> "arp", parses |-> TRUE, operation |-> op, sender_hw |-> mac, sender_proto |-> Peer,
     target_proto |-> ip]
Ip(dst, protocol, payload) ==
    [type |-> "ip", parses |-> TRUE, src_addr |-> Peer, dst_addr |-> dst, protocol |-> protocol,
     payload |-> payload]
PeerFrames ==
    {Arp(1, mac, ip) : mac \in Cards, ip \in {Host, Peer}}
        \cup {Arp(2, mac, Host) : mac \in Cards} \cup {Arp(3, "card1", Host)}
        \cup {Ip(ip, 1, <<8, 0, 1, 2, 255, 255, 255, 254, 9>>) : ip \in {Host, Peer}}
        \cup {Ip(Host, 1, m) : m \in {<<8, 0, 247, 255, 0, 0, 0, 0>>, <<0, 0, 255, 255, 0, 0, 0, 0>>,
                                      <<8, 0, 0>>}}
        \cup {Ip(Host, 17, <<8, 0, 0>>), [type |-> "ip", parses |-> FALSE],
              [type |-> "arp", parses |-> FALSE], [type |-> "other"]}
Net == INSTANCE Network WITH
    OwnMACs <- {"own1", "own2"}, MACs <- Cards, IPs <- {Host, Peer}, DefaultAddress <- Host,
    Frames <- PeerFrames, MIN_PAYLOAD <- 10, MaxQueue <- 2

kbd_vars ==
    <<kbd_held, kbd_rest, kbd_esc, kbd_shift, kbd_ctrl, kbd_buffer, kbd_write,
      kbd_read, kbd_pc, kbd_c, kbd_typed>>
mouse_vars == <<packet, packet_index, mouse_x, mouse_y, mouse_buttons, wire, true, sent, lost>>
vio_vars ==
    <<world, free_desc, desc, avail_ring, avail_idx, used_ring, used_idx,
      last_used_idx, next_avail_idx, free_frames, mem, vio_pc, head_desc, io, result,
      dev_avail, dev_used, inflight, disk>>
net_vars == <<devices, address, entries, rx, up, batch, known, out>>
all_vars == <<part, vars, kbd_vars, mouse_vars, vio_vars, net_vars>>
-----------------------------------------------------------------------------
BootInit ==
    /\ part \in Parts
    /\ Init /\ Kbd!Init /\ Mou!Init /\ Vio!VirtioInit /\ Net!Init
    /\ part # "disk" => world = "slow"

\* nothing is left to boot; the mouse has sent its reports
Rest ==
    /\ (part = "smp" /\ Booted) \/ (part = "mouse" /\ sent = 2 /\ wire = <<>>)
    /\ UNCHANGED all_vars

BootNext ==
    /\ UNCHANGED part
    /\ \/ part = "smp" /\ Next /\ UNCHANGED <<kbd_vars, mouse_vars, vio_vars, net_vars>>
       \/ part = "keyboard" /\ Kbd!Next /\ UNCHANGED <<vars, mouse_vars, vio_vars, net_vars>>
       \/ part = "mouse" /\ Mou!Next /\ UNCHANGED <<vars, kbd_vars, vio_vars, net_vars>>
       \/ part = "disk" /\ Vio!VirtioNext /\ UNCHANGED <<vars, kbd_vars, mouse_vars, net_vars>>
       \/ part = "network" /\ Net!Next /\ UNCHANGED <<vars, kbd_vars, mouse_vars, vio_vars>>
       \/ Rest

\* The processors run; an AP that the boot loader has let go comes in the end.  The
\* driver polls and the disk works.
BootFairSpec ==
    /\ BootInit /\ [][BootNext]_all_vars
    /\ WF_vars(part = "smp" /\ BSP)
    /\ \A a \in APs : WF_vars(part = "smp" /\ ApLock(a)) /\ WF_vars(part = "smp" /\ AP(a))
    /\ WF_vio_vars(part = "disk" /\ Vio!DriverStep)
    /\ WF_vio_vars(part = "disk" /\ Vio!DevFetch)
    /\ \A h \in Vio!Descs : WF_vio_vars(part = "disk" /\ Vio!DevAnswer(h))
-----------------------------------------------------------------------------
\* Every variable of the boot processor, the APs and the drivers has its type.
TypesOK == TypeOK /\ Kbd!TypeOK /\ Mou!TypeOK /\ Vio!TypeOK /\ Net!TypeOK

\* SMP: init_smp returns, and every AP it started is online in the end, the ones
\* it timed out on included.  Disk: do_io returns.
AllComeOnline == part = "smp" ~> Booted
WorkEnds == AllComeOnline /\ Vio!RequestsReturn

\* Keyboard: getchar returns the accepted bytes in their order, each once, and with
\* one shift and one control key the flags follow the keys.  Mouse: as long
\* as no byte is lost the driver stays in step with the device, and between two
\* reports the pointer and the buttons are where the reports put them.  Network:
\* poll answers, in order, exactly the ARP and echo requests it can, to the card last
\* announced, with checksums that verify.
InputFaithful ==
    Kbd!ReturnsOldest /\ Kbd!ModifiersTracked /\ Mou!PointerFollows /\ Net!PollAnswers

\* Disk: unless memory runs out, every descriptor is free or in exactly one chain;
\* unless a request timed out, data goes to and comes from its own sector.
DiskSound == Vio!DescriptorsConserved /\ Vio!SectorsKeepTheirData

\* Disk: do_io takes a completion for its own only when the device is done with its
\* chain, also when earlier requests timed out and are answered late.
OwnCompletion == Vio!OwnCompletion
=============================================================================
