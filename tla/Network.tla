------------------------------ MODULE Network ------------------------------
(***************************************************************************)
(* The network stack (network/): NetworkStack::poll takes the frames of    *)
(* every device and answers ARP requests and ICMP echo requests through    *)
(* the first device, with the address resolution cache filled by the ARP   *)
(* replies it hears.  A device and its peers are external.  No socket is   *)
(* ever put in the socket table, so TCP and UDP packets change nothing.    *)
(*                                                                         *)
(* IP addresses and messages are sequences of bytes, because the checksums *)
(* run over them; MAC addresses are values.                                *)
(***************************************************************************)
EXTENDS Integers, Sequences, SequencesExt, FiniteSets, FiniteSetsExt

CONSTANTS
    OwnMACs, MACs,  \* the hardware addresses of this host's devices and of the peers'
    IPs,            \* IPv4 addresses, sequences of four bytes
    DefaultAddress, \* IpConfig::default().address
    Frames,         \* the frames peers send
    MIN_PAYLOAD,    \* the least IP payload of a padded frame (26)
    MaxQueue        \* bound on the frames waiting in the devices

VARIABLES
    devices,     \* the MAC addresses of the devices, in the order of add_device
    address,     \* ip_config.address
    entries,     \* ArpCache.entries
    rx,          \* the frames waiting in each device
    up,          \* device.send succeeded in the last poll
    batch, known, out   \* of the last poll: its frames, the cache before it, what it sent

vars == <<devices, address, entries, rx, up, batch, known, out>>

ARP_REQUEST == 1
ARP_REPLY == 2
PROTOCOL_ICMP == 1
NoEntries == [ip \in {} |-> 0]
-----------------------------------------------------------------------------
\* calculate_checksum: the complement of the sum of the 16-bit words, its carry added in
\* at every word, an odd last byte taken as the high one
Words(data) ==
    [i \in 1 .. (Len(data) + 1) \div 2 |->
        256 * data[2 * i - 1] + IF 2 * i <= Len(data) THEN data[2 * i] ELSE 0]
AddWordNoCarry(sum, word) == (sum + word) % 65536
AddWord(sum, word) ==
    IF sum + word > 65535 THEN ((sum + word) % 65536) + ((sum + word) \div 65536) ELSE sum + word
Complement(sum) == 65535 - sum
calculate_checksum(data) == Complement(FoldLeft(AddWord, 0, Words(data)))

Bytes(word) == <<word \div 256, word % 256>>

\* The header Ipv4Packet::to_bytes writes for a payload of n bytes
Header(src, dst, n, checksum) ==
    <<69, 0>> \o Bytes((20 + n) % 65536) \o <<0, 0, 0, 0, 64, PROTOCOL_ICMP>>
        \o Bytes(checksum) \o src \o dst
HeaderChecksum(src, dst, n) == calculate_checksum(Header(src, dst, n, 0))

\* The message of send_icmp_reply: the request's, with its type and checksum replaced
ClearedKeepsChecksum(payload) == [payload EXCEPT ![1] = 0]
Cleared(payload) == [payload EXCEPT ![1] = 0, ![3] = 0, ![4] = 0]
Echo(payload) ==
    LET c == Bytes(calculate_checksum(Cleared(payload)))
    IN [Cleared(payload) EXCEPT ![3] = c[1], ![4] = c[2]]
-----------------------------------------------------------------------------
\* Processing a frame maps st, the cache and what was sent so far, to the next.
\* send_packet hands the frame to the first device; its failure is ignored.
send_packet(st, frame) == IF st.up THEN [st EXCEPT !.out = Append(@, frame)] ELSE st

get_mac_address == Head(devices)

\* EthernetFrame::new, ArpPacket::new_reply, Ipv4Packet::new and their to_bytes
EthernetFrame(dst, src, type, packet) ==
    [dst_mac |-> dst, src_mac |-> src, type |-> type, packet |-> packet]
new_reply(sender_mac, sender_ip, target_mac, target_ip) ==
    [operation |-> ARP_REPLY, sender_hw |-> sender_mac, sender_proto |-> sender_ip,
     target_hw |-> target_mac, target_proto |-> target_ip]
Ipv4Packet(src, dst, payload) ==
    [header |-> Header(src, dst, Len(payload), HeaderChecksum(src, dst, Len(payload))),
     payload |-> payload]

send_arp_reply(st, f) ==
    send_packet(st, EthernetFrame(f.sender_hw, get_mac_address, "arp",
                        new_reply(get_mac_address, address, f.sender_hw, f.sender_proto)))

insert_first(cache, ip, mac) ==
    [i \in DOMAIN cache \cup {ip} |-> IF i \in DOMAIN cache THEN cache[i] ELSE mac]
insert(cache, ip, mac) == [i \in DOMAIN cache \cup {ip} |-> IF i = ip THEN mac ELSE cache[i]]

handle_arp_packet(st, f) ==
    CASE f.operation = ARP_REQUEST /\ f.target_proto = address -> send_arp_reply(st, f)
      [] f.operation = ARP_REPLY ->
            [st EXCEPT !.entries = insert(@, f.sender_proto, f.sender_hw)]
      [] OTHER -> st

send_icmp_reply(st, f) ==
    IF f.src_addr \notin DOMAIN st.entries THEN st
    ELSE send_packet(st, EthernetFrame(st.entries[f.src_addr], get_mac_address, "ip",
                             Ipv4Packet(address, f.src_addr, Echo(f.payload))))

handle_icmp_packet(st, f) ==
    IF Len(f.payload) >= 8 /\ f.payload[1] = 8 THEN send_icmp_reply(st, f) ELSE st

handle_ip_packet_any(st, f) ==
    IF f.protocol = PROTOCOL_ICMP THEN handle_icmp_packet(st, f) ELSE st
\* TCP, UDP: no socket to deliver to
handle_ip_packet(st, f) ==
    IF f.dst_addr = address /\ f.protocol = PROTOCOL_ICMP THEN handle_icmp_packet(st, f) ELSE st

\* ArpPacket::parse and Ipv4Packet::parse refuse a frame that is too short or not version 4
IsArp(f) == f.type = "arp" /\ f.parses
IsIp(f) == f.type = "ip" /\ f.parses

process_packet(st, f) ==
    CASE IsArp(f) -> handle_arp_packet(st, f)
      [] IsIp(f) -> handle_ip_packet(st, f)
      [] OTHER -> st
-----------------------------------------------------------------------------
Init ==
    /\ devices = <<>>
    /\ address = DefaultAddress
    /\ entries = NoEntries
    /\ rx = <<>>
    /\ up = TRUE
    /\ batch = <<>> /\ known = NoEntries /\ out = <<>>

Forget == batch' = <<>> /\ known' = NoEntries /\ out' = <<>> /\ UNCHANGED up

add_device(mac) ==
    /\ mac \notin Range(devices)
    /\ devices' = Append(devices, mac)
    /\ rx' = Append(rx, <<>>)
    /\ Forget
    /\ UNCHANGED <<address, entries>>

set_ip_config(ip) ==
    /\ address' = ip
    /\ Forget
    /\ UNCHANGED <<devices, entries, rx>>

\* A device that pads short frames pads their IP payload with zeros to n bytes
Padded(f, n) ==
    IF ~IsIp(f) THEN f
    ELSE [f EXCEPT !.payload = [i \in 1 .. Max({Len(@), n}) |-> IF i <= Len(@) THEN @[i] ELSE 0]]

\* A frame reaches device d, padded or as it was sent
Arrive(d, f) ==
    /\ Len(FlattenSeq(rx)) < MaxQueue
    /\ \E n \in {0, MIN_PAYLOAD} : rx' = [rx EXCEPT ![d] = Append(@, Padded(f, n))]
    /\ Forget
    /\ UNCHANGED <<devices, address, entries>>

\* poll empties every device, one after the other, then processes what it took
poll ==
    /\ up' \in BOOLEAN
    /\ batch' = FlattenSeq(rx)
    /\ rx' = [d \in DOMAIN rx |-> <<>>]
    /\ known' = entries
    /\ LET st == FoldLeft(process_packet, [entries |-> entries, out |-> <<>>, up |-> up'], batch')
       IN entries' = st.entries /\ out' = st.out
    /\ UNCHANGED <<devices, address>>

Next ==
    \/ \E mac \in OwnMACs : add_device(mac)
    \/ \E ip \in IPs : set_ip_config(ip)
    \/ \E d \in DOMAIN devices, f \in Frames : Arrive(d, f)
    \/ poll

Spec == Init /\ [][Next]_vars
-----------------------------------------------------------------------------
\* The stack's configuration, cache and queues hold what they should.
TypeOK ==
    /\ Range(devices) \subseteq OwnMACs
    /\ address \in IPs
    /\ DOMAIN entries \subseteq IPs /\ Range(entries) \subseteq MACs
    /\ Len(rx) = Len(devices)
    /\ up \in BOOLEAN
    /\ Len(out) <= Len(batch)

\* What a receiver checks: the words of a checked message add up to a nonzero multiple of 65535.
Verifies(data) ==
    LET sum == FoldLeft(LAMBDA a, b : a + b, 0, Words(data)) IN sum > 0 /\ sum % 65535 = 0

\* The ARP replies of ip ahead of frame i of the batch
Heard(i, ip) ==
    {j \in 1 .. i - 1 : IsArp(batch[j]) /\ batch[j].operation = ARP_REPLY
                            /\ batch[j].sender_proto = ip}
\* Frame i of the batch calls for an answer.
CallsForAnswer(i) ==
    LET f == batch[i] IN
    \/ IsArp(f) /\ f.operation = ARP_REQUEST /\ f.target_proto = address
    \/ /\ IsIp(f) /\ f.dst_addr = address /\ f.protocol = PROTOCOL_ICMP
       /\ Len(f.payload) >= 8 /\ f.payload[1] = 8
       /\ f.src_addr \in DOMAIN known \/ Heard(i, f.src_addr) # {}

\* Frame r answers request f, at place i of the batch.
Answers(r, f, i) ==
    LET p == r.packet IN
    /\ r.type = f.type /\ r.src_mac = devices[1]
    /\ f.type = "arp" =>
        /\ r.dst_mac = f.sender_hw /\ p.target_hw = f.sender_hw /\ p.target_proto = f.sender_proto
        /\ p.sender_hw = devices[1] /\ p.sender_proto = f.target_proto
    /\ f.type = "ip" =>
        /\ r.dst_mac = IF Heard(i, f.src_addr) = {} THEN known[f.src_addr]
                       ELSE batch[Max(Heard(i, f.src_addr))].sender_hw
        /\ SubSeq(p.header, 13, 16) = f.dst_addr /\ SubSeq(p.header, 17, 20) = f.src_addr
        /\ Verifies(p.header) /\ Verifies(p.payload)
        /\ Len(p.payload) = Len(f.payload)
        /\ SubSeq(p.payload, 5, Len(f.payload)) = SubSeq(f.payload, 5, Len(f.payload))

\* NetworkStack::poll answers, in the order they came in, exactly the ARP requests for this
\* host's address and the echo requests to it from hosts whose hardware address an ARP reply
\* told, the latest told when the request is processed; both checksums of an echo reply verify.
\* When the device does not send, all answers are lost.
PollAnswers ==
    LET calls == {i \in DOMAIN batch : CallsForAnswer(i)} IN
    IF ~up THEN out = <<>>
    ELSE /\ Len(out) = Cardinality(calls)
         /\ \A i \in calls : Answers(out[Cardinality({j \in calls : j <= i})], batch[i], i)
=============================================================================
