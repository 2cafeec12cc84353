----------------------------- MODULE VirtioBlk ------------------------------
(***************************************************************************)
(* drivers/virtio/queue.rs and block.rs: the split virtqueue, one driver   *)
(* at a time (disk_read_sector and disk_write_sector hold VIRTIO_BLK's     *)
(* mutex for a whole do_io) and the device, which fetches requests in      *)
(* order and completes them in any order, at any time.                     *)
(*                                                                         *)
(* Disk contents are tags: the data of, or meant for, sector s is s.       *)
(***************************************************************************)
EXTENDS Integers, FiniteSets, FiniteSetsExt

CONSTANTS
    QUEUE_SIZE,   \* the size of the driver's arrays
    queue_size,   \* what setup_queue agreed on with the device
    IDX,          \* the ring indices count modulo 2^16
    Sectors, NoSector,
    Reads,        \* the kinds of request made: {TRUE} reads, {FALSE} writes
    Frames,       \* frames the allocator can give to do_io, lowest first
    Worlds        \* the surroundings considered: see `world`

VARIABLES
    world,                            \* in "slow" the device may take longer than timeout_ms,
                                      \* in "scarce" memory may run out
    free_desc,                        \* the free descriptors
    desc,                             \* the descriptor table
    avail_ring, avail_idx, used_ring, used_idx,
    last_used_idx, next_avail_idx,
    free_frames, mem,                 \* frames do_io can have; what is in them
    pc, head_desc, io,                \* do_io: its head, frames and request
    result,                           \* of the last request that was answered
    dev_avail, dev_used, inflight,    \* the device's own indices and requests
    disk

rings == <<avail_ring, avail_idx, used_ring, used_idx>>
driver == <<free_desc, desc, last_used_idx, next_avail_idx, free_frames>>
device == <<world, dev_avail, dev_used, inflight, disk>>
vars == <<rings, driver, mem, pc, head_desc, io, result, device>>

Descs == 0..(queue_size - 1)
Cells == [kind : {"none", "header", "data", "unset", "ok", "err"},
          sector : Sectors \cup {NoSector}, is_read : BOOLEAN]
Cell(kind, sector, is_read) == [kind |-> kind, sector |-> sector, is_read |-> is_read]
Blank == Cell("none", NoSector, FALSE)
NoIO == [sector |-> NoSector, is_read |-> FALSE, header |-> 0, data |-> 0, status |-> 0]
NoResult == [sector |-> NoSector, data |-> NoSector]

Init ==
    /\ world \in Worlds
    /\ free_desc = Descs
    /\ desc = [d \in Descs |-> [addr |-> 0, next |-> 0, has_next |-> FALSE]]
    /\ avail_ring = [s \in Descs |-> 0] /\ avail_idx = 0
    /\ used_ring = [s \in Descs |-> 0] /\ used_idx = 0
    /\ last_used_idx = 0 /\ next_avail_idx = 0
    /\ free_frames = Frames /\ mem = [f \in Frames |-> Blank]
    /\ pc = "idle" /\ head_desc = 0 /\ io = NoIO /\ result = NoResult
    /\ dev_avail = 0 /\ dev_used = 0 /\ inflight = {}
    /\ disk = [s \in Sectors |-> s]

Lowest(S, n) == {x \in S : Cardinality({y \in S : y < x}) < n}
Third(S) == Max(S)
Second(S) == Max(S \ {Max(S)})

\* do_io returns
Return ==
    /\ pc' = "idle" /\ head_desc' = 0 /\ io' = NoIO
-----------------------------------------------------------------------------
(* do_io and the queue's alloc_desc, add_buf and get_used                  *)

\* head descriptor, three frames, the request in memory, the chain
Fill(sector, is_read) ==
    LET chain == Lowest(free_desc, 3)
        frames == Lowest(free_frames, 3)
        h == Min(chain)  m == Second(chain)  l == Third(chain)
    IN /\ pc = "idle" /\ Cardinality(chain) = 3 /\ Cardinality(frames) = 3
       /\ pc' = "ring" /\ head_desc' = h
       /\ io' = [sector |-> sector, is_read |-> is_read, header |-> Min(frames),
                 data |-> Second(frames), status |-> Third(frames)]
       /\ free_desc' = free_desc \ chain
       /\ free_frames' = free_frames \ frames
       /\ mem' = [mem EXCEPT ![Min(frames)] = Cell("header", sector, is_read),
                             ![Second(frames)] = Cell("data", IF is_read THEN NoSector ELSE sector, FALSE),
                             ![Third(frames)] = Cell("unset", NoSector, FALSE)]
       /\ desc' = [desc EXCEPT ![h] = [addr |-> Min(frames), next |-> m, has_next |-> TRUE],
                               ![m] = [addr |-> Second(frames), next |-> l, has_next |-> TRUE],
                               ![l] = [addr |-> Third(frames), next |-> 0, has_next |-> FALSE]]
       /\ UNCHANGED <<rings, last_used_idx, next_avail_idx, result, device>>

\* add_buf finds too few descriptors: everything is given back
\* (and with no descriptor at all do_io returns before it takes a frame)
FillNoDesc ==
    /\ pc = "idle" /\ Cardinality(free_desc) < 3
    /\ UNCHANGED vars

\* a frame is missing: `?` returns with the head descriptor and n frames taken
FillNoFrame(n) ==
    /\ world = "scarce" /\ pc = "idle" /\ free_desc # {}
    /\ free_desc' = free_desc \ {Min(free_desc)}
    /\ free_frames' = free_frames \ Lowest(free_frames, n)
    /\ UNCHANGED <<rings, desc, last_used_idx, next_avail_idx, mem, pc, head_desc, io, result, device>>

\* the slot counts modulo QUEUE_SIZE; past the ring the device agreed on lie
\* used_event, a gap, and the used ring's flags and idx
Ring ==
    LET slot == next_avail_idx % QUEUE_SIZE IN
    /\ pc = "ring"
    /\ pc' = "publish"
    /\ avail_ring' = IF slot \in Descs THEN [avail_ring EXCEPT ![slot] = head_desc] ELSE avail_ring
    /\ used_idx' = IF slot = queue_size + 3 THEN head_desc ELSE used_idx
    /\ UNCHANGED <<driver, avail_idx, used_ring, mem, head_desc, io, result, device>>

\* an index that is incremented without wrapping
PublishNoWrap ==
    /\ pc = "publish"
    /\ pc' = "poll"
    /\ avail_idx' = avail_idx + 1
    /\ next_avail_idx' = next_avail_idx + 1
    /\ UNCHANGED <<avail_ring, used_ring, used_idx, free_desc, desc, last_used_idx, free_frames,
                   mem, head_desc, io, result, device>>

Publish ==
    /\ pc = "publish"
    /\ pc' = "poll"
    /\ avail_idx' = (avail_idx + 1) % IDX
    /\ next_avail_idx' = (next_avail_idx + 1) % IDX
    /\ UNCHANGED <<avail_ring, used_ring, used_idx, free_desc, desc, last_used_idx, free_frames,
                   mem, head_desc, io, result, device>>

\* a get_used that frees the head and forgets the rest of the chain
ChainHeadOnly(d) == {d}

\* the descriptors of the chain that starts at d
Chain(d) ==
    LET n == desc[d].next IN
    {d} \cup (IF desc[d].has_next THEN {n} \cup (IF desc[n].has_next THEN {desc[n].next} ELSE {})
                                  ELSE {})

\* the used ring beyond what the device knows of is zeroed memory
UsedElem == LET slot == last_used_idx % QUEUE_SIZE IN
            IF slot \in Descs THEN used_ring[slot] ELSE 0

IoFrames == {io.header, io.data, io.status}

\* a read that hands out the buffer whatever the status byte says
AcceptIgnoresStatus ==
    /\ pc = "poll" /\ last_used_idx # used_idx /\ UsedElem = head_desc
    /\ last_used_idx' = (last_used_idx + 1) % IDX
    /\ free_desc' = free_desc \cup Chain(UsedElem)
    /\ free_frames' = free_frames \cup IoFrames
    /\ result' = IF io.is_read THEN [sector |-> io.sector, data |-> mem[io.data].sector] ELSE NoResult
    /\ Return
    /\ UNCHANGED <<rings, desc, next_avail_idx, mem, device>>

\* a poll that looks at the used ring and never consumes an element
AcceptSpins == pc = "poll" /\ last_used_idx # used_idx /\ UNCHANGED vars

\* get_used has an answer, and it is this request's
Accept ==
    /\ pc = "poll" /\ last_used_idx # used_idx /\ UsedElem = head_desc
    /\ last_used_idx' = (last_used_idx + 1) % IDX
    /\ free_desc' = free_desc \cup Chain(UsedElem)
    /\ free_frames' = free_frames \cup IoFrames
    /\ result' = IF io.is_read /\ mem[io.status].kind = "ok"
                   THEN [sector |-> io.sector, data |-> mem[io.data].sector] ELSE NoResult
    /\ Return
    /\ UNCHANGED <<rings, desc, next_avail_idx, mem, device>>

\* ... or the late answer to a request that timed out
Drain ==
    /\ pc = "poll" /\ last_used_idx # used_idx /\ UsedElem # head_desc
    /\ last_used_idx' = (last_used_idx + 1) % IDX
    /\ free_desc' = free_desc \cup Chain(UsedElem)
    /\ UNCHANGED <<rings, desc, next_avail_idx, free_frames, mem, pc, head_desc, io, result, device>>

\* a timeout that gives the chain back as well as the frames
TimeoutFreesChain ==
    /\ world = "slow" /\ pc = "poll" /\ last_used_idx = used_idx
    /\ free_frames' = free_frames \cup IoFrames
    /\ free_desc' = free_desc \cup Chain(head_desc)
    /\ Return
    /\ UNCHANGED <<rings, desc, last_used_idx, next_avail_idx, mem, result, device>>

\* the frames are freed, the descriptors stay with the device
Timeout ==
    /\ world = "slow" /\ pc = "poll" /\ last_used_idx = used_idx
    /\ free_frames' = free_frames \cup IoFrames
    /\ Return
    /\ UNCHANGED <<rings, free_desc, desc, last_used_idx, next_avail_idx, mem, result, device>>
-----------------------------------------------------------------------------
(* The device                                                              *)

DevFetch ==
    LET h == avail_ring[dev_avail % queue_size]
        request == mem[desc[h].addr]
        d == desc[desc[h].next].addr
        s == desc[desc[desc[h].next].next].addr
    IN /\ dev_avail # avail_idx
       /\ dev_avail' = (dev_avail + 1) % IDX
       /\ inflight' = inflight \cup {[head |-> h, sector |-> request.sector,
                                      is_read |-> request.is_read, data |-> d, status |-> s]}
       /\ UNCHANGED <<rings, driver, mem, pc, head_desc, io, result, world, dev_used, disk>>

\* the transfer, the status byte, the used element and the used index
DevComplete(r, status) ==
    /\ r \in inflight
    /\ inflight' = inflight \ {r}
    /\ mem' = IF r.is_read /\ status = "ok"
                THEN [mem EXCEPT ![r.data] = Cell("data", disk[r.sector], FALSE),
                                 ![r.status] = Cell(status, NoSector, FALSE)]
                ELSE [mem EXCEPT ![r.status] = Cell(status, NoSector, FALSE)]
    /\ disk' = IF r.is_read \/ status # "ok" THEN disk
               ELSE [disk EXCEPT ![r.sector] = mem[r.data].sector]
    /\ used_ring' = [used_ring EXCEPT ![dev_used % queue_size] = r.head]
    /\ dev_used' = (dev_used + 1) % IDX
    /\ used_idx' = dev_used'
    /\ UNCHANGED <<driver, avail_ring, avail_idx, pc, head_desc, io, result, world, dev_avail>>
-----------------------------------------------------------------------------
DriverStep == Ring \/ Publish \/ Accept \/ Drain

DevAnswer(h) == \E r \in inflight, status \in {"ok", "err"} : r.head = h /\ DevComplete(r, status)
DeviceStep == DevFetch \/ \E h \in Descs : DevAnswer(h)

Next ==
    \/ \E sector \in Sectors, is_read \in Reads : Fill(sector, is_read)
    \/ FillNoDesc \/ \E n \in 0..2 : FillNoFrame(n)
    \/ DriverStep \/ Timeout \/ DeviceStep

Spec == Init /\ [][Next]_vars
-----------------------------------------------------------------------------
\* Types of the queue, the frames, the driver and the device.
TypeOK ==
    /\ world \in Worlds
    /\ free_desc \subseteq Descs
    /\ desc \in [Descs -> [addr : Frames \cup {0}, next : Descs, has_next : BOOLEAN]]
    /\ avail_ring \in [Descs -> Descs] /\ used_ring \in [Descs -> Descs]
    /\ {avail_idx, used_idx, last_used_idx, next_avail_idx, dev_avail, dev_used} \subseteq 0..(IDX - 1)
    /\ free_frames \subseteq Frames /\ mem \in [Frames -> Cells]
    /\ pc \in {"idle", "ring", "publish", "poll"} /\ head_desc \in Descs
    /\ disk \in [Sectors -> Sectors \cup {NoSector}]

\* the indices from one up to another, wrapping around
Between(from, to) == {(from + j) % IDX : j \in 0..(((to - from) % IDX) - 1)}

\* the heads the device has yet to answer, and those it has answered unseen
Owed == {avail_ring[k % queue_size] : k \in Between(dev_avail, avail_idx)} \cup {r.head : r \in inflight}
Answered == {used_ring[k % queue_size] : k \in Between(last_used_idx, used_idx)}

\* do_io takes a completion for its own only when the device is done with its
\* chain, even when earlier requests timed out and are answered late.
OwnCompletion == [][Accept => head_desc \notin Owed]_vars

\* Every descriptor that is not free is in one chain only: of the request being
\* made, or of one that the device owes or whose answer has not been drained.
\* (Not when memory runs out: `?` then returns with the head descriptor.)
DescriptorsConserved ==
    world # "scarce" =>
        LET heads == (IF pc \in {"ring", "publish"} THEN {head_desc} ELSE {}) \cup Owed \cup Answered
            Links(h) == {h, desc[h].next, desc[desc[h].next].next}
        IN /\ Descs \ free_desc = UNION {Links(h) : h \in heads}
           /\ \A g, h \in heads : g # h => Links(g) \cap Links(h) = {}

\* A read that succeeds returns its own sector's data, and a write puts data
\* only where it was meant for.  (Not after a timeout, which frees the frames
\* the device still works on.)
SectorsKeepTheirData ==
    world # "slow" =>
        /\ result.data = result.sector
        /\ \A s \in Sectors : disk[s] = s

\* do_io returns.
RequestsReturn == pc # "idle" ~> pc = "idle"
=============================================================================
