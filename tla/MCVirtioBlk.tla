---------------------------- MODULE MCVirtioBlk -----------------------------
(***************************************************************************)
(* VirtioBlk for TLC in two settings, by its `world`: a device that        *)
(* answers in time, with memory plentiful or scarce, and a slow device     *)
(* with a queue that holds a second request beside one that timed out.     *)
(***************************************************************************)
EXTENDS Naturals

CONSTANTS Sectors, NoSector, OneSector

VARIABLES
    world, free_desc, desc, avail_ring, avail_idx, used_ring, used_idx,
    last_used_idx, next_avail_idx, free_frames, mem, pc, head_desc, io, result,
    dev_avail, dev_used, inflight, disk

InTime == INSTANCE VirtioBlk WITH
    QUEUE_SIZE <- 4, queue_size <- 4, IDX <- 8, Reads <- BOOLEAN, Frames <- 1..4,
    Worlds <- {"calm", "scarce"}
Late == INSTANCE VirtioBlk WITH
    QUEUE_SIZE <- 6, queue_size <- 6, IDX <- 6, Reads <- {TRUE}, Frames <- 1..3,
    Sectors <- {OneSector}, Worlds <- {"slow"}

vars == <<world, free_desc, desc, avail_ring, avail_idx, used_ring, used_idx,
          last_used_idx, next_avail_idx, free_frames, mem, pc, head_desc, io, result,
          dev_avail, dev_used, inflight, disk>>

slow == world = "slow"
-----------------------------------------------------------------------------
VirtioInit == InTime!Init \/ Late!Init

VirtioNext == IF slow THEN Late!Next ELSE InTime!Next

\* The driver polls and the device works: the steps that are fair.
DriverStep == IF slow THEN Late!DriverStep ELSE InTime!DriverStep
DevFetch == IF slow THEN Late!DevFetch ELSE InTime!DevFetch
DevAnswer(h) == IF slow THEN Late!DevAnswer(h) ELSE InTime!DevAnswer(h)
Descs == Late!Descs
-----------------------------------------------------------------------------
\* Every variable of the queue, the driver and the device has its type.
TypeOK == IF slow THEN Late!TypeOK ELSE InTime!TypeOK

\* Unless memory runs out, every descriptor is free or in exactly one chain.
DescriptorsConserved ==
    IF slow THEN Late!DescriptorsConserved ELSE InTime!DescriptorsConserved

\* Unless a request timed out, data goes to and comes from its own sector.
SectorsKeepTheirData == InTime!SectorsKeepTheirData

\* do_io takes a completion for its own only when the device is done with its
\* chain, also when earlier requests timed out and are answered late.
OwnCompletion == [][slow /\ Late!Accept => head_desc \notin Late!Owed]_vars

\* do_io returns.
RequestsReturn == InTime!RequestsReturn
=============================================================================
