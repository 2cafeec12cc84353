----------------------------- MODULE PsychicFS ------------------------------
(***************************************************************************)
(* fs/psychicfs.rs: the extent-based filesystem as its callers use it,     *)
(* with what is on the disk kept apart from what is in memory: a disk      *)
(* write may fail, and the power may fail after any step.  Where one step  *)
(* makes several disk writes, it may end after any of them.  Disk reads    *)
(* succeed.  File contents, times and the superblock's counters, which are *)
(* only printed, are left out; the block cache and allocate_block have no  *)
(* callers.                                                                *)
(***************************************************************************)
EXTENDS Naturals, Sequences, SequencesExt, FiniteSetsExt

CONSTANTS
    Names, NoName,
    MAX_FILES, PerSector,              \* inodes, and inodes in a sector
    DATA_BLOCKS_START, total_blocks,   \* data blocks are the ones from the first to below the second
    BITMAP_BITS,                       \* bits of block_bitmap
    INLINE_EXTENTS,
    MaxBlocks                          \* bound on a file's length, in blocks

ASSUME FsAssumption ==
    /\ {MAX_FILES, PerSector, DATA_BLOCKS_START, total_blocks, BITMAP_BITS, INLINE_EXTENTS, MaxBlocks}
          \subseteq Nat \ {0}
    /\ DATA_BLOCKS_START < total_blocks /\ total_blocks <= BITMAP_BITS
    /\ NoName \notin Names

VARIABLES
    magic, disk_dirty, inodes, disk_bitmap,        \* on the disk
    mounted, bitmap, bitmap_dirty, super_dirty,    \* PSYCHIC_FS
    sb_dirty,                                      \* superblock.dirty in memory
    pc, ino, inode,                                \* the call under way: its inode's number and copy,
    todo, need                                     \* the blocks to free, how many to allocate

disk == <<magic, disk_dirty, inodes, disk_bitmap>>
memory == <<mounted, bitmap, bitmap_dirty, super_dirty, sb_dirty>>
call == <<ino, inode, todo, need>>
vars == <<disk, memory, pc, call>>

InodeNums == 0..(MAX_FILES - 1)
InodeSectors == (MAX_FILES - 1) \div PerSector + 1
FreeInode == [name |-> NoName, size |-> 0, extents |-> <<>>]

Init ==
    /\ magic = FALSE /\ disk_dirty = 0 /\ disk_bitmap = {}
    /\ inodes = [n \in InodeNums |-> FreeInode]
    /\ mounted = FALSE /\ bitmap = {} /\ bitmap_dirty = FALSE /\ super_dirty = FALSE /\ sb_dirty = 0
    /\ pc = "idle" /\ ino = 0 /\ inode = FreeInode /\ todo = <<>> /\ need = 0

Return == pc' = "idle" /\ ino' = 0 /\ inode' = FreeInode /\ todo' = <<>> /\ need' = 0
-----------------------------------------------------------------------------
(* Extents                                                                 *)

EndOf(ext) == ext.logical + ext.count

\* a new extent that starts where the last one does
add_extent_overlapping(e, start, count) ==
    IF e = <<>> THEN <<[logical |-> 0, physical |-> start, count |-> count]>>
    ELSE Append(e, [logical |-> Last(e).logical, physical |-> start, count |-> count])

add_extent(e, start, count) ==
    IF e = <<>> THEN <<[logical |-> 0, physical |-> start, count |-> count]>>
    ELSE IF Last(e).physical + Last(e).count = start
      THEN [e EXCEPT ![Len(e)].count = @ + count]
      ELSE Append(e, [logical |-> EndOf(Last(e)), physical |-> start, count |-> count])

\* one extent too many is let through
NoSlotOffByOne(e, start) ==
    /\ Len(e) = INLINE_EXTENTS + 1
    /\ Last(e).physical + Last(e).count # start

\* add_extent returns false
NoSlot(e, start) ==
    /\ Len(e) = INLINE_EXTENTS
    /\ Last(e).physical + Last(e).count # start

BlocksOf(ext) == [i \in 1..ext.count |-> ext.physical + i - 1]
AllBlocks(e) == FlattenSeq([k \in 1..Len(e) |-> BlocksOf(e[k])])
-----------------------------------------------------------------------------
(* The bitmap                                                              *)

is_block_allocated(b) == b < DATA_BLOCKS_START \/ (b - DATA_BLOCKS_START) \in bitmap

\* where find_contiguous_blocks(count) finds a run, lowest first: {} or one start
find_contiguous_blocks(count) ==
    LET starts == {s \in DATA_BLOCKS_START..total_blocks :
                      /\ s + count <= total_blocks
                      /\ \A b \in s..(s + count - 1) : ~is_block_allocated(b)}
    IN IF mounted /\ starts # {} THEN {Min(starts)} ELSE {}

\* allocate_contiguous_blocks: the bit set is `block`, not block - DATA_BLOCKS_START
Marked(start, count) == bitmap \cup {b \in start..(start + count - 1) : b < BITMAP_BITS}

\* the bitmap on the disk after some of its two sectors are written
PartOf(map, sectors) ==
    LET half == BITMAP_BITS \div 2
        new == IF sectors = 0 THEN {} ELSE IF sectors = 1 THEN 0..(half - 1) ELSE 0..(BITMAP_BITS - 1)
    IN (map \cap new) \cup (disk_bitmap \ new)

\* PsychicFs::sync with the bitmap and the two dirty flags it finds
sync(map, map_dirty, sb_written) ==
    \E sectors \in 0..2, ok \in BOOLEAN :
        /\ disk_bitmap' = IF map_dirty THEN PartOf(map, sectors) ELSE disk_bitmap
        /\ bitmap_dirty' = (map_dirty /\ sectors # 2)
        /\ sb_dirty' = IF sb_written THEN 0 ELSE sb_dirty
        /\ disk_dirty' = IF sb_written /\ ok THEN 0 ELSE disk_dirty
        /\ super_dirty' = (sb_written /\ ~ok)
        /\ UNCHANGED <<magic, inodes, mounted>>

fs_sync ==
    /\ UNCHANGED bitmap
    /\ IF mounted THEN sync(bitmap, bitmap_dirty, super_dirty)
                  ELSE UNCHANGED <<disk, mounted, bitmap_dirty, super_dirty, sb_dirty>>

free_block(b) ==
    IF mounted /\ b >= DATA_BLOCKS_START /\ (b - DATA_BLOCKS_START) \in bitmap
      THEN /\ bitmap' = bitmap \ {b - DATA_BLOCKS_START}
           /\ sync(bitmap', TRUE, TRUE)
      ELSE UNCHANGED <<disk, memory>>
-----------------------------------------------------------------------------
\* fs_format writes the superblock, each inode sector, then the bitmap; it ends
\* where a write fails
Format ==
    /\ pc = "idle"
    /\ \E written \in 0..(InodeSectors + 2) :
          /\ disk_bitmap' = PartOf({}, IF written > InodeSectors THEN written - InodeSectors ELSE 0)
          /\ inodes' = [n \in InodeNums |-> IF n \div PerSector < written THEN FreeInode ELSE inodes[n]]
    /\ magic' = TRUE /\ disk_dirty' = 0
    /\ UNCHANGED <<memory, pc, call>>

Mount ==
    /\ pc = "idle" /\ magic
    /\ mounted' = TRUE /\ bitmap' = disk_bitmap /\ bitmap_dirty' = FALSE
    /\ sb_dirty' = 1 /\ super_dirty' = TRUE
    /\ UNCHANGED <<disk, pc, call>>

Sync ==
    /\ pc = "idle"
    /\ fs_sync
    /\ UNCHANGED <<pc, call>>

\* the power fails, with or without a shutdown
Crash ==
    /\ Return
    /\ mounted' = FALSE /\ bitmap' = {} /\ bitmap_dirty' = FALSE /\ super_dirty' = FALSE /\ sb_dirty' = 0
    /\ UNCHANGED disk
-----------------------------------------------------------------------------
Named(name) == {n \in InodeNums : inodes[n].name = name}
Unused == Named(NoName)

\* what a scan of the table for a member of S finds: the first, if any
FoundIn(S) == IF S = {} THEN {} ELSE {Min(S)}

\* a create that does not look for the name
fs_create_unchecked(name, n) ==
    /\ n \in FoundIn(Unused)
    /\ inodes' = [inodes EXCEPT ![n] = [FreeInode EXCEPT !.name = name]]

\* fs_create: the name is not found, a free inode is, and it is written
fs_create(name, n) ==
    /\ Named(name) = {}
    /\ n \in FoundIn(Unused)
    /\ inodes' = [inodes EXCEPT ![n] = [FreeInode EXCEPT !.name = name]]

Create(name) ==
    /\ pc = "idle"
    /\ \E n \in Unused : fs_create(name, n)
    /\ UNCHANGED <<magic, disk_dirty, disk_bitmap, memory, pc, call>>

\* fs_write has its inode n: an empty file frees nothing
Found(n, blocks) ==
    /\ ino' = n
    /\ need' = blocks
    /\ IF blocks = 0
         THEN pc' = "inode" /\ todo' = <<>> /\ inode' = [inodes'[n] EXCEPT !.size = 0, !.extents = <<>>]
         ELSE pc' = "free" /\ todo' = AllBlocks(inodes'[n].extents)
              /\ inode' = [inodes'[n] EXCEPT !.size = blocks, !.extents = <<>>]

\* fs_write: the file is found, or created first
WriteBegin(name, blocks) ==
    /\ pc = "idle"
    /\ \/ \E n \in FoundIn(Named(name)) : UNCHANGED inodes /\ Found(n, blocks)
       \/ \E n \in Unused :
             /\ fs_create(name, n)
             /\ \E m \in FoundIn(Named(name) \cup {n}) : Found(m, blocks)
    /\ UNCHANGED <<magic, disk_dirty, disk_bitmap, memory>>

\* fs_delete
DeleteBegin(name) ==
    /\ pc = "idle"
    /\ \E n \in FoundIn(Named(name)) : ino' = n /\ todo' = AllBlocks(inodes[n].extents)
    /\ pc' = "free" /\ inode' = FreeInode /\ need' = 0
    /\ UNCHANGED <<disk, memory>>

\* the old blocks are freed one by one, each with a sync
Free ==
    /\ pc = "free"
    /\ IF todo # <<>>
         THEN free_block(Head(todo)) /\ todo' = Tail(todo) /\ UNCHANGED pc
         ELSE pc' = (IF need = 0 THEN "inode" ELSE "alloc") /\ UNCHANGED <<disk, memory, todo>>
    /\ UNCHANGED <<ino, inode, need>>

\* one turn of the allocation loop: a run for all that remains, else one block
Alloc ==
    /\ pc = "alloc"
    /\ LET count == IF find_contiguous_blocks(need) # {} THEN need ELSE 1 IN
       \E start \in find_contiguous_blocks(count) :
          /\ bitmap' = Marked(start, count)
          /\ IF NoSlot(inode.extents, start) THEN Return
             ELSE /\ inode' = [inode EXCEPT !.extents = add_extent(@, start, count)]
                  /\ need' = need - count
                  /\ pc' = IF need = count THEN "data" ELSE "alloc"
                  /\ UNCHANGED <<ino, todo>>
    /\ UNCHANGED <<disk, mounted, bitmap_dirty, super_dirty, sb_dirty>>

\* "out of disk space": the old blocks are free, the inode still names them
NoSpace ==
    /\ pc = "alloc" /\ find_contiguous_blocks(1) = {}
    /\ Return
    /\ UNCHANGED <<disk, memory>>

\* the data sectors are written; where a write fails fs_write returns
Data ==
    /\ pc = "data"
    /\ \/ pc' = "inode" /\ UNCHANGED call
       \/ Return
    /\ UNCHANGED <<disk, memory>>

\* write_inode; fs_sync follows when it succeeds, but for an empty file
Inode ==
    /\ pc = "inode"
    /\ \/ /\ inodes' = [inodes EXCEPT ![ino] = inode]
          /\ \/ inode.extents # <<>> /\ pc' = "sync" /\ UNCHANGED call
             \/ Return
       \/ UNCHANGED inodes /\ Return
    /\ UNCHANGED <<magic, disk_dirty, disk_bitmap, memory>>

WriteSync ==
    /\ pc = "sync"
    /\ fs_sync
    /\ Return
-----------------------------------------------------------------------------
Next ==
    \/ Format \/ Mount \/ Sync \/ Crash
    \/ \E name \in Names : Create(name) \/ DeleteBegin(name)
    \/ \E name \in Names, blocks \in 0..MaxBlocks : WriteBegin(name, blocks)
    \/ Free \/ Alloc \/ NoSpace \/ Data \/ Inode \/ WriteSync

Spec == Init /\ [][Next]_vars
-----------------------------------------------------------------------------
Blocks == DATA_BLOCKS_START..(total_blocks - 1)
Extents == [logical : 0..MaxBlocks, physical : Blocks, count : 1..MaxBlocks]
InodeOK(i) ==
    /\ i.name \in Names \cup {NoName} /\ i.size \in 0..MaxBlocks
    /\ i.extents \in Seq(Extents) /\ Len(i.extents) <= INLINE_EXTENTS

\* Types of the disk, the copies in memory and the call under way.
TypeOK ==
    /\ {magic, mounted, bitmap_dirty, super_dirty} \subseteq BOOLEAN
    /\ {disk_dirty, sb_dirty} \subseteq {0, 1}
    /\ {bitmap, disk_bitmap} \subseteq SUBSET (0..(BITMAP_BITS - 1))
    /\ \A n \in InodeNums : InodeOK(inodes[n])
    /\ pc \in {"idle", "free", "alloc", "data", "inode", "sync"}
    /\ ino \in InodeNums /\ InodeOK(inode) /\ todo \in Seq(Blocks) /\ need \in 0..MaxBlocks

\* A name leads to one file, whenever the power fails.
NamesUnique == \A name \in Names : Cardinality(Named(name)) <= 1

\* What fs_read relies on: the inode on the disk maps each block of the file by
\* exactly one extent, however the file was put together from runs and whenever
\* a write or the power failed.
ExtentsCoverFile ==
    \A n \in InodeNums : inodes[n].name # NoName =>
        LET e == inodes[n].extents IN
        \A l \in 0..(inodes[n].size - 1) :
            Cardinality({k \in 1..Len(e) : l >= e[k].logical /\ l < EndOf(e[k])}) = 1

\* "Allocate contiguous blocks and mark them as used": two files never have a
\* data block in common.
NoSharedBlocks ==
    \A m, n \in InodeNums : m # n =>
        ToSet(AllBlocks(inodes[m].extents)) \cap ToSet(AllBlocks(inodes[n].extents)) = {}
=============================================================================
