-------------------------------- MODULE Vfs --------------------------------
(***************************************************************************)
(* fs/vfs.rs: the mount table, path resolution with its LRU cache, and the *)
(* file operations.  One step per lock section: `mounts`, `path_cache` and *)
(* `cache_lru` are locks of their own, and resolve_path drops the lock on  *)
(* the mount table before it fills the cache.  A path is the sequence of   *)
(* its components; a file system (trait Filesystem) is what its callers    *)
(* see: the attributes of the paths it holds.                              *)
(***************************************************************************)
EXTENDS Integers, Sequences, FiniteSets, SequencesExt

CONSTANTS
    Threads, NoThread,
    RawPaths,              \* paths as callers write them
    MountPaths,            \* paths file systems are mounted at
    Ops,                   \* the operations called
    Devices, NoDevice,     \* the Box<dyn Filesystem> objects
    MAX_PATH_CACHE_SIZE,
    MaxIds, MaxSize        \* bounds: mounts in a behaviour, bytes of a file

VARIABLES
    mounts,        \* Vec<MountPoint>, longest path first
    writer,        \* who holds mounts.write() across steps
    next_fs_id,
    path_cache, cache_lru,
    files,         \* the paths of each file system, with type and size
    pc, op, path, at,   \* a call in progress: what, where, and resolved to
    handle,        \* the FileHandle each thread has open
    raced          \* a change of the mount table met a resolver or failed

table == <<mounts, writer, next_fs_id>>
cache == <<path_cache, cache_lru>>
call == <<op, path, at>>
vars == <<table, cache, files, pc, call, handle, raced>>
-----------------------------------------------------------------------------
Tail1(cs) == IF cs = <<>> THEN <<>> ELSE Front(cs)

normalize_path(p) ==
    FoldLeft(LAMBDA cs, c : IF c = "." THEN cs
                            ELSE IF c = ".." THEN Tail1(cs) ELSE Append(cs, c), <<>>, p)

Paths == {normalize_path(p) : p \in RawPaths}
Nowhere == [id |-> 0, rel |-> <<>>]
NoHandle == [id |-> 0, dev |-> NoDevice, rel |-> <<>>, append |-> FALSE, pos |-> 0]
Root == [type |-> "dir", size |-> 0]

\* the mounts in the order they were made
SortNever(ms) == ms

SortLongestFirst(ms) == SortSeq(ms, LAMBDA m, n : Len(m.path) > Len(n.path))

\* the first mount whose path is the path or an ancestor of it
Matching(ms, p) == SelectSeq(ms, LAMBDA m : IsPrefix(m.path, p))
Relative(m, p) == SubSeq(p, Len(m.path) + 1, Len(p))
Resolve(ms, p) ==
    LET m == Head(Matching(ms, p)) IN [id |-> m.id, rel |-> Relative(m, p)]

MountOf(id) == {m \in Range(mounts) : m.id = id}

\* while lru.len() >= MAX_PATH_CACHE_SIZE: the oldest goes
Evict(lru) ==
    IF Len(lru) < MAX_PATH_CACHE_SIZE THEN lru
    ELSE SubSeq(lru, Len(lru) - MAX_PATH_CACHE_SIZE + 2, Len(lru))
Evicted(lru) == Range(SubSeq(lru, 1, Len(lru) - Len(Evict(lru))))

MoveToEnd(lru, p) ==
    LET i == SelectInSeq(lru, LAMBDA q : q = p)
    IN Append(IF i = 0 THEN lru ELSE RemoveAt(lru, i), p)
-----------------------------------------------------------------------------
Init ==
    /\ mounts = <<>> /\ writer = NoThread /\ next_fs_id = 1
    /\ path_cache = <<>> /\ cache_lru = <<>>
    /\ files = [d \in Devices |-> (<<>> :> Root)]
    /\ pc = [t \in Threads |-> "idle"] /\ op = [t \in Threads |-> "none"]
    /\ path = [t \in Threads |-> <<>>] /\ at = [t \in Threads |-> Nowhere]
    /\ handle = [t \in Threads |-> NoHandle]
    /\ raced = FALSE

Goto(t, from, to) == pc[t] = from /\ pc' = [pc EXCEPT ![t] = to]
Return(t) ==
    /\ pc' = [pc EXCEPT ![t] = "idle"] /\ op' = [op EXCEPT ![t] = "none"]
    /\ path' = [path EXCEPT ![t] = <<>>] /\ at' = [at EXCEPT ![t] = Nowhere]

Resolving == \E t \in Threads : pc[t] = "insert"

\* ids counted by the mounts there are
MountBeginReuse(t, p, d) ==
    /\ Goto(t, "idle", "mount") /\ next_fs_id <= MaxIds
    /\ \A u \in Threads : op[u] # d
    /\ \A i \in DOMAIN mounts : mounts[i].dev # d
    /\ next_fs_id' = next_fs_id + 1
    /\ op' = [op EXCEPT ![t] = d] /\ path' = [path EXCEPT ![t] = p]
    /\ at' = [at EXCEPT ![t] = [Nowhere EXCEPT !.id = Len(mounts) + 1]]
    /\ UNCHANGED <<mounts, writer, cache, files, handle, raced>>

\* fs.mount() worked; the id is taken before the lock on the table
MountBegin(t, p, d) ==
    /\ Goto(t, "idle", "mount") /\ next_fs_id <= MaxIds
    /\ \A u \in Threads : op[u] # d        \* a Box has one owner
    /\ \A i \in DOMAIN mounts : mounts[i].dev # d
    /\ next_fs_id' = next_fs_id + 1
    /\ op' = [op EXCEPT ![t] = d] /\ path' = [path EXCEPT ![t] = p]
    /\ at' = [at EXCEPT ![t] = [Nowhere EXCEPT !.id = next_fs_id]]
    /\ UNCHANGED <<mounts, writer, cache, files, handle, raced>>

\* two file systems on one mount point
MountAnyway(t) ==
    /\ Goto(t, "mount", "clear") /\ writer = NoThread
    /\ writer' = t
    /\ mounts' = SortLongestFirst(
                   Append(mounts, [path |-> path[t], id |-> at[t].id, dev |-> op[t]]))
    /\ raced' = (raced \/ Resolving)
    /\ UNCHANGED <<next_fs_id, cache, files, call, handle>>

\* the table is changed, and stays locked while the cache is cleared
Mount(t) ==
    /\ pc[t] = "mount" /\ writer = NoThread
    /\ \/ /\ \E m \in Range(mounts) : m.path = path[t]     \* AlreadyExists
          /\ Return(t)
          /\ UNCHANGED <<table, raced>>
       \/ /\ \A m \in Range(mounts) : m.path # path[t]
          /\ Goto(t, "mount", "clear")
          /\ writer' = t
          /\ mounts' = SortLongestFirst(
                         Append(mounts, [path |-> path[t], id |-> at[t].id, dev |-> op[t]]))
          /\ raced' = (raced \/ Resolving)
          /\ UNCHANGED <<next_fs_id, call>>
    /\ UNCHANGED <<cache, files, handle>>

\* the mount is gone even if fs.unmount() fails; the cache is then kept
Unmount(t, p) ==
    /\ pc[t] = "idle" /\ writer = NoThread
    /\ \E i \in DOMAIN mounts : mounts[i].path = p /\ mounts' = RemoveAt(mounts, i)
    /\ \/ /\ Goto(t, "idle", "clear") /\ writer' = t
          /\ raced' = (raced \/ Resolving)
       \/ /\ raced' = TRUE /\ UNCHANGED <<pc, writer>>
    /\ UNCHANGED <<next_fs_id, cache, files, call, handle>>

\* a clear that forgets the cache
ClearNothing(t) ==
    /\ Goto(t, "clear", "clear_lru")
    /\ UNCHANGED <<table, cache, files, call, handle, raced>>

ClearCache(t) ==
    /\ Goto(t, "clear", "clear_lru")
    /\ path_cache' = <<>>
    /\ UNCHANGED <<table, cache_lru, files, call, handle, raced>>

ClearLru(t) ==
    /\ pc[t] = "clear_lru" /\ Return(t)
    /\ cache_lru' = <<>> /\ writer' = NoThread
    /\ UNCHANGED <<mounts, next_fs_id, path_cache, files, handle, raced>>
-----------------------------------------------------------------------------
\* resolve_path: a hit moves the path to the end of the LRU order
Lookup(t, o, raw) ==
    LET p == normalize_path(raw) IN
    /\ pc[t] = "idle"
    /\ op' = [op EXCEPT ![t] = o] /\ path' = [path EXCEPT ![t] = p]
    /\ IF p \in DOMAIN path_cache
         THEN /\ Goto(t, "idle", "resolved")
              /\ at' = [at EXCEPT ![t] = path_cache[p]]
              /\ cache_lru' = MoveToEnd(cache_lru, p)
         ELSE Goto(t, "idle", "miss") /\ UNCHANGED <<at, cache_lru>>
    /\ UNCHANGED <<table, path_cache, files, handle, raced>>

ResolvePath(t) ==
    /\ pc[t] = "miss" /\ writer = NoThread
    /\ IF Matching(mounts, path[t]) = <<>>
         THEN Return(t)                                    \* NotMounted
         ELSE /\ Goto(t, "miss", "insert")
              /\ at' = [at EXCEPT ![t] = Resolve(mounts, path[t])]
              /\ UNCHANGED <<op, path>>
    /\ UNCHANGED <<table, cache, files, handle, raced>>

\* an insertion that evicts one entry too late
InsertOneTooMany(t) ==
    /\ Goto(t, "insert", "resolved")
    /\ cache_lru' = Append(cache_lru, path[t])
    /\ path_cache' = (path[t] :> at[t]) @@ path_cache
    /\ UNCHANGED <<table, files, call, handle, raced>>

CacheInsert(t) ==
    /\ Goto(t, "insert", "resolved")
    /\ cache_lru' = Append(Evict(cache_lru), path[t])
    /\ path_cache' = (path[t] :> at[t]) @@
            [p \in DOMAIN path_cache \ Evicted(cache_lru) |-> path_cache[p]]
    /\ UNCHANGED <<table, files, call, handle, raced>>

\* the section on the mount table of stat, create, mkdir, unlink and open
Touch(t, d) ==
    LET rel == at[t].rel
        there == rel \in DOMAIN files[d]
        Put(type) == files' = [files EXCEPT ![d] = (rel :> [Root EXCEPT !.type = type]) @@ @]
    IN
    \/ /\ op[t] = "stat" /\ Return(t) /\ UNCHANGED <<files, handle>>
    \/ /\ op[t] \in {"create", "mkdir"} /\ Return(t) /\ UNCHANGED handle
       /\ IF there THEN UNCHANGED files             \* AlreadyExists
          ELSE Put(IF op[t] = "mkdir" THEN "dir" ELSE "file")
    \/ /\ op[t] = "unlink" /\ Return(t) /\ UNCHANGED handle
       /\ IF there /\ files[d][rel].type = "file"
            THEN files' = [files EXCEPT ![d] = [r \in DOMAIN @ \ {rel} |-> @[r]]]
            ELSE UNCHANGED files
    \/ /\ op[t] \in {"open", "append"}
       /\ IF ~there /\ op[t] = "append"            \* flags.create
            THEN Goto(t, "resolved", "create") /\ UNCHANGED <<call, handle>>
          ELSE IF ~there THEN Return(t) /\ UNCHANGED handle
          ELSE /\ Return(t)
               /\ IF files[d][rel].type = "dir" THEN UNCHANGED handle   \* IsDirectory
                  ELSE handle' = [handle EXCEPT ![t] =
                         [id |-> at[t].id, dev |-> d, rel |-> rel,
                          append |-> op[t] = "append", pos |-> 0]]
       /\ UNCHANGED files

Operate(t) ==
    /\ pc[t] = "resolved" /\ writer = NoThread
    /\ IF MountOf(at[t].id) = {} THEN Return(t) /\ UNCHANGED <<files, handle>>
       ELSE \E m \in MountOf(at[t].id) : Touch(t, m.dev)
    /\ UNCHANGED <<table, cache, raced>>

\* open() with flags.create: the lock is dropped and taken again
OpenCreate(t) ==
    /\ pc[t] = "create" /\ writer = NoThread /\ Return(t)
    /\ IF \E m \in MountOf(at[t].id) : at[t].rel \notin DOMAIN files[m.dev]
         THEN \E m \in MountOf(at[t].id) :
                /\ files' = [files EXCEPT ![m.dev] =
                       (at[t].rel :> [type |-> "file", size |-> 0]) @@ @]
                /\ handle' = [handle EXCEPT ![t] =
                       [id |-> at[t].id, dev |-> m.dev, rel |-> at[t].rel,
                        append |-> op[t] = "append", pos |-> 0]]
         ELSE UNCHANGED <<files, handle>>
    /\ UNCHANGED <<table, cache, raced>>

\* the place a write goes to: append mode asks for the attributes of "/"
WriteAt(h) == IF h.append THEN files[h.dev][<<>>].size ELSE h.pos

\* write() of one byte through a handle
Write(t) ==
    LET h == handle[t] IN
    /\ pc[t] = "idle" /\ writer = NoThread
    /\ \E m \in MountOf(h.id) :
         /\ h.rel \in DOMAIN files[m.dev] /\ WriteAt(h) < MaxSize /\ h.pos < MaxSize
         /\ LET size == files[m.dev][h.rel].size
            IN files' = [files EXCEPT ![m.dev][h.rel].size =
                           IF size > WriteAt(h) THEN size ELSE WriteAt(h) + 1]
    /\ handle' = [handle EXCEPT ![t].pos = @ + 1]
    /\ UNCHANGED <<table, cache, pc, call, raced>>

Step(t) ==
    \/ Mount(t) \/ ClearCache(t) \/ ClearLru(t)
    \/ ResolvePath(t) \/ CacheInsert(t) \/ Operate(t) \/ OpenCreate(t)

Next ==
    \E t \in Threads :
        \/ \E p \in MountPaths : Unmount(t, p) \/ \E d \in Devices : MountBegin(t, p, d)
        \/ \E p \in RawPaths, o \in Ops : Lookup(t, o, p)
        \/ Step(t) \/ Write(t)
-----------------------------------------------------------------------------
\* Types of the mount table, the cache and the handles.
TypeOK ==
    /\ next_fs_id \in 1..(MaxIds + 1) /\ writer \in Threads \cup {NoThread}
    /\ \A i \in DOMAIN mounts : mounts[i].path \in MountPaths /\ mounts[i].dev \in Devices
    /\ DOMAIN path_cache \subseteq Paths /\ Range(cache_lru) \subseteq Paths
    /\ \A d \in Devices : <<>> \in DOMAIN files[d]
    /\ pc \in [Threads -> {"idle", "mount", "clear", "clear_lru", "miss", "insert",
                           "resolved", "create"}]
    /\ DOMAIN handle = Threads /\ raced \in BOOLEAN

\* the mount a path belongs to: the one with the longest path above it
Owner(p) ==
    {m \in Range(mounts) : /\ IsPrefix(m.path, p)
                           /\ \A n \in Range(mounts) : IsPrefix(n.path, p)
                                 => Len(n.path) <= Len(m.path)}

\* As long as no change of the mount table overtakes a resolver and no unmount
\* fails, every cached path belongs to the file system with the longest mount
\* path above it, is in the LRU order, and the cache keeps its bound.
CacheCoherent ==
    ~raced /\ writer = NoThread =>
        /\ \A p \in DOMAIN path_cache :
              \E m \in Owner(p) : path_cache[p] = [id |-> m.id, rel |-> Relative(m, p)]
        /\ DOMAIN path_cache \subseteq Range(cache_lru)
        /\ Cardinality(DOMAIN path_cache) <= MAX_PATH_CACHE_SIZE

\* A mount path and an id name one file system: a handle that outlives an
\* unmount reaches nothing, and never another file system mounted since.
HandlesKeepTheirFs ==
    /\ \A m, n \in Range(mounts) : m.path = n.path \/ m.id = n.id => m = n
    /\ \A t \in Threads : \A m \in MountOf(handle[t].id) : m.dev = handle[t].dev
=============================================================================
