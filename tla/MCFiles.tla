------------------------------- MODULE MCFiles ------------------------------
(***************************************************************************)
(* PsychicFS and the virtual file system for TLC.  A behaviour exercises   *)
(* one `part`: PsychicFS with crashes ("psychicfs"), two threads that      *)
(* resolve paths while file systems are mounted and unmounted              *)
(* ("resolve"), or one thread with every operation ("operate").            *)
(***************************************************************************)
EXTENDS PsychicFS

CONSTANTS Resolvers, Caller, NoThread, Devices, NoDevice

VARIABLES
    part, mounts, writer, next_fs_id, path_cache, cache_lru, files,
    vfs_pc, op, path, at, handle, raced

Resolving == INSTANCE Vfs WITH
    Threads <- Resolvers, Ops <- {"stat"},
    RawPaths <- {<<"a">>, <<"a", "b", "..", ".", "b">>}, MountPaths <- {<<>>, <<"a">>},
    MAX_PATH_CACHE_SIZE <- 1, MaxIds <- 3, MaxSize <- 1, pc <- vfs_pc
Operating == INSTANCE Vfs WITH
    Threads <- {Caller}, Ops <- {"stat", "create", "mkdir", "unlink", "open", "append"},
    RawPaths <- {<<"a", "b">>}, MountPaths <- {<<"a">>},
    MAX_PATH_CACHE_SIZE <- 1, MaxIds <- 2, MaxSize <- 2, pc <- vfs_pc

vfs_vars == <<mounts, writer, next_fs_id, path_cache, cache_lru, files, vfs_pc, op, path, at, handle, raced>>
all_vars == <<part, vars, vfs_vars>>
-----------------------------------------------------------------------------
FilesInit ==
    /\ part \in {"psychicfs", "resolve", "operate"}
    /\ Init
    /\ IF part = "operate" THEN Operating!Init ELSE Resolving!Init

FilesNext ==
    /\ UNCHANGED part
    /\ \/ part = "psychicfs" /\ Next /\ UNCHANGED vfs_vars
       \/ part = "resolve" /\ Resolving!Next /\ UNCHANGED vars
       \/ part = "operate" /\ Operating!Next /\ UNCHANGED vars

FilesSpec == FilesInit /\ [][FilesNext]_all_vars
-----------------------------------------------------------------------------
\* Every variable of the two file systems has its type.
TypesOK ==
    CASE part = "psychicfs" -> TypeOK
      [] part = "operate" -> Operating!TypeOK
      [] part = "resolve" -> Resolving!TypeOK

\* PsychicFS: a name leads to one file, and every block of a file is mapped by one
\* extent, through every order of calls, failed disk writes and power failures.
FilesSound == part = "psychicfs" => NamesUnique /\ ExtentsCoverFile

\* VFS: as long as no change of the mount table met a resolver, what the path cache
\* answers is what the mount table says, and an open handle leads to the file system
\* it was opened on for as long as that is mounted.
PathsLeadToTheirFs ==
    CASE part = "operate" -> Operating!CacheCoherent /\ Operating!HandlesKeepTheirFs
      [] part = "resolve" -> Resolving!CacheCoherent /\ Resolving!HandlesKeepTheirFs
      [] OTHER -> TRUE
=============================================================================
