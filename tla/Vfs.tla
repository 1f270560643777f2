-------------------------------- MODULE Vfs ---------------------------------
(***************************************************************************)
(* Open files: the node pool of fs/vfs.c, the descriptor tables of the     *)
(* tasks (task_t.files) and the file cases of process/syscall.c, on top of *)
(* the ext2 reader.  do_switch does not switch in ring 0 and IRQ1 touches  *)
(* none of this state, so each of these syscalls is one step; the tasks'   *)
(* syscalls interleave freely.                                             *)
(***************************************************************************)
EXTENDS Ext2

CONSTANTS
  Tasks,           \* the registered tasks
  VFS_POOL_SIZE,   \* nodes shared by all tasks
  MAX_FD,          \* size of a descriptor table; 0, 1 and 2 are never used
  Images,          \* disk images that may be mounted
  Paths,           \* paths programs pass to SYS_OPEN
  Counts           \* byte counts programs pass to SYS_READ

ASSUME VfsAssumption == VFS_POOL_SIZE \in Nat /\ MAX_FD \in Nat /\ Counts \subseteq Nat

(* A file of an image: numbers in its inode, bytes in its direct blocks. *)
FileOK(i, ino) ==
  /\ i.inode[ino].i_size \in Nat
  /\ \A k \in 0..(NDIRECT - 1) : LET b == i.inode[ino].i_block[k] IN
       b # 0 => \A j \in 0..(block_size - 1) : i.block[b][j] \in Nat

ASSUME ImagesAssumption ==
  \A i \in Images :
    /\ Len(i.dirent) \in Nat
    /\ \A k \in 1..Len(i.dirent) : LET ino == i.dirent[k].inode IN
         ino \in Nat /\ (ino # 0 => FileOK(i, ino))

Pool   == 0..(VFS_POOL_SIZE - 1)
Fds    == 0..(MAX_FD - 1)
NULL   == -1
Closed == [node |-> NULL, used |-> 0]

VARIABLES
  img,          \* the mounted image, read-only
  node_used,    \* node_pool[n].used
  node_inode,   \* node_pool[n].inode
  files,        \* node and used of files[fd], by task
  offset,       \* offset of files[fd], by task
  got           \* history: the bytes each descriptor has returned since it was opened

vars == <<img, node_used, node_inode, files, offset, got>>

(* vfs_init, and the empty tables sched_add_task gives every task *)
Init ==
  /\ img \in Images
  /\ node_used = [n \in Pool |-> 0] /\ node_inode = [n \in Pool |-> 0]
  /\ files = [t \in Tasks |-> [fd \in Fds |-> Closed]]
  /\ offset = [t \in Tasks |-> [fd \in Fds |-> 0]]
  /\ got = [t \in Tasks |-> [fd \in Fds |-> <<>>]]

-----------------------------------------------------------------------------
(* A path is a sequence whose first element may be "/", which is skipped. *)
FileName(path) == IF path[1] = "/" THEN Tail(path) ELSE path

IsFirst(i, S) == i \in S /\ \A j \in S : i <= j

(* Mutated form: the scan of the pool does not look at `used`. *)
mut_FreeNodes == Pool

FreeNodes == {n \in Pool : node_used[n] = 0}

(* Mutated form: the descriptor search starts at 0. *)
mut_FreeFds(t) == {fd \in Fds : files[t][fd].used = 0}

FreeFds(t) == {fd \in 3..(MAX_FD - 1) : files[t][fd].used = 0}

(* vfs_open returns NULL: pool full, or no such file *)
OpenFails(t, path) ==
  /\ FreeNodes = {} \/ ext2_find(img, FileName(path)) = 0
  /\ UNCHANGED vars

(* vfs_open takes node n for the file *)
FillNode(n, path) ==
  /\ IsFirst(n, FreeNodes)
  /\ ext2_find(img, FileName(path)) # 0
  /\ node_inode' = [node_inode EXCEPT ![n] = ext2_find(img, FileName(path))]

OpenSucceeds(t, path) ==
  \E n \in FreeNodes, fd \in FreeFds(t) :
    /\ FillNode(n, path)
    /\ node_used' = [node_used EXCEPT ![n] = 1]
    /\ IsFirst(fd, FreeFds(t))
    /\ files' = [files EXCEPT ![t][fd] = [node |-> n, used |-> 1]]
    /\ offset' = [offset EXCEPT ![t][fd] = 0]
    /\ got' = [got EXCEPT ![t][fd] = <<>>]
    /\ UNCHANGED img

(* Mutated form: the node is not given back. *)
mut_vfs_close(n, used) == used

(* the pool's `used` fields after closing node n *)
vfs_close(n, used) == [used EXCEPT ![n] = 0]

(* the descriptor table is full: the node just filled is given back *)
OpenNoFd(t, path) ==
  \E n \in FreeNodes :
    /\ FillNode(n, path)
    /\ FreeFds(t) = {}
    /\ node_used' = vfs_close(n, [node_used EXCEPT ![n] = 1])
    /\ UNCHANGED <<img, files, offset, got>>

SysOpen(t, path) == OpenFails(t, path) \/ OpenSucceeds(t, path) \/ OpenNoFd(t, path)

(* fd < 3 || fd >= MAX_FD || !files[fd].used *)
BadFd(t, fd) == fd \notin {f \in 3..(MAX_FD - 1) : files[t][f].used = 1}

SysClose(t, fd) ==
  /\ ~BadFd(t, fd)
  /\ node_used' = vfs_close(files[t][fd].node, node_used)
  /\ files' = [files EXCEPT ![t][fd] = Closed]
  /\ offset' = [offset EXCEPT ![t][fd] = 0]
  /\ got' = [got EXCEPT ![t][fd] = <<>>]
  /\ UNCHANGED <<img, node_inode>>

SysRead(t, fd, count) ==
  /\ ~BadFd(t, fd)
  /\ LET data == ext2_pread(img, node_inode[files[t][fd].node], offset[t][fd], count) IN
     /\ offset' = [offset EXCEPT ![t][fd] = (@ + Len(data)) % WORD]
     /\ got' = [got EXCEPT ![t][fd] = @ \o data]
  /\ UNCHANGED <<img, node_used, node_inode, files>>

(* SYS_CLOSE and SYS_READ of a descriptor that is not open return -1. *)
SysBadFd(t, fd) == BadFd(t, fd) /\ UNCHANGED vars

Next ==
  \E t \in Tasks :
    \/ \E path \in Paths : SysOpen(t, path)
    \/ \E fd \in (-1)..MAX_FD : SysClose(t, fd) \/ SysBadFd(t, fd)
    \/ \E fd \in (-1)..MAX_FD, count \in Counts : SysRead(t, fd, count)

Spec == Init /\ [][Next]_vars

-----------------------------------------------------------------------------
(* Every variable has its type; descriptors 0, 1 and 2 stay unused. *)
TypeOK ==
  /\ img \in Images
  /\ node_used \in [Pool -> {0, 1}] /\ node_inode \in [Pool -> Nat]
  /\ files \in [Tasks -> [Fds -> [node : Pool \cup {NULL}, used : {0, 1}]]]
  /\ \A t \in Tasks, fd \in Fds : fd < 3 => files[t][fd] = Closed
  /\ offset \in [Tasks -> [Fds -> 0..(WORD - 1)]]
  /\ got \in [Tasks -> [Fds -> Seq(Nat)]]

OpenFds(t) == {fd \in Fds : files[t][fd].used = 1}

(* Every open descriptor has a live node of its own: no two descriptors,   *)
(* of one task or of two, share a node, so that closing one never pulls    *)
(* the file from under another.                                            *)
NodesNotShared ==
  \A t, u \in Tasks : \A f \in OpenFds(t), g \in OpenFds(u) :
    /\ files[t][f].node \in Pool /\ node_used[files[t][f].node] = 1
    /\ files[t][f].node = files[u][g].node => t = u /\ f = g

(* No node leaks: a used node of the pool belongs to an open descriptor,   *)
(* also after a SYS_OPEN that found the descriptor table full.             *)
NoNodeLeak ==
  \A n \in Pool : node_used[n] = 1 => \E t \in Tasks : \E f \in OpenFds(t) : files[t][f].node = n

InodeOf(t, f) == node_inode[files[t][f].node]

(* What a descriptor has returned since SYS_OPEN is the beginning of its   *)
(* file, up to its offset, holes read as zeros: whatever the sizes of the  *)
(* reads, the blocks they straddle and the files other descriptors read.   *)
ReadsAreSequential ==
  \A t \in Tasks : \A f \in OpenFds(t) :
    LET content == Content(img, InodeOf(t, f)) IN
    /\ offset[t][f] = Len(got[t][f])
    /\ Len(got[t][f]) <= Len(content)
    /\ got[t][f] = SubSeq(content, 1, Len(got[t][f]))

(* SYS_LS, which changes nothing here, and SYS_OPEN walk the directory     *)
(* with loops of their own: they agree on which names there are.           *)
LsShowsOpenable ==
  LET names == {FileName(p) : p \in Paths} IN
  ext2_ls(img) \cap names = {name \in names : ext2_find(img, name) # 0}

(* What ext2.c says of ext2_pread, "lee size bytes ... del archivo": no    *)
(* read gets past the end of the file.                                     *)
ReadWithinFile ==
  \A t \in Tasks : \A f \in OpenFds(t) : offset[t][f] <= img.inode[InodeOf(t, f)].i_size
=============================================================================
