------------------------------- MODULE FileSys -------------------------------
(***************************************************************************)
(* The file system of fs/: names, inodes, bitmaps and data blocks on disk,  *)
(* the partition's copies of them in memory, and the table of open files.   *)
(*                                                                         *)
(* One process makes system calls one after the other.  A call works on     *)
(* memory and hands the disk a sequence of writes; nobody sees memory in    *)
(* between, so the call is one step that leaves its writes in todo, and     *)
(* Flush carries them out one by one.  Power may fail: the disk keeps what  *)
(* was written, mount_partition reads memory back from it.                  *)
(*                                                                         *)
(* A block holds directory entries, a table of further blocks, or file      *)
(* contents, which are not told apart.  The size of a directory is counted  *)
(* in entries.  Lba 0 is "no block"; lba 1 is data_start_lba.  sys_malloc   *)
(* succeeds.  A call that is refused changes nothing and is not a step.     *)
(***************************************************************************)
EXTENDS Integers, Sequences, FiniteSets, SequencesExt

CONSTANTS
    Name,             \* file names
    Depth,            \* longest path used
    NInodes,          \* MAX_FILES_PER_PART
    NBlocks,          \* bits of the block bitmap
    Partitions,       \* their blocks, the sizes of writes, a bound on files
    Direct,           \* 12, the sectors an inode names itself
    Indirect,         \* 128, the sectors of its table
    PerBlock,         \* dir_entrys_per_sec
    BLOCK_SIZE,
    MAX_FILE_OPEN,    \* slots of file_table after the three standard ones
    MaxFds,           \* descriptors of a process after the three standard ones
    InodeNoBits,      \* width of inode_no in inode_sync
    MaxLeft,          \* bound on the times a directory is left open
    MaxCrashes        \* bound on power failures within a call

ASSUME FileSysAssumption ==
    /\ Name \cap {"", ".", ".."} = {} /\ Depth \in Nat \ {0}
    /\ NInodes \in Nat \ {0} /\ NBlocks \in Nat \ {0}
    /\ Partitions \subseteq [blocks : 1..NBlocks, counts : SUBSET (1..NBlocks), max : Nat]
    /\ Direct \in Nat \ {0} /\ Indirect \in Nat \ {0} /\ PerBlock > 1
    /\ BLOCK_SIZE \in Nat \ {0}
    /\ MAX_FILE_OPEN \in Nat \ {0} /\ MaxFds \in Nat \ {0} /\ InodeNoBits \in Nat
    /\ MaxLeft \in Nat /\ MaxCrashes \in Nat

VARIABLES
    cur_part,    \* inode_bitmap, block_bitmap, open_inodes
    file_table,  \* fd_inode (0 if the slot is free) and whether fd_flag lets write
    fd_table,    \* slots the descriptors of the process refer to
    disk,        \* bitmaps, inode table and data blocks
    todo,        \* writes of the call in progress
    stop,        \* the ASSERT that failed or the loop that never ends, or ""
    geometry,    \* the partition: one of Partitions
    subject,     \* the path of what the call in progress works on, or <<>>
    crashes,     \* power failures within a call so far
    left,        \* history: how often sys_open left each directory open
    stale        \* history: an inode number was given out that open_inodes has

fsVars == <<cur_part, file_table, fd_table, disk, todo, stop, geometry, subject, crashes, left, stale>>

Ino  == 0..(NInodes - 1)
Blk  == 1..NBlocks
Slot == 1..MAX_FILE_OPEN
FreeSlot == [at |-> 0, write |-> FALSE]
Path == UNION {[1..n -> Name] : n \in 1..Depth}

NoEntry == [name |-> "", ino |-> 0, type |-> "unknown"]
Ent(name, n, type) == [name |-> name, ino |-> n, type |-> type]
DirBlock(s) == [kind |-> "dir", ents |-> [i \in 1..PerBlock |-> IF i <= Len(s) THEN s[i] ELSE NoEntry]]
TableBlock(t) == [kind |-> "table", table |-> t]
NoTable == [i \in 1..Indirect |-> 0]
Data == [kind |-> "data"]

\* struct inode as it is on disk, and with the fields that exist in memory only.
inode_init(n) == [no |-> n, size |-> 0, sectors |-> [i \in 0..Direct |-> 0]]
Pure(c) == [no |-> c.no, size |-> c.size, sectors |-> c.sectors]
Copy(i, at) == [no |-> i.no, size |-> i.size, sectors |-> i.sectors,
                i_open_cnts |-> 1, write_deny |-> FALSE, at |-> at]

------------------------------------------------------------------------------
(* Reading.  ents and table are what the bytes of a block mean to a reader.  *)

Ents(b)  == IF b.kind = "dir" THEN b.ents ELSE [i \in 1..PerBlock |-> NoEntry]
Table(b) == IF b.kind = "table" THEN b.table ELSE NoTable

\* The blocks 1..12 and 13..140 of an inode, 0 for none.
all_blocks(d, i) ==
    [k \in 1..(Direct + Indirect) |->
        IF k <= Direct THEN i.sectors[k - 1]
        ELSE IF i.sectors[Direct] = 0 THEN 0
        ELSE Table(d.blk[i.sectors[Direct]])[k - Direct]]

Found(open, n) == SelectInSeq(open, LAMBDA c : c.no = n)

\* inode_open: the copy in memory if there is one, else the one on disk.
inode_open(open, d, n) ==
    IF Found(open, n) # 0 THEN Pure(open[Found(open, n)]) ELSE d.itab[n]

search_dir_entry(d, dir, name) ==
    LET all == all_blocks(d, dir)
        ents == UNION {Range(Ents(d.blk[all[k]])) : k \in {k \in DOMAIN all : all[k] # 0}}
        hits == {e \in ents : e.name = name}
    IN IF hits = {} THEN NoEntry ELSE CHOOSE e \in hits : TRUE

\* ino is -1 if a component is missing; a regular file ends the search.
search_file(open, d, path) ==
    LET at[k \in 0..Len(path)] ==
        IF k = 0 THEN [ino |-> 0, type |-> "directory", parent |-> 0, depth |-> 0]
        ELSE LET up == at[k - 1]
                 e == search_dir_entry(d, inode_open(open, d, up.ino), path[k])
             IN IF up.type # "directory" THEN up
                ELSE IF e = NoEntry
                THEN [ino |-> -1, type |-> "unknown", parent |-> up.ino, depth |-> k]
                ELSE [ino |-> e.ino, type |-> e.type, parent |-> up.ino, depth |-> k]
    IN at[Len(path)]

------------------------------------------------------------------------------
(* A call in progress, p: the partition, the disk as it will be, the writes  *)
(* that make it so, whether the last step succeeded, the directory in hand.  *)

Started ==
    [inode_bitmap |-> cur_part.inode_bitmap, block_bitmap |-> cur_part.block_bitmap,
     open_inodes |-> cur_part.open_inodes, disk |-> disk, log |-> <<>>, ok |-> TRUE,
     stop |-> "", dir |-> inode_init(0), table |-> NoTable]

Stored(d, wr) ==
    CASE wr.to = "inode_bitmap" -> [d EXCEPT !.inode_bitmap = wr.val]
      [] wr.to = "block_bitmap" -> [d EXCEPT !.block_bitmap = wr.val]
      [] wr.to = "inode_table"  -> [d EXCEPT !.itab[wr.at] = wr.val]
      [] wr.to = "block"        -> [d EXCEPT !.blk[wr.at] = wr.val]

ide_write(p, to, at, val) ==
    LET wr == [to |-> to, at |-> at, val |-> val]
    IN [p EXCEPT !.disk = Stored(@, wr), !.log = Append(@, wr)]

bitmap_sync_inode(p) == ide_write(p, "inode_bitmap", 0, p.inode_bitmap)
bitmap_sync_block(p) == ide_write(p, "block_bitmap", 0, p.block_bitmap)

FreeInode(p) == IF Ino \subseteq p.inode_bitmap THEN -1 ELSE Min(Ino \ p.inode_bitmap)
FreeBlock(p) == IF Blk \subseteq p.block_bitmap THEN -1 ELSE Min(Blk \ p.block_bitmap)
inode_bitmap_alloc(p) == [p EXCEPT !.inode_bitmap = @ \cup {FreeInode(p)}]
\* Mutant: the bit is not set.
block_bitmap_alloc_unset(p) == p
block_bitmap_alloc(p) == [p EXCEPT !.block_bitmap = @ \cup {FreeBlock(p)}]
\* bitmap_set(.., 0) and bitmap_sync, as the two always go together.
ReleaseBlock(p, b) == bitmap_sync_block([p EXCEPT !.block_bitmap = @ \ {b}])

\* inode_no is a uint8_t here, while the bitmap hands out numbers up to 4096.
inode_sync(p, i) == ide_write(p, "inode_table", i.no % 2^InodeNoBits, i)

\* The directory in hand has changed: so has its copy in memory if it is open.
DirKept(p) ==
    LET k == Found(p.open_inodes, p.dir.no)
    IN IF k = 0 THEN p
       ELSE [p EXCEPT !.open_inodes[k].size = p.dir.size,
                      !.open_inodes[k].sectors = p.dir.sectors]

Failed(p) == [p EXCEPT !.ok = FALSE]
ASSERT(p, cond, where) == IF cond THEN p ELSE [p EXCEPT !.stop = where, !.ok = FALSE]

------------------------------------------------------------------------------
(* Directories.                                                              *)

\* A block taken from the bitmap, or failure.
Taken(p) == IF FreeBlock(p) = -1 THEN Failed(p) ELSE bitmap_sync_block(block_bitmap_alloc(p))

HasRoom(d, b) == \E i \in 1..PerBlock : Ents(d.blk[b])[i].type = "unknown"

\* Where sync_dir_entry puts an entry: the first block that has room or is not
\* there yet.  It does not read the table, so it finds every place from 12 on
\* unused and stops at the first.
EntryPlace(d, dir) ==
    Min({k \in 0..(Direct - 1) : dir.sectors[k] = 0 \/ HasRoom(d, dir.sectors[k])} \cup {Direct})

\* Mutant: the block is not read before it is written.
EntryInserted_alone(p, k, e) == ide_write(p, "block", p.dir.sectors[k], DirBlock(<<e>>))
\* The first free place of a block that has one.
EntryInserted(p, k, e) ==
    LET b == p.dir.sectors[k]
        i == Min({i \in 1..PerBlock : Ents(p.disk.blk[b])[i].type = "unknown"})
    IN ide_write(p, "block", b, [p.disk.blk[b] EXCEPT !.ents[i] = e])

\* A new first block of entries below Direct.
EntryInNewBlock(p, k, e) ==
    LET q == Taken(p)
        b == FreeBlock(p)
    IN IF ~q.ok THEN q
       ELSE ide_write([q EXCEPT !.dir.sectors[k] = b], "block", b, DirBlock(<<e>>))

\* A new table and its first block; if there is no block for the second, the
\* bit of the first is cleared in memory and stays set on disk.
EntryInNewTable(p, e) ==
    LET q == Taken(p)
        t == FreeBlock(p)
        r == Taken(q)
        b == FreeBlock(q)
        s == ide_write([r EXCEPT !.dir.sectors[Direct] = t], "block", t,
                       TableBlock([NoTable EXCEPT ![1] = b]))
    IN IF ~q.ok THEN q
       ELSE IF ~r.ok THEN [r EXCEPT !.block_bitmap = @ \ {t}, !.dir.sectors[Direct] = 0]
       ELSE ide_write(s, "block", b, DirBlock(<<e>>))

\* The entry is written; the caller writes the inode of the directory.
sync_dir_entry(p, n, e) ==
    LET q == [p EXCEPT !.dir = inode_open(p.open_inodes, p.disk, n)]
        k == EntryPlace(q.disk, q.dir)
        r == IF k = Direct THEN EntryInNewTable(q, e)
             ELSE IF q.dir.sectors[k] = 0 THEN EntryInNewBlock(q, k, e)
             ELSE EntryInserted(q, k, e)
    IN DirKept(IF r.ok THEN [r EXCEPT !.dir.size = @ + 1] ELSE r)

Dots == {".", ".."}
Names(b, n) == {i \in 1..PerBlock : Ents(b)[i].type # "unknown" /\ Ents(b)[i].name \notin Dots
                                    /\ Ents(b)[i].ino = n}
EntryCnt(b) == Cardinality({i \in 1..PerBlock : Ents(b)[i].type # "unknown"
                                                /\ Ents(b)[i].name \notin Dots})
is_dir_first_block(b) == \E i \in 1..PerBlock : Ents(b)[i].name = "."

\* The last entry of a block that is not the first gives the block back.  From
\* block 13 on the loop that counts the table's blocks never ends.
EntryErased(p, k, b, n) ==
    LET content == p.disk.blk[b]
        freed == ReleaseBlock(p, b)
    IN IF EntryCnt(content) = 1 /\ ~is_dir_first_block(content)
       THEN IF k <= Direct THEN [freed EXCEPT !.dir.sectors[k - 1] = 0]
            ELSE ASSERT(freed, FALSE, "dir.c:238")
       ELSE ide_write(p, "block", b,
                      [content EXCEPT !.ents[CHOOSE i \in Names(content, n) : TRUE] = NoEntry])

\* The entry that names inode n leaves directory dn.
delete_dir_entry(p, dn, n) ==
    LET q == [p EXCEPT !.dir = inode_open(p.open_inodes, p.disk, dn)]
        all == all_blocks(q.disk, q.dir)
        hits == {k \in DOMAIN all : all[k] # 0 /\ Names(q.disk.blk[all[k]], n) # {}}
        k == Min(hits)
        once == ASSERT(q, Cardinality(Names(q.disk.blk[all[k]], n)) = 1, "dir.c:214")
        r == EntryErased(once, k, all[k], n)
        s == ASSERT(r, r.dir.size >= 1, "dir.c:261")
        t == DirKept([s EXCEPT !.dir.size = @ - 1])
    IN IF hits = {} THEN p
       ELSE IF ~once.ok THEN once
       ELSE IF ~s.ok THEN s
       ELSE inode_sync(t, t.dir)

\* Blocks, bitmap bit and table entry of inode n are given up.
inode_release(p, n) ==
    LET i == inode_open(p.open_inodes, p.disk, n)
        q == ASSERT(p, i.no = n, "inode.c:122")
        t == i.sectors[Direct]
        all == all_blocks(p.disk, i)
        blocks == (IF t = 0 THEN <<>> ELSE <<t>>) \o SelectSeq(all, LAMBDA b : b # 0)
        r == FoldLeft(ReleaseBlock, q, blocks)
        s == bitmap_sync_inode([r EXCEPT !.inode_bitmap = @ \ {n}])
    IN IF ~q.ok THEN q ELSE ide_write(s, "inode_table", n, inode_init(0))

------------------------------------------------------------------------------
(* Open files.                                                               *)

get_free_slot_in_global ==
    LET free == {s \in Slot : file_table[s].at = 0} IN IF free = {} THEN -1 ELSE Min(free)

Address(open) == Min({a \in 1..(Len(open) + 1) : \A k \in DOMAIN open : open[k].at # a})
At(open, a) == CHOOSE k \in DOMAIN open : open[k].at = a

\* list_push puts a new copy first, where the next search meets it.
Pushed(open, i) == <<Copy(i, Address(open))>> \o open

\* Mutant: open_inodes is not searched.
Opened_again(open, d, n) == Pushed(open, d.itab[n])
\* inode_open for a holder that keeps it.
Opened(open, d, n) ==
    IF Found(open, n) # 0 THEN [open EXCEPT ![Found(open, n)].i_open_cnts = @ + 1]
    ELSE Pushed(open, d.itab[n])
OpenedAt(open, n) == IF Found(open, n) # 0 THEN open[Found(open, n)].at ELSE Address(open)

inode_close(open, a) ==
    LET k == At(open, a)
    IN IF open[k].i_open_cnts = 1 THEN RemoveAt(open, k)
       ELSE [open EXCEPT ![k].i_open_cnts = @ - 1]

pcb_fd_install(s) == IF Cardinality(fd_table) < MaxFds THEN fd_table \cup {s} ELSE fd_table

\* One more block of a file: its number goes into the inode or the table.
Grown(p, k, idx) ==
    LET b == FreeBlock(p)
        q == ASSERT(block_bitmap_alloc(p),
                    idx < Direct => p.open_inodes[k].sectors[idx] = 0, "file.c:261")
        r == IF idx < Direct THEN [q EXCEPT !.open_inodes[k].sectors[idx] = b]
             ELSE [q EXCEPT !.table[idx - Direct + 1] = b]
    IN IF ~p.ok THEN p ELSE IF b = -1 THEN Failed(p)
       ELSE IF ~q.ok THEN q ELSE bitmap_sync_block(r)

\* The first block of an empty file.
FirstBlock(p, k) ==
    LET q == [block_bitmap_alloc(p) EXCEPT !.open_inodes[k].sectors[0] = FreeBlock(p)]
    IN IF p.open_inodes[k].sectors[0] # 0 THEN p
       ELSE IF FreeBlock(p) = -1 THEN Failed(p) ELSE bitmap_sync_block(q)

\* The table of block numbers, read or, when block 13 is first needed, new.
TableReady(p, k, has, will) ==
    LET b == FreeBlock(p)
        t == p.open_inodes[k].sectors[Direct]
        q == ASSERT(block_bitmap_alloc(p), t = 0, "file.c:278")
    IN IF ~p.ok \/ will <= Direct THEN p
       ELSE IF has > Direct THEN [p EXCEPT !.table = Table(p.disk.blk[t])]
       ELSE IF b = -1 THEN Failed(p)
       ELSE IF ~q.ok THEN q ELSE [q EXCEPT !.open_inodes[k].sectors[Direct] = b]

\* Blocks has + 1 .. will are added to the file of copy k.
Extended(p, k, has, will) ==
    LET there == IF will > has /\ will <= Direct THEN p.open_inodes[k].sectors[has - 1] # 0
                 ELSE has > Direct => p.open_inodes[k].sectors[Direct] # 0
        q == TableReady(ASSERT(p, there, "file.c:251"), k, has, will)
        r == FoldLeft(LAMBDA x, idx : Grown(x, k, idx), q, [i \in 1..(will - has) |-> has + i - 1])
    IN IF r.ok /\ will > Direct /\ will > has
       THEN ide_write(r, "block", r.open_inodes[k].sectors[Direct], TableBlock(r.table))
       ELSE r

\* A failed write leaves what it took with the copy in memory: the inode is
\* written only at the end.
file_write(p, k, count) ==
    LET size == p.open_inodes[k].size
        has  == size \div BLOCK_SIZE + 1
        will == (size + count) \div BLOCK_SIZE + 1
        q == FirstBlock(p, k)
        r == ASSERT(q, will <= Direct + Indirect, "file.c:236")
        s == Extended(r, k, has, will)
        all == all_blocks(s.disk, s.open_inodes[k])
        last == (size + count - 1) \div BLOCK_SIZE + 1
        t == FoldLeft(LAMBDA x, b : ide_write(x, "block", b, Data), s, SubSeq(all, has, last))
        u == [t EXCEPT !.open_inodes[k].size = @ + count]
    IN IF ~q.ok THEN q ELSE IF ~r.ok THEN r ELSE IF ~s.ok THEN s
       ELSE inode_sync(u, Pure(u.open_inodes[k]))

------------------------------------------------------------------------------
(* System calls.                                                             *)

Ready == todo = <<>> /\ stop = ""

\* The call has worked on memory; what it wrote goes to the disk in order.
Call(p, about) ==
    /\ cur_part' = [inode_bitmap |-> p.inode_bitmap, block_bitmap |-> p.block_bitmap,
                    open_inodes |-> p.open_inodes]
    /\ todo' = p.log
    /\ stop' = p.stop
    /\ subject' = IF p.log = <<>> THEN <<>> ELSE about
    /\ UNCHANGED <<disk, geometry, crashes>>

Search(path) == search_file(cur_part.open_inodes, disk, path)
Absent(path) == Search(path).ino = -1 /\ Search(path).depth = Len(path)

\* The number n of a new inode: a removed directory that sys_open has left open
\* is still in open_inodes, where inode_open will find it under this number.
NumberGiven(p, n) ==
    /\ stale' = (stale \/ (p.ok /\ Found(cur_part.open_inodes, n) # 0))
    /\ UNCHANGED left

\* file_create: entry, directory inode, inode, bitmap, in this order.
Created(p, parent, name, n) ==
    LET q == sync_dir_entry(inode_bitmap_alloc(p), parent, Ent(name, n, "regular"))
        r == bitmap_sync_inode(inode_sync(inode_sync(q, q.dir), inode_init(n)))
    IN IF q.ok THEN [r EXCEPT !.open_inodes = Pushed(@, inode_init(n))]
       ELSE [q EXCEPT !.inode_bitmap = @ \ {n}]

file_create(path, write) ==
    LET slot == get_free_slot_in_global
        n == FreeInode(cur_part)
        p == Created(Started, Search(path).parent, Last(path), n)
    IN /\ n # -1 /\ slot # -1
       /\ Call(p, path)
       /\ NumberGiven(p, n)
       /\ IF p.ok
          THEN /\ file_table' = [file_table EXCEPT ![slot] =
                                   [at |-> Address(cur_part.open_inodes), write |-> write]]
               /\ fd_table' = pcb_fd_install(slot)
          ELSE UNCHANGED <<file_table, fd_table>>

\* sys_open does not close the directory, other than the root, in which it has
\* found the file, whether file_open then succeeds or not.
LeftOpen(path) ==
    IF Len(path) = 1 THEN left ELSE [left EXCEPT ![Search(path).parent] = @ + 1]

\* file_open: a second writer is refused and leaves its slot occupied.
file_open(path, write) ==
    LET r == Search(path)
        slot == get_free_slot_in_global
        open0 == IF Len(path) = 1 THEN cur_part.open_inodes
                 ELSE Opened(cur_part.open_inodes, disk, r.parent)
        open1 == Opened(open0, disk, r.ino)
        a == OpenedAt(open0, r.ino)
        k == At(open1, a)
        open2 == IF write THEN [open1 EXCEPT ![k].write_deny = TRUE] ELSE open1
    IN /\ left' = LeftOpen(path) /\ left'[r.parent] <= MaxLeft
       /\ Call([Started EXCEPT !.open_inodes = IF slot = -1 THEN open0 ELSE open2], path)
       /\ IF slot = -1 THEN UNCHANGED <<file_table, fd_table>>
          ELSE /\ file_table' = [file_table EXCEPT ![slot] = [at |-> a, write |-> write]]
               /\ fd_table' = IF write /\ open1[k].write_deny THEN fd_table ELSE pcb_fd_install(slot)
       /\ UNCHANGED stale

sys_open(path, write, creat) ==
    /\ Ready
    /\ IF creat THEN Absent(path) /\ file_create(path, write)
       ELSE /\ Search(path).type = "regular" /\ Search(path).depth = Len(path)
            /\ file_open(path, write)

sys_close(s) ==
    LET k == At(cur_part.open_inodes, file_table[s].at)
        open == [cur_part.open_inodes EXCEPT ![k].write_deny = FALSE]
    IN /\ Ready /\ s \in fd_table
       /\ Call([Started EXCEPT !.open_inodes = inode_close(open, file_table[s].at)], <<>>)
       /\ file_table' = [file_table EXCEPT ![s] = FreeSlot]
       /\ fd_table' = fd_table \ {s}
       /\ UNCHANGED <<left, stale>>

PathsTo(n) == {path \in Path : Search(path).ino = n /\ Search(path).depth = Len(path)}

sys_write(s, count) ==
    LET k == At(cur_part.open_inodes, file_table[s].at)
        i == cur_part.open_inodes[k]
    IN /\ Ready /\ s \in fd_table /\ file_table[s].write
       /\ i.size + count <= BLOCK_SIZE * (Direct + Indirect) /\ i.size + count <= geometry.max
       /\ \E path \in PathsTo(i.no) : Call(file_write(Started, k, count), path)
       /\ UNCHANGED <<file_table, fd_table, left, stale>>

\* Unlike sys_open it does not ask whether the whole path was followed: given a
\* path through a regular file it deletes that file.
sys_unlink(path) ==
    LET r == Search(path)
        p == delete_dir_entry(Started, r.parent, r.ino)
    IN /\ Ready /\ r.type = "regular"
       /\ \A s \in Slot : file_table[s].at # 0 =>
             cur_part.open_inodes[At(cur_part.open_inodes, file_table[s].at)].no # r.ino
       /\ Call(IF p.stop = "" THEN inode_release(p, r.ino) ELSE p, SubSeq(path, 1, r.depth))
       /\ UNCHANGED <<file_table, fd_table, left, stale>>

\* A directory whose entry finds no room gives its inode number back, not its block.
sys_mkdir(path) ==
    LET r == Search(path)
        n == FreeInode(cur_part)
        b == FreeBlock(cur_part)
        i == [inode_init(n) EXCEPT !.size = 2, !.sectors[0] = b]
        p == ide_write(Taken(inode_bitmap_alloc(Started)), "block", b,
                       DirBlock(<<Ent(".", n, "directory"), Ent("..", r.parent, "directory")>>))
        q == sync_dir_entry(p, r.parent, Ent(Last(path), n, "directory"))
    IN /\ Ready /\ Absent(path) /\ n # -1 /\ b # -1
       /\ Call(IF q.ok THEN bitmap_sync_inode(inode_sync(inode_sync(q, q.dir), i))
               ELSE [q EXCEPT !.inode_bitmap = @ \ {n}], path)
       /\ NumberGiven(q, n)
       /\ UNCHANGED <<file_table, fd_table>>

dir_is_empty(i) == i.size = 2

dir_remove(p, parent, i) ==
    LET q == ASSERT(p, \A k \in 1..Direct : i.sectors[k] = 0, "dir.c:330")
        r == delete_dir_entry(q, parent, i.no)
    IN IF q.ok /\ r.ok THEN inode_release(r, i.no) ELSE IF q.ok THEN r ELSE q

sys_rmdir(path) ==
    LET r == Search(path)
        i == inode_open(cur_part.open_inodes, disk, r.ino)
    IN /\ Ready /\ r.type = "directory"
       /\ dir_is_empty(i)
       /\ Call(dir_remove(Started, r.parent, i), path)
       /\ UNCHANGED <<file_table, fd_table, left, stale>>

------------------------------------------------------------------------------
(* The disk, power, and the whole.                                           *)

\* Nobody reads a free block before it is written again (TreeSound): when a call
\* is over, what free blocks hold is forgotten.  After a power failure a
\* directory may still name a block that is free.
Forgotten(d) ==
    [d EXCEPT !.blk = [b \in Blk |-> IF b \in d.block_bitmap THEN d.blk[b] ELSE Data]]

Flush ==
    /\ todo # <<>>
    /\ disk' = LET d == Stored(disk, Head(todo))
               IN IF Len(todo) = 1 /\ crashes = 0 THEN Forgotten(d) ELSE d
    /\ todo' = Tail(todo)
    /\ subject' = IF Len(todo) = 1 THEN <<>> ELSE subject
    /\ UNCHANGED <<cur_part, file_table, fd_table, stop, geometry, crashes, left, stale>>

mount_partition(d) ==
    [inode_bitmap |-> d.inode_bitmap, block_bitmap |-> d.block_bitmap,
     open_inodes |-> <<Copy(d.itab[0], 1)>>]

filesys_init(d) ==
    /\ cur_part' = mount_partition(d)
    /\ file_table' = [s \in Slot |-> FreeSlot]
    /\ fd_table' = {}

Crash ==
    /\ crashes' = IF todo = <<>> THEN crashes ELSE crashes + 1
    /\ crashes' <= MaxCrashes
    /\ filesys_init(disk)
    /\ todo' = <<>> /\ stop' = "" /\ subject' = <<>> /\ left' = [n \in Ino |-> 0]
    /\ UNCHANGED <<disk, geometry, stale>>

\* Bits past the end are set, but for one: the loop that clears the bits of the
\* last byte runs to block_bitmap_last_bit itself.
partition_format ==
    LET root == [inode_init(0) EXCEPT !.size = 2, !.sectors[0] = 1]
        dots == DirBlock(<<Ent(".", 0, "directory"), Ent("..", 0, "directory")>>)
    IN [inode_bitmap |-> {0}, block_bitmap |-> {1} \cup (geometry.blocks + 2)..NBlocks,
        itab |-> [n \in Ino |-> IF n = 0 THEN root ELSE inode_init(0)],
        blk |-> [b \in Blk |-> IF b = 1 THEN dots ELSE Data]]

FsInit ==
    /\ geometry \in Partitions
    /\ disk = partition_format
    /\ cur_part = mount_partition(partition_format)
    /\ file_table = [s \in Slot |-> FreeSlot]
    /\ fd_table = {} /\ todo = <<>> /\ stop = "" /\ subject = <<>> /\ crashes = 0
    /\ left = [n \in Ino |-> 0] /\ stale = FALSE

FsNext ==
    \/ \E path \in Path :
          \/ \E write, creat \in BOOLEAN : sys_open(path, write, creat)
          \/ sys_unlink(path) \/ sys_mkdir(path) \/ sys_rmdir(path)
    \/ \E s \in Slot : sys_close(s) \/ \E count \in geometry.counts : sys_write(s, count)
    \/ Flush \/ Crash

FsSpec == FsInit /\ [][FsNext]_fsVars

------------------------------------------------------------------------------
(* Properties.                                                               *)

CopyType == [no : Ino, size : Nat, sectors : [0..Direct -> 0..NBlocks],
             i_open_cnts : Nat \ {0}, write_deny : BOOLEAN, at : Nat \ {0}]

\* Tables, bitmaps and inodes stay in their ranges: no descriptor beyond a
\* process's fd_table, no block number outside the partition.
FsTypeOK ==
    /\ cur_part.inode_bitmap \subseteq Ino /\ cur_part.block_bitmap \subseteq Blk
    /\ \A k \in DOMAIN cur_part.open_inodes : cur_part.open_inodes[k] \in CopyType
    /\ file_table \in [Slot -> [at : Nat, write : BOOLEAN]]
    /\ fd_table \subseteq {s \in Slot : file_table[s].at # 0} /\ Cardinality(fd_table) <= MaxFds
    /\ disk.inode_bitmap \subseteq Ino /\ disk.block_bitmap \subseteq Blk
    /\ \A n \in Ino : disk.itab[n].sectors \in [0..Direct -> 0..NBlocks]
    /\ crashes \in 0..MaxCrashes /\ left \in [Ino -> 0..MaxLeft] /\ stale \in BOOLEAN

\* The blocks an inode refers to, its table included.
Owned(d, i) == (Range(all_blocks(d, i)) \cup {i.sectors[Direct]}) \ {0}
References(d, i) == Cardinality({k \in 1..(Direct + Indirect) : all_blocks(d, i)[k] # 0})
                    + (IF i.sectors[Direct] = 0 THEN 0 ELSE 1)

\* Between two calls the tree is sound, until the number of a removed directory
\* that sys_open left open is given out again: memory and disk have the same bitmaps,
\* every inode in use is named exactly once, its blocks are marked, and no
\* block belongs to two inodes or twice to one.
TreeSound ==
    Ready /\ ~ stale =>
        LET inode(n) == inode_open(cur_part.open_inodes, disk, n)
            owned == [n \in cur_part.inode_bitmap |-> Owned(disk, inode(n))]
        IN /\ disk.inode_bitmap = cur_part.inode_bitmap
           /\ disk.block_bitmap = cur_part.block_bitmap
           /\ \A n \in cur_part.inode_bitmap :
                 /\ owned[n] \subseteq cur_part.block_bitmap
                 /\ Cardinality(owned[n]) = References(disk, inode(n))
                 /\ \A m \in cur_part.inode_bitmap : m # n => owned[m] \cap owned[n] = {}
                 /\ n # 0 => Cardinality(PathsTo(n)) = 1
           /\ \A path \in Path : Search(path).ino \in cur_part.inode_bitmap \cup {-1}

\* Until then i_open_cnts is the number of slots (and root_dir) that use the copy
\* and of the times sys_open has left it open, there is one copy of an inode, and
\* a file in use is never given up.
OpenCountsExact ==
    LET open == cur_part.open_inodes
        users(a) == Cardinality({s \in Slot : file_table[s].at = a}) + (IF a = 1 THEN 1 ELSE 0)
    IN ~ stale =>
          /\ \A k \in DOMAIN open :
                /\ open[k].i_open_cnts = users(open[k].at) + left[open[k].no]
                /\ users(open[k].at) # 0 => open[k].no \in cur_part.inode_bitmap
                /\ \A j \in DOMAIN open : open[j].no = open[k].no => j = k
          /\ \A s \in Slot : file_table[s].at # 0 => \E k \in DOMAIN open : open[k].at = file_table[s].at

\* What a mount of disk d would show under a path.
Shown(d, path) ==
    LET r == search_file(<<>>, d, path)
    IN IF r.type = "regular" /\ r.depth = Len(path)
       THEN [ino |-> r.ino, inode |-> d.itab[r.ino], blocks |-> all_blocks(d, d.itab[r.ino])]
       ELSE [ino |-> IF r.depth = Len(path) THEN r.ino ELSE -1]

Marked(d, path) ==
    LET r == Shown(d, path)
    IN r.ino # -1 => /\ r.ino \in d.inode_bitmap
                     /\ "inode" \in DOMAIN r => Owned(d, r.inode) \subseteq d.block_bitmap

\* Until then power may fail after any write: every file and directory other than
\* the one the call works on is found as it was, its inode and a file's blocks
\* marked.  (Not a directory's: delete_dir_entry frees an emptied block before
\* it writes the inode that names it.)
OthersUntouched ==
    [][~ stale => \A path \in Path \ {subject} :
          Shown(disk', path) = Shown(disk, path) /\ Marked(disk', path)]_fsVars

\* ASSERT(dir_entry_found == NULL): an inode is named once in a directory.
EntryFoundOnce == stop # "dir.c:214"

==============================================================================
