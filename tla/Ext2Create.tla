----------------------------- MODULE Ext2Create -----------------------------
(***************************************************************************)
(* src/hello-ext2/src/ext2-create.c, the program that writes hello.img: an *)
(* ext2 file system with a lost+found directory, a file and a symbolic     *)
(* link.  The program is a list of system calls (Script).  Any call may    *)
(* fail, a write may be short, and the program may be killed between two   *)
(* calls; it can be run again on the file that is left, or on an image     *)
(* that was mounted and changed.                                           *)
(*                                                                         *)
(* The file is a function from byte offsets to the structures that begin   *)
(* there, zeros being left out.  A structure has the number of bytes that  *)
(* are written (size) and of those that are not trailing zeros (len).      *)
(* Owners, permissions and times are left out.                             *)
(***************************************************************************)
EXTENDS Integers, Sequences, FiniteSets

CONSTANTS
    OldFiles,    \* what hello.img may hold before the first run
    MaxRuns      \* bound of the model: how often the program is run

ASSUME MaxRunsAssumption == MaxRuns \in Nat \ {0}

BlockSize == 1024
NumBlocks == 1024

\* (Mutation: the image is as many bytes long as it should have blocks.)
InBytes == NumBlocks
ImageSize == NumBlocks * BlockSize

\* An old file ends where an image does; it may hold anything.
ASSUME OldFilesAssumption ==
    \A d \in OldFiles :
      /\ d = [o \in DOMAIN d |-> d[o]]
      /\ \A o \in DOMAIN d :
            /\ o \in Nat
            /\ d[o].len \in Nat \ {0}
            /\ o + d[o].len <= NumBlocks * BlockSize

NumInodes == 128
BlockOffset(i) == i * BlockSize

RootIno == 2
FirstIno == 11               \* the inodes below are reserved
LostAndFoundIno == 11
HelloWorldIno == 12
HelloIno == 13
LastIno == HelloIno

BlockBitmapBlock == 3
InodeBitmapBlock == 4
InodeTableBlock == 5
RootDirBlock == 21
LostAndFoundDirBlock == 22
HelloWorldFileBlock == 23
LastBlock == HelloWorldFileBlock

NumFreeBlocks == NumBlocks - LastBlock - 1
NumFreeInodes == NumInodes - LastIno

(***************************************************************************)
(* The structures.                                                         *)
(***************************************************************************)
\* s_reserved makes the struct longer than a block: sizeof is 1052.
Superblock ==
    [kind |-> "superblock", size |-> 1052, len |-> 136,
     inodes_count |-> NumInodes, blocks_count |-> NumBlocks,
     free_blocks_count |-> NumFreeBlocks, free_inodes_count |-> NumFreeInodes,
     first_data_block |-> 1]

BlockGroupDescriptor ==
    [kind |-> "descriptor", size |-> 32, len |-> 18,
     block_bitmap |-> BlockBitmapBlock, inode_bitmap |-> InodeBitmapBlock,
     inode_table |-> InodeTableBlock,
     free_blocks_count |-> NumFreeBlocks, free_inodes_count |-> NumFreeInodes,
     used_dirs_count |-> 2]

\* The bits that are set in a byte, and in a bitmap given byte by byte.
Weight == <<1, 2, 4, 8, 16, 32, 64, 128>>
Bits(byte) == {k \in 0..7 : (byte \div Weight[k + 1]) % 2 = 1}
Bitmap(byte(_)) ==
    [kind |-> "bitmap", size |-> BlockSize, len |-> BlockSize,
     bits |-> UNION {{8 * i + k : k \in Bits(byte(i))} : i \in 0..(BlockSize - 1)}]

BlockBitmapByte(i) ==
    CASE i \in {0, 1} -> 255
      [] i = 2 -> 127
      [] i = 127 -> 128
      [] i >= 128 -> 255
      [] OTHER -> 0

\* (Mutation: the bits of the second byte are counted from the other end.)
BigEndianByte(i) == CASE i = 1 -> 248 [] i = 0 \/ i >= 16 -> 255 [] OTHER -> 0
InodeBitmapByte(i) == CASE i = 1 -> 31 [] i = 0 \/ i >= 16 -> 255 [] OTHER -> 0

InodeSize == 128
Inode(mode, size, links, blocks, block) ==
    [kind |-> "inode", size |-> InodeSize, len |-> InodeSize, i_mode |-> mode,
     i_size |-> size, i_links_count |-> links, i_blocks |-> blocks,
     i_block |-> block]

LostAndFoundInode == Inode("dir", 1024, 2, 2, LostAndFoundDirBlock)
RootInode == Inode("dir", 1024, 3, 2, RootDirBlock)
HelloWorldInode == Inode("file", 12, 1, 2, HelloWorldFileBlock)
HelloInode == Inode("symlink", 11, 1, 0, 0)

\* dir_entry_set: the length of an entry whose name has n characters.
\* (Mutation: rounded down.)
RoundedDown(n) == 8 + (n \div 4) * 4
RecLen(n) == IF n % 4 # 0 THEN 12 + (n \div 4) * 4 ELSE 8 + n

Entry(inode, name, n) ==
    [kind |-> "entry", size |-> RecLen(n), len |-> RecLen(n), inode |-> inode,
     name |-> name, name_len |-> n]

\* The entry without an inode that takes what the others leave of the block.
\* (Its write reads past the end of the struct; what it finds there is never
\* looked at.)
Fill(bytes_remaining) ==
    [kind |-> "entry", size |-> bytes_remaining, len |-> bytes_remaining,
     inode |-> 0, name |-> "", name_len |-> 0]

HelloWorldFile == [kind |-> "data", size |-> 13, len |-> 12]
Torn(obj) == [kind |-> "torn", size |-> obj.len, len |-> obj.len]

(***************************************************************************)
(* The calls of main.                                                      *)
(***************************************************************************)
Open == <<[call |-> "open"]>>
Close == <<[call |-> "close"]>>
GetCurrentTime == <<[call |-> "time"]>>
Ftruncate(n) == <<[call |-> "ftruncate", to |-> n]>>
Seek(n) == <<[call |-> "lseek", to |-> n]>>
Write(obj) == <<[call |-> "write", obj |-> obj]>>

\* (Mutation: what an old file holds is kept.)
KeepsOldFile == <<>>
EmptiesFile == Ftruncate(0)

WriteSuperblock == Seek(BlockOffset(1)) \o GetCurrentTime \o Write(Superblock)

WriteBlockGroupDescriptorTable ==
    Seek(BlockOffset(2)) \o Write(BlockGroupDescriptor)

WriteBlockBitmap ==
    Seek(BlockOffset(BlockBitmapBlock)) \o Write(Bitmap(BlockBitmapByte))

WriteInodeBitmap ==
    Seek(BlockOffset(InodeBitmapBlock)) \o Write(Bitmap(InodeBitmapByte))

WriteInode(index, inode) ==
    Seek(BlockOffset(InodeTableBlock) + (index - 1) * InodeSize) \o Write(inode)

WriteInodeTable ==
    GetCurrentTime
    \o WriteInode(LostAndFoundIno, LostAndFoundInode)
    \o WriteInode(RootIno, RootInode)
    \o WriteInode(HelloWorldIno, HelloWorldInode)
    \o WriteInode(HelloIno, HelloInode)

WriteRootDirBlock ==
    LET current_entry == Entry(RootIno, ".", 1)
        parent_entry == Entry(RootIno, "..", 2)
        lost_and_found_entry == Entry(LostAndFoundIno, "lost+found", 10)
        hello_world_entry == Entry(HelloWorldIno, "hello-world", 11)
        hello_entry == Entry(HelloIno, "hello", 5)
    IN Seek(BlockOffset(RootDirBlock)) \o Seek(BlockOffset(RootDirBlock))
       \o Write(current_entry) \o Write(parent_entry)
       \o Write(lost_and_found_entry) \o Write(hello_world_entry)
       \o Write(hello_entry)
       \o Write(Fill(BlockSize - current_entry.size - parent_entry.size
                       - lost_and_found_entry.size - hello_world_entry.size
                       - hello_entry.size))

WriteLostAndFoundDirBlock ==
    LET current_entry == Entry(LostAndFoundIno, ".", 1)
        parent_entry == Entry(RootIno, "..", 2)
    IN Seek(BlockOffset(LostAndFoundDirBlock))
       \o Write(current_entry) \o Write(parent_entry)
       \o Write(Fill(BlockSize - current_entry.size - parent_entry.size))

WriteHelloWorldFileBlock ==
    Seek(BlockOffset(HelloWorldFileBlock)) \o Write(HelloWorldFile)

\* (Mutation: the other order.)
DescriptorFirst == WriteBlockGroupDescriptorTable \o WriteSuperblock
WriteGroup == WriteSuperblock \o WriteBlockGroupDescriptorTable

\* (Mutation: the directories before the inodes they name.)
DirectoriesFirst ==
    WriteRootDirBlock \o WriteLostAndFoundDirBlock \o WriteInodeTable
WriteTree == WriteInodeTable \o WriteRootDirBlock \o WriteLostAndFoundDirBlock

Script ==
    Open \o EmptiesFile \o Ftruncate(ImageSize)
    \o WriteGroup \o WriteBlockBitmap \o WriteInodeBitmap \o WriteTree
    \o WriteHelloWorldFileBlock \o Close

(***************************************************************************)
(* Executing them.                                                         *)
(***************************************************************************)
VARIABLES
    disk,        \* what is in the file: offset -> structure
    size,        \* the length of the file
    off,         \* the file offset of the descriptor
    pc,          \* the next call
    end,         \* running, returned (main returned 0), stopped
    runs         \* bound: how often the program has been started

vars == <<disk, size, off, pc, end, runs>>

Init ==
    /\ disk \in OldFiles
    /\ size = IF disk = <<>> THEN 0 ELSE ImageSize
    /\ off = 0
    /\ pc = 1
    /\ end = "running"
    /\ runs = 1

\* The file d after obj was written at n, or was cut off there.
Over(d, n, obj) ==
    {o \in DOMAIN d : o < n + obj.size /\ n < o + d[o].len}
Put(d, n, obj) ==
    [o \in (DOMAIN d \ Over(d, n, obj)) \cup {n} |-> IF o = n THEN obj ELSE d[o]]
Cut(d, n) == [o \in {m \in DOMAIN d : m + d[m].len <= n} |-> d[o]]

Larger(m, n) == IF m < n THEN n ELSE m

AtCall(call) == end = "running" /\ Script[pc].call = call

OpenFile ==
    /\ AtCall("open")
    /\ pc' = pc + 1
    /\ off' = 0
    /\ UNCHANGED <<disk, size, end, runs>>

Truncate ==
    /\ AtCall("ftruncate")
    /\ pc' = pc + 1
    /\ disk' = Cut(disk, Script[pc].to)
    /\ size' = Script[pc].to
    /\ UNCHANGED <<off, end, runs>>

SeekTo ==
    /\ AtCall("lseek")
    /\ pc' = pc + 1
    /\ off' = Script[pc].to
    /\ UNCHANGED <<disk, size, end, runs>>

Time ==
    /\ AtCall("time")
    /\ pc' = pc + 1
    /\ UNCHANGED <<disk, size, off, end, runs>>

WriteAll ==
    /\ AtCall("write")
    /\ pc' = pc + 1
    /\ disk' = Put(disk, off, Script[pc].obj)
    /\ off' = off + Script[pc].obj.size
    /\ size' = Larger(size, off')
    /\ UNCHANGED <<end, runs>>

CloseFile ==
    /\ AtCall("close")
    /\ end' = "returned"
    /\ UNCHANGED <<disk, size, off, pc, runs>>

\* errno_exit after a short write.  Its status is errno, which nothing set.
WriteShort ==
    /\ AtCall("write")
    /\ disk' = Put(disk, off, Torn(Script[pc].obj))
    /\ size' = Larger(size, off + Script[pc].obj.len)
    /\ end' = "stopped"
    /\ UNCHANGED <<off, pc, runs>>

\* errno_exit after a call that failed, or the program is killed.
Stop ==
    /\ end = "running"
    /\ end' = "stopped"
    /\ UNCHANGED <<disk, size, off, pc, runs>>

RunAgain ==
    /\ end # "running"
    /\ runs < MaxRuns
    /\ runs' = runs + 1
    /\ end' = "running"
    /\ pc' = 1
    /\ off' = 0
    /\ UNCHANGED <<disk, size>>

Done == end # "running" /\ runs = MaxRuns /\ UNCHANGED vars

Next ==
    \/ OpenFile
    \/ Truncate
    \/ SeekTo
    \/ Time
    \/ WriteAll
    \/ CloseFile
    \/ WriteShort
    \/ Stop
    \/ RunAgain
    \/ Done

Spec == Init /\ [][Next]_vars
(***************************************************************************)
(* What a reader of the image finds: the superblock at 1024, the           *)
(* descriptor behind it, and everything else through these two.            *)
(***************************************************************************)
Holds(o, kind) == o \in DOMAIN disk /\ disk[o].kind = kind
Readable == Holds(1024, "superblock") /\ Holds(2048, "descriptor")
sb == disk[1024]
gd == disk[2048]

Marked(block) ==
    IF Holds(BlockOffset(block), "bitmap") THEN disk[BlockOffset(block)].bits ELSE {}
BlockMarked(b) == b - sb.first_data_block \in Marked(gd.block_bitmap)
InodeMarked(i) == i - 1 \in Marked(gd.inode_bitmap)

InodeOffset(i) == BlockOffset(gd.inode_table) + (i - 1) * InodeSize
InodeAt(i) == disk[InodeOffset(i)]
InodesInUse == {i \in 1..sb.inodes_count : Holds(InodeOffset(i), "inode")}
WithBlock == {i \in InodesInUse : InodeAt(i).i_blocks > 0}
Dirs == {i \in InodesInUse : InodeAt(i).i_mode = "dir"}

TableBlocks == (sb.inodes_count * InodeSize) \div BlockSize
BlocksInUse ==
    {1, 2, gd.block_bitmap, gd.inode_bitmap}
    \cup gd.inode_table..(gd.inode_table + TableBlocks - 1)
    \cup {InodeAt(i).i_block : i \in WithBlock}

DirStart(d) == BlockOffset(InodeAt(d).i_block)
DirEnd(d) == DirStart(d) + InodeAt(d).i_size
EntriesOf(d) ==
    {o \in DOMAIN disk : DirStart(d) <= o /\ o < DirEnd(d) /\ disk[o].kind = "entry"}
Names(d) == {o \in EntriesOf(d) : disk[o].inode # 0}
Links(i) == UNION {{o \in Names(d) : disk[o].inode = i} : d \in Dirs}

TypeOK ==
    /\ size \in {0, NumBlocks * BlockSize}
    /\ \A o \in DOMAIN disk : o \in Nat /\ o + disk[o].len <= size
    /\ pc \in 1..Len(Script)
    /\ end \in {"running", "returned", "stopped"}
    /\ runs \in 1..MaxRuns

\* When main returns, no two structures of the image share a block, the block
\* bitmap marks the blocks that are in use and the bits that stand for no
\* block, and both free counts are the number of the others: the tables of
\* lines 281-288 and the counts of lines 206 and 267 are written by hand.
BlocksAccounted ==
    end = "returned" =>
      /\ Readable
      /\ size = sb.blocks_count * BlockSize
      /\ Cardinality(BlocksInUse) = 4 + TableBlocks + Cardinality(WithBlock)
      /\ \A b \in 1..(sb.blocks_count - 1) : BlockMarked(b) <=> b \in BlocksInUse
      /\ (sb.blocks_count - sb.first_data_block)..(8 * BlockSize - 1)
            \subseteq Marked(gd.block_bitmap)
      /\ sb.free_blocks_count =
            Cardinality({b \in 1..(sb.blocks_count - 1) : ~BlockMarked(b)})
      /\ gd.free_blocks_count = sb.free_blocks_count

\* When main returns, the inode bitmap marks the reserved inodes, those that
\* were written and the bits that stand for no inode; the free counts and the
\* count of directories agree with the table; an inode has as many bytes as
\* its block was given.
InodesAccounted ==
    end = "returned" =>
      /\ Readable
      /\ \A i \in 1..sb.inodes_count :
            InodeMarked(i) <=> i < FirstIno \/ i \in InodesInUse
      /\ sb.inodes_count..(8 * BlockSize - 1) \subseteq Marked(gd.inode_bitmap)
      /\ sb.free_inodes_count =
            Cardinality({i \in 1..sb.inodes_count : ~InodeMarked(i)})
      /\ gd.free_inodes_count = sb.free_inodes_count
      /\ gd.used_dirs_count = Cardinality(Dirs)
      /\ \A i \in WithBlock :
            /\ InodeAt(i).i_size <= 512 * InodeAt(i).i_blocks
            /\ InodeAt(i).i_mode = "file" =>
                  /\ Holds(DirStart(i), "data")
                  /\ disk[DirStart(i)].len = InodeAt(i).i_size

\* When main returns, the entries of a directory fill its block without a gap,
\* on multiples of four, each with room for its name; "." is the directory
\* and ".." one that has an entry for it.
DirectoriesConnect ==
    end = "returned" =>
      /\ Readable
      /\ RootIno \in Dirs
      /\ \A d \in Dirs :
           /\ DirStart(d) \in EntriesOf(d)
           /\ \A o \in EntriesOf(d) :
                 /\ o + disk[o].size \in EntriesOf(d) \cup {DirEnd(d)}
                 /\ o % 4 = 0
                 /\ disk[o].size >= 8 + disk[o].name_len
           /\ \E o \in Names(d) : disk[o].name = "." /\ disk[o].inode = d
           /\ \E o \in Names(d) :
                 /\ disk[o].name = ".."
                 /\ disk[o].inode \in Dirs
                 /\ \E q \in Names(disk[o].inode) : disk[q].inode = d

\* When main returns, i_links_count of every inode of the image is the number
\* of entries that name it, also if the program was run over an image that
\* was mounted and given more files (ftruncate to 0, line 528).
LinksCounted ==
    end = "returned" =>
      /\ Readable
      /\ \A i \in InodesInUse : InodeAt(i).i_links_count = Cardinality(Links(i))

\* However far the program came, also when it was killed or a write was short:
\* an inode that is there is marked, and so is its block; an entry names an
\* inode that is there.  It is the order of the calls in main (lines 535-542).
ReferencesResolve ==
    Readable =>
      /\ \A i \in InodesInUse : InodeMarked(i)
      /\ \A i \in WithBlock : BlockMarked(InodeAt(i).i_block)
      /\ \A o \in DOMAIN disk :
            disk[o].kind = "entry" => disk[o].inode \in InodesInUse \cup {0}
=============================================================================
