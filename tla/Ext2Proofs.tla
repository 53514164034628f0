----------------------------- MODULE Ext2Proofs -----------------------------
(* Theorems about Ext2Create: what holds of the image whatever hello.img   *)
(* held before the first run, and however often a run stopped on the way.  *)
EXTENDS Ext2Create, FiniteSetTheorems, TLAPS

\* dir_entry_set gives an entry the least multiple of four that has room for
\* the eight bytes before the name and for the name.
THEOREM RecLenIsLeast ==
  ASSUME NEW n \in Nat
  PROVE  /\ RecLen(n) \in Nat
         /\ RecLen(n) % 4 = 0
         /\ RecLen(n) >= 8 + n
         /\ RecLen(n) < 8 + n + 4
<1>1. PICK q \in Nat : n \div 4 = q /\ n = (4 * q) + (n % 4) /\ n % 4 \in 0..3
  BY SMT
<1>2. CASE n % 4 = 0
  <2>1. RecLen(n) = 8 + n /\ 8 + n = 4 * (q + 2)
    BY <1>1, <1>2, SMT DEF RecLen
  <2>. QED
    BY <2>1, <1>1, SMT
<1>3. CASE n % 4 # 0
  <2>1. RecLen(n) = 4 * (q + 3)
    BY <1>1, <1>3, SMT DEF RecLen
  <2>2. RecLen(n) \in Nat /\ RecLen(n) % 4 = 0
    BY <2>1, <1>1, SMT
  <2>. QED
    BY <2>1, <2>2, <1>1, <1>3, SMT
<1>. QED
  BY <1>2, <1>3

(***************************************************************************)
(* The calls one by one.                                                   *)
(***************************************************************************)
\* The length of every entry that is written.
LEMMA EntryLengths ==
  /\ RecLen(1) = 12 /\ RecLen(2) = 12 /\ RecLen(5) = 16
  /\ RecLen(10) = 20 /\ RecLen(11) = 20
BY SMT DEF RecLen

\* The program makes 36 calls.
LEMMA ScriptLength == Len(Script) = 36
BY SMT DEF Script, EmptiesFile, Open, Close, GetCurrentTime, Ftruncate, Seek,
          Write, WriteGroup, WriteSuperblock, WriteBlockGroupDescriptorTable,
          WriteBlockBitmap, WriteInodeBitmap, WriteTree, WriteInodeTable, WriteInode,
          WriteRootDirBlock, WriteLostAndFoundDirBlock, WriteHelloWorldFileBlock

SeekCalls == {4, 7, 9, 11, 14, 16, 18, 20, 22, 23, 30, 34}
WriteCalls == {6, 8, 10, 12, 15, 17, 19, 21, 24, 25, 26, 27, 28, 29, 31, 32, 33, 35}
TimeCalls == {5, 13}

\* Where the descriptor is before each call.
At == <<0, 0, 0, 0, 1024, 1024, 2076, 2048, 2080, 3072,
        4096, 4096, 5120, 5120, 6400, 6528, 5248, 5376, 6528, 6656,
        6656, 6784, 21504, 21504, 21516, 21528, 21548, 21568, 21584, 22528,
        22528, 22540, 22552, 23552, 23552, 23565>>

\* The calls that neither seek nor write.
LEMMA OtherCalls ==
  /\ Script[1].call = "open"
  /\ Script[2] = [call |-> "ftruncate", to |-> 0]
  /\ Script[3] = [call |-> "ftruncate", to |-> ImageSize]
  /\ Script[5].call = "time"
  /\ Script[13].call = "time"
  /\ Script[36].call = "close"
<1>. USE DEF Script, EmptiesFile, Open, Close, GetCurrentTime, Ftruncate, Seek,
          Write, WriteGroup, WriteSuperblock, WriteBlockGroupDescriptorTable,
          WriteBlockBitmap, WriteInodeBitmap, WriteTree, WriteInodeTable, WriteInode,
          WriteRootDirBlock, WriteLostAndFoundDirBlock, WriteHelloWorldFileBlock
<1>1. Script[1].call = "open"
  BY SMT
<1>2. Script[2] = [call |-> "ftruncate", to |-> 0]
  BY SMT
<1>3. Script[3] = [call |-> "ftruncate", to |-> ImageSize]
  BY SMT
<1>4. Script[5].call = "time"
  BY SMT
<1>5. Script[13].call = "time"
  BY SMT
<1>6. Script[36].call = "close"
  BY SMT
<1>. HIDE DEF Script
<1>. QED
  BY <1>1, <1>2, <1>3, <1>4, <1>5, <1>6

\* Where each lseek goes.
LEMMA Seeks ==
  /\ Script[4] = [call |-> "lseek", to |-> 1024]
  /\ Script[7] = [call |-> "lseek", to |-> 2048]
  /\ Script[9] = [call |-> "lseek", to |-> 3072]
  /\ Script[11] = [call |-> "lseek", to |-> 4096]
  /\ Script[14] = [call |-> "lseek", to |-> 6400]
  /\ Script[16] = [call |-> "lseek", to |-> 5248]
  /\ Script[18] = [call |-> "lseek", to |-> 6528]
  /\ Script[20] = [call |-> "lseek", to |-> 6656]
  /\ Script[22] = [call |-> "lseek", to |-> 21504]
  /\ Script[23] = [call |-> "lseek", to |-> 21504]
  /\ Script[30] = [call |-> "lseek", to |-> 22528]
  /\ Script[34] = [call |-> "lseek", to |-> 23552]
<1>. USE DEF Script, EmptiesFile, Open, Close, GetCurrentTime, Ftruncate, Seek,
          Write, WriteGroup, WriteSuperblock, WriteBlockGroupDescriptorTable,
          WriteBlockBitmap, WriteInodeBitmap, WriteTree, WriteInodeTable, WriteInode,
          WriteRootDirBlock, WriteLostAndFoundDirBlock, WriteHelloWorldFileBlock,
          BlockOffset, BlockSize, ImageSize, NumBlocks, InodeTableBlock, InodeSize,
          BlockBitmapBlock, InodeBitmapBlock, RootDirBlock, LostAndFoundDirBlock,
          HelloWorldFileBlock, RootIno, LostAndFoundIno, HelloWorldIno, HelloIno
<1>1. Script[4] = [call |-> "lseek", to |-> 1024]
  BY SMT
<1>2. Script[7] = [call |-> "lseek", to |-> 2048]
  BY SMT
<1>3. Script[9] = [call |-> "lseek", to |-> 3072]
  BY SMT
<1>4. Script[11] = [call |-> "lseek", to |-> 4096]
  BY SMT
<1>5. Script[14] = [call |-> "lseek", to |-> 6400]
  BY SMT
<1>6. Script[16] = [call |-> "lseek", to |-> 5248]
  BY SMT
<1>7. Script[18] = [call |-> "lseek", to |-> 6528]
  BY SMT
<1>8. Script[20] = [call |-> "lseek", to |-> 6656]
  BY SMT
<1>9. Script[22] = [call |-> "lseek", to |-> 21504]
  BY SMT
<1>10. Script[23] = [call |-> "lseek", to |-> 21504]
  BY SMT
<1>11. Script[30] = [call |-> "lseek", to |-> 22528]
  BY SMT
<1>12. Script[34] = [call |-> "lseek", to |-> 23552]
  BY SMT
<1>. HIDE DEF Script
<1>. QED
  BY <1>1, <1>2, <1>3, <1>4, <1>5, <1>6, <1>7, <1>8, <1>9, <1>10, <1>11, <1>12

\* What each write writes.
LEMMA Writes ==
  /\ Script[6] = [call |-> "write", obj |-> Superblock]
  /\ Script[8] = [call |-> "write", obj |-> BlockGroupDescriptor]
  /\ Script[10] = [call |-> "write", obj |-> Bitmap(BlockBitmapByte)]
  /\ Script[12] = [call |-> "write", obj |-> Bitmap(InodeBitmapByte)]
  /\ Script[15] = [call |-> "write", obj |-> LostAndFoundInode]
  /\ Script[17] = [call |-> "write", obj |-> RootInode]
  /\ Script[19] = [call |-> "write", obj |-> HelloWorldInode]
  /\ Script[21] = [call |-> "write", obj |-> HelloInode]
  /\ Script[24] = [call |-> "write", obj |-> Entry(RootIno, ".", 1)]
  /\ Script[25] = [call |-> "write", obj |-> Entry(RootIno, "..", 2)]
  /\ Script[26] = [call |-> "write", obj |-> Entry(LostAndFoundIno, "lost+found", 10)]
  /\ Script[27] = [call |-> "write", obj |-> Entry(HelloWorldIno, "hello-world", 11)]
  /\ Script[28] = [call |-> "write", obj |-> Entry(HelloIno, "hello", 5)]
  /\ Script[29] = [call |-> "write", obj |-> Fill(944)]
  /\ Script[31] = [call |-> "write", obj |-> Entry(LostAndFoundIno, ".", 1)]
  /\ Script[32] = [call |-> "write", obj |-> Entry(RootIno, "..", 2)]
  /\ Script[33] = [call |-> "write", obj |-> Fill(1000)]
  /\ Script[35] = [call |-> "write", obj |-> HelloWorldFile]
<1>. USE DEF Script, EmptiesFile, Open, Close, GetCurrentTime, Ftruncate, Seek,
          Write, WriteGroup, WriteSuperblock, WriteBlockGroupDescriptorTable,
          WriteBlockBitmap, WriteInodeBitmap, WriteTree, WriteInodeTable, WriteInode,
          WriteRootDirBlock, WriteLostAndFoundDirBlock, WriteHelloWorldFileBlock
<1>1. Script[6] = [call |-> "write", obj |-> Superblock]
  BY SMT
<1>2. Script[8] = [call |-> "write", obj |-> BlockGroupDescriptor]
  BY SMT
<1>3. Script[10] = [call |-> "write", obj |-> Bitmap(BlockBitmapByte)]
  BY SMT
<1>4. Script[12] = [call |-> "write", obj |-> Bitmap(InodeBitmapByte)]
  BY SMT
<1>5. Script[15] = [call |-> "write", obj |-> LostAndFoundInode]
  BY SMT
<1>6. Script[17] = [call |-> "write", obj |-> RootInode]
  BY SMT
<1>7. Script[19] = [call |-> "write", obj |-> HelloWorldInode]
  BY SMT
<1>8. Script[21] = [call |-> "write", obj |-> HelloInode]
  BY SMT
<1>9. Script[24] = [call |-> "write", obj |-> Entry(RootIno, ".", 1)]
  BY SMT
<1>10. Script[25] = [call |-> "write", obj |-> Entry(RootIno, "..", 2)]
  BY SMT
<1>11. Script[26] = [call |-> "write", obj |-> Entry(LostAndFoundIno, "lost+found", 10)]
  BY SMT
<1>12. Script[27] = [call |-> "write", obj |-> Entry(HelloWorldIno, "hello-world", 11)]
  BY SMT
<1>13. Script[28] = [call |-> "write", obj |-> Entry(HelloIno, "hello", 5)]
  BY SMT
<1>14. Script[29] = [call |-> "write", obj |-> Fill(944)]
  <2>. PICK n : n = BlockSize - Entry(RootIno, ".", 1).size - Entry(RootIno, "..", 2).size
              - Entry(LostAndFoundIno, "lost+found", 10).size
              - Entry(HelloWorldIno, "hello-world", 11).size - Entry(HelloIno, "hello", 5).size /\ Script[29] = [call |-> "write", obj |-> Fill(n)]
    BY SMT
  <2>. n = 944
    BY EntryLengths, SMT DEF Entry, BlockSize
  <2>. QED
    OBVIOUS
<1>15. Script[31] = [call |-> "write", obj |-> Entry(LostAndFoundIno, ".", 1)]
  BY SMT
<1>16. Script[32] = [call |-> "write", obj |-> Entry(RootIno, "..", 2)]
  BY SMT
<1>17. Script[33] = [call |-> "write", obj |-> Fill(1000)]
  <2>. PICK n : n = BlockSize - Entry(LostAndFoundIno, ".", 1).size - Entry(RootIno, "..", 2).size /\ Script[33] = [call |-> "write", obj |-> Fill(n)]
    BY SMT
  <2>. n = 1000
    BY EntryLengths, SMT DEF Entry, BlockSize
  <2>. QED
    OBVIOUS
<1>18. Script[35] = [call |-> "write", obj |-> HelloWorldFile]
  BY SMT
<1>. HIDE DEF Script
<1>. QED
  BY <1>1, <1>2, <1>3, <1>4, <1>5, <1>6, <1>7, <1>8, <1>9, <1>10, <1>11, <1>12, <1>13, <1>14, <1>15, <1>16, <1>17, <1>18


\* How many bytes each call writes, and up to the last that is not zero.
Sizes == <<0, 0, 0, 0, 0, 1052, 0, 32, 0, 1024, 0, 1024, 0, 0, 128, 0, 128, 0,
           128, 0, 128, 0, 0, 12, 12, 20, 20, 16, 944, 0, 12, 12, 1000, 0, 13, 0>>
Lens == [Sizes EXCEPT ![6] = 136, ![8] = 18, ![35] = 12]

\* The objects are as long as that.
LEMMA ObjectSizes ==
  \A k \in WriteCalls :
    /\ Script[k].call = "write"
    /\ Script[k].obj.size = Sizes[k]
    /\ Script[k].obj.len = Lens[k]
<1>1. /\ Superblock.size = 1052 /\ Superblock.len = 136
      /\ BlockGroupDescriptor.size = 32 /\ BlockGroupDescriptor.len = 18
  BY SMT DEF Superblock, BlockGroupDescriptor
<1>2. /\ Bitmap(BlockBitmapByte).size = 1024 /\ Bitmap(BlockBitmapByte).len = 1024
      /\ Bitmap(InodeBitmapByte).size = 1024 /\ Bitmap(InodeBitmapByte).len = 1024
  BY SMT DEF Bitmap, BlockSize
<1>3. /\ LostAndFoundInode.size = 128 /\ LostAndFoundInode.len = 128
      /\ RootInode.size = 128 /\ RootInode.len = 128
      /\ HelloWorldInode.size = 128 /\ HelloWorldInode.len = 128
      /\ HelloInode.size = 128 /\ HelloInode.len = 128
  BY SMT DEF LostAndFoundInode, RootInode, HelloWorldInode, HelloInode, Inode, InodeSize
<1>4. \A inode, name, n :
        Entry(inode, name, n).size = RecLen(n) /\ Entry(inode, name, n).len = RecLen(n)
  BY SMT DEF Entry
<1>5. \A n : Fill(n).size = n /\ Fill(n).len = n
  BY SMT DEF Fill
<1>6. HelloWorldFile.size = 13 /\ HelloWorldFile.len = 12
  BY SMT DEF HelloWorldFile
<1>7. SUFFICES ASSUME NEW k \in WriteCalls
               PROVE  /\ Script[k].call = "write"
                      /\ Script[k].obj.size = Sizes[k]
                      /\ Script[k].obj.len = Lens[k]
  OBVIOUS
<1>8. CASE k \in {6, 8, 10, 12}
  BY <1>1, <1>2, <1>8, Writes, SMT DEF Sizes, Lens
<1>9. CASE k \in {15, 17, 19, 21, 35}
  BY <1>3, <1>6, <1>9, Writes, SMT DEF Sizes, Lens
<1>10. CASE k \in {24, 25, 26, 27, 28}
  BY <1>4, <1>10, Writes, EntryLengths, SMT DEF Sizes, Lens
<1>11. CASE k \in {29, 31, 32, 33}
  BY <1>4, <1>5, <1>11, Writes, EntryLengths, SMT DEF Sizes, Lens
<1>. QED
  BY <1>8, <1>9, <1>10, <1>11 DEF WriteCalls

\* A write advances the descriptor by its size and ends inside the image.
LEMMA WriteAdvances ==
  \A k \in WriteCalls :
    /\ k \in 4..35
    /\ At[k] \in Nat
    /\ Sizes[k] \in Nat
    /\ Lens[k] \in 1..Sizes[k]
    /\ At[k + 1] = At[k] + Sizes[k]
    /\ At[k] + Sizes[k] <= ImageSize
<1>. SUFFICES ASSUME NEW k \in WriteCalls
              PROVE  /\ k \in 4..35
                     /\ At[k] \in Nat
                     /\ Sizes[k] \in Nat
                     /\ Lens[k] \in 1..Sizes[k]
                     /\ At[k + 1] = At[k] + Sizes[k]
                     /\ At[k] + Sizes[k] <= ImageSize
  OBVIOUS
<1>. USE DEF At, Sizes, Lens, ImageSize, NumBlocks, BlockSize
<1>1. CASE k \in {6, 8, 10, 12, 15, 17}
  BY <1>1, SMT
<1>2. CASE k \in {19, 21, 24, 25, 26, 27}
  BY <1>2, SMT
<1>3. CASE k \in {28, 29, 31, 32, 33, 35}
  BY <1>3, SMT
<1>. QED
  BY <1>1, <1>2, <1>3 DEF WriteCalls

\* A call that is not a write or an lseek leaves the descriptor where it is.
LEMMA OthersAdvance ==
  /\ \A k \in SeekCalls : Script[k].call = "lseek" /\ Script[k].to = At[k + 1]
  /\ \A k \in TimeCalls \cup {1, 2, 3} : At[k + 1] = At[k]
  /\ At[1] = 0
<1>1. \A k \in SeekCalls : Script[k].call = "lseek" /\ Script[k].to = At[k + 1]
  BY Seeks, SMT DEF SeekCalls, At
<1>. QED
  BY <1>1, SMT DEF TimeCalls, At

\* A write leaves alone what the writes before it have written.
LEMMA WritesApart ==
  \A j, k \in WriteCalls :
    j < k => At[j] + Lens[j] <= At[k] \/ At[k] + Sizes[k] <= At[j]
<1>. SUFFICES ASSUME NEW j \in WriteCalls, NEW k \in WriteCalls, j < k
              PROVE  At[j] + Lens[j] <= At[k] \/ At[k] + Sizes[k] <= At[j]
  OBVIOUS
<1>. USE DEF At, Sizes, Lens, WriteCalls
<1>1. CASE j \in {6, 8, 10, 12}
  BY <1>1, SMT
<1>2. CASE j \in {15, 17, 19, 21}
  BY <1>2, SMT
<1>3. CASE j \in {24, 25, 26, 27, 28, 29}
  BY <1>3, SMT
<1>4. CASE j \in {31, 32, 33, 35}
  BY <1>4, SMT
<1>. QED
  BY <1>1, <1>2, <1>3, <1>4

\* So no two begin in the same place.
LEMMA OnePlaceEach ==
  \A j, k \in WriteCalls : At[j] = At[k] => j = k
<1>. SUFFICES ASSUME NEW j \in WriteCalls, NEW k \in WriteCalls, j < k
              PROVE  At[j] # At[k]
  BY WriteAdvances, SMT
<1>. QED
  BY WritesApart, WriteAdvances, SMT

\* Which calls are which.
LEMMA Calls ==
  \A k \in 1..36 :
    /\ k \in SeekCalls \cup WriteCalls \cup TimeCalls \cup {1, 2, 3, 36}
    /\ Script[k].call = "open" => k = 1
    /\ Script[k].call = "ftruncate" => k \in {2, 3}
    /\ Script[k].call = "lseek" => k \in SeekCalls
    /\ Script[k].call = "time" => k \in TimeCalls
    /\ Script[k].call = "write" => k \in WriteCalls
    /\ Script[k].call = "close" => k = 36
<1>1. \A k \in 1..36 : k \in SeekCalls \cup WriteCalls \cup TimeCalls \cup {1, 2, 3, 36}
  BY SMT DEF SeekCalls, WriteCalls, TimeCalls
<1>2. \A k \in SeekCalls : Script[k].call = "lseek"
  BY OthersAdvance
<1>3. \A k \in WriteCalls : Script[k].call = "write"
  BY ObjectSizes
<1>4. \A k \in TimeCalls : Script[k].call = "time"
  BY OtherCalls DEF TimeCalls
<1>5. /\ Script[1].call = "open" /\ Script[2].call = "ftruncate"
      /\ Script[3].call = "ftruncate" /\ Script[36].call = "close"
  BY OtherCalls, SMT
<1>. QED
  BY <1>1, <1>2, <1>3, <1>4, <1>5, SMT

(***************************************************************************)
(* The invariant: the descriptor is where the calls before left it, and    *)
(* once the file has been emptied it holds what they wrote and no more.    *)
(***************************************************************************)
HasWritten(k) ==
  \A i \in WriteCalls :
    i < k => At[i] \in DOMAIN disk /\ disk[At[i]] = Script[i].obj

OnlyWritten(k) ==
  \A o \in DOMAIN disk : \E i \in WriteCalls : i < k /\ o = At[i]

Files ==
  /\ disk = [o \in DOMAIN disk |-> disk[o]]
  /\ \A o \in DOMAIN disk : o \in Nat /\ disk[o].len \in Nat \ {0}

Progress ==
  end # "stopped" =>
    /\ off = At[pc]
    /\ pc > 2 => HasWritten(pc) /\ OnlyWritten(pc)
    /\ pc > 3 => size = ImageSize
    /\ end = "returned" => pc = 36

Inv == TypeOK /\ Files /\ Progress

LEMMA InitInv == Init => Inv
<1>. SUFFICES ASSUME Init PROVE Inv
  OBVIOUS
<1>1. Files /\ \A o \in DOMAIN disk : o + disk[o].len <= ImageSize
  BY OldFilesAssumption DEF Init, Files, ImageSize
<1>2. disk = <<>> => DOMAIN disk = {}
  BY SMT
<1>3. TypeOK
  BY <1>1, <1>2, ScriptLength, MaxRunsAssumption, SMT
  DEF Init, TypeOK, Files, ImageSize
<1>4. Progress
  BY OthersAdvance, SMT DEF Init, Progress
<1>. QED
  BY <1>1, <1>3, <1>4 DEF Inv

\* What a write does to the file, whole or short.
LEMMA WriteKeeps ==
  ASSUME Inv, end = "running", pc \in WriteCalls, NEW obj,
         obj.size \in 1..Sizes[pc], obj.len \in 1..obj.size,
         disk' = Put(disk, off, obj)
  PROVE  /\ Files'
         /\ \A o \in DOMAIN disk' : o + disk'[o].len <= ImageSize
         /\ At[pc] \in DOMAIN disk' /\ disk'[At[pc]] = obj
         /\ \A i \in WriteCalls :
              i < pc => At[i] \in DOMAIN disk' /\ disk'[At[i]] = Script[i].obj
         /\ \A o \in DOMAIN disk' :
              o = At[pc] \/ \E i \in WriteCalls : i < pc /\ o = At[i]
<1>. DEFINE k == pc
            n == At[k]
<1>1. /\ k \in 4..35 /\ off = n /\ n \in Nat /\ n + Sizes[k] <= ImageSize
      /\ Sizes[k] \in Nat /\ size = ImageSize
      /\ HasWritten(k) /\ OnlyWritten(k)
  BY WriteAdvances, SMT DEF Inv, Progress
<1>2. disk' = Put(disk, n, obj)
  BY <1>1
<1>3. /\ disk' = [o \in DOMAIN disk' |-> disk'[o]]
      /\ DOMAIN disk' = (DOMAIN disk \ Over(disk, n, obj)) \cup {n}
      /\ disk'[n] = obj
      /\ \A o \in DOMAIN disk \ Over(disk, n, obj) : o # n => disk'[o] = disk[o]
  BY <1>2 DEF Put
<1>4. \A o \in DOMAIN disk :
        o \in Nat /\ disk[o].len \in Nat \ {0} /\ o + disk[o].len <= ImageSize
  BY <1>1, SMT DEF Inv, Files, TypeOK
<1>5. /\ \A o \in DOMAIN disk' : o \in Nat /\ disk'[o].len \in Nat \ {0}
      /\ \A o \in DOMAIN disk' : o + disk'[o].len <= ImageSize
  <2>. SUFFICES ASSUME NEW o \in DOMAIN disk'
                PROVE  o \in Nat /\ disk'[o].len \in Nat \ {0} /\ o + disk'[o].len <= ImageSize
    OBVIOUS
  <2>1. CASE o = n
    BY <2>1, <1>1, <1>3, SMT DEF ImageSize, NumBlocks, BlockSize
  <2>2. CASE o # n
    BY <2>2, <1>3, <1>4
  <2>. QED
    BY <2>1, <2>2
<1>6. \A i \in WriteCalls :
        i < k => At[i] \in DOMAIN disk' /\ disk'[At[i]] = Script[i].obj
  <2>. SUFFICES ASSUME NEW i \in WriteCalls, i < k
                PROVE  At[i] \in DOMAIN disk' /\ disk'[At[i]] = Script[i].obj
    OBVIOUS
  <2>1. At[i] \in DOMAIN disk /\ disk[At[i]] = Script[i].obj
    BY <1>1 DEF HasWritten
  <2>2. disk[At[i]].len = Lens[i] /\ At[i] \in Nat /\ Lens[i] \in Nat
    BY <2>1, ObjectSizes, WriteAdvances, SMT
  <2>3. At[i] + Lens[i] <= n \/ n + Sizes[k] <= At[i]
    BY WritesApart
  <2>4. At[i] \notin Over(disk, n, obj)
    BY <2>2, <2>3, <1>1, SMT DEF Over
  <2>5. At[i] # n
    BY OnePlaceEach, <1>1, SMT
  <2>. QED
    BY <2>1, <2>4, <2>5, <1>3
<1>7. \A o \in DOMAIN disk' : o = n \/ \E i \in WriteCalls : i < k /\ o = At[i]
  BY <1>1, <1>3 DEF OnlyWritten
<1>. QED
  BY <1>3, <1>5, <1>6, <1>7 DEF Files

LEMMA StepInv == Inv /\ [Next]_vars => Inv'
<1>. SUFFICES ASSUME Inv, [Next]_vars PROVE Inv'
  OBVIOUS
<1>. USE DEF Inv
<1>0. /\ pc \in 1..36 /\ end \in {"running", "returned", "stopped"} /\ runs \in Nat
      /\ \A o \in DOMAIN disk : o \in Nat /\ disk[o].len \in Nat /\ disk[o].len > 0
      /\ \A o \in DOMAIN disk : o + disk[o].len <= size
      /\ ImageSize = NumBlocks * BlockSize
  BY ScriptLength, SMT DEF TypeOK, Files, ImageSize
<1>1. CASE OpenFile
  <2>1. pc = 1 /\ pc' = 2 /\ off' = 0 /\ end' = "running"
    BY <1>0, <1>1, Calls, SMT DEF OpenFile, AtCall
  <2>2. TypeOK' /\ Files'
    BY <2>1, <1>1, ScriptLength, SMT DEF OpenFile, TypeOK, Files
  <2>3. Progress'
    BY <2>1, OthersAdvance, SMT DEF Progress
  <2>. QED
    BY <2>2, <2>3
<1>2. CASE Truncate
  <2>1. /\ pc \in {2, 3} /\ pc' = pc + 1 /\ off' = off /\ end' = end /\ end = "running"
        /\ runs' = runs
        /\ disk' = Cut(disk, Script[pc].to) /\ size' = Script[pc].to
    BY <1>0, <1>2, Calls, SMT DEF Truncate, AtCall
  <2>2. size' = IF pc = 2 THEN 0 ELSE ImageSize
    BY <2>1, OtherCalls, SMT
  <2>3. /\ disk' = [o \in DOMAIN disk' |-> disk'[o]]
        /\ \A o \in DOMAIN disk' : o \in DOMAIN disk /\ o + disk[o].len <= size'
        /\ \A o \in DOMAIN disk' : disk'[o] = disk[o]
    BY <2>1 DEF Cut
  <2>4. DOMAIN disk' = {}
    <3>1. CASE pc = 2
      <4>1. size' = 0 /\ \A o \in DOMAIN disk : ~(o + disk[o].len <= 0)
        BY <3>1, <2>2, <1>0, SMT
      <4>. QED
        BY <4>1, <2>3, Zenon
    <3>2. CASE pc = 3
      <4>1. OnlyWritten(3) /\ \A i \in WriteCalls : ~(i < 3)
        BY <3>2, <2>1, WriteAdvances, SMT DEF Progress
      <4>. QED
        BY <4>1, <2>3 DEF OnlyWritten
    <3>. QED
      BY <3>1, <3>2, <2>1
  <2>5. TypeOK' /\ Files'
    <3>1. size' \in {0, NumBlocks * BlockSize} /\ pc' \in 1..Len(Script)
      BY <2>1, <2>2, <1>0, ScriptLength, SMT
    <3>2. end' \in {"running", "returned", "stopped"} /\ runs' \in 1..MaxRuns
      BY <2>1 DEF TypeOK
    <3>. QED
      BY <2>3, <2>4, <3>1, <3>2 DEF TypeOK, Files
  <2>6. \A i \in WriteCalls : ~(i < pc')
    BY <2>1, WriteAdvances, SMT
  <2>7. HasWritten(pc)' /\ OnlyWritten(pc)'
    BY <2>4, <2>6 DEF HasWritten, OnlyWritten
  <2>8. off' = At[pc'] /\ end' # "returned"
    BY <2>1, OthersAdvance, SMT DEF Progress
  <2>9. pc' > 3 => size' = ImageSize
    BY <2>1, <2>2, SMT
  <2>. QED
    BY <2>5, <2>7, <2>8, <2>9 DEF Progress
<1>3. CASE SeekTo \/ Time
  <2>1. /\ pc \in SeekCalls \cup TimeCalls /\ end = "running"
        /\ pc' = pc + 1 /\ UNCHANGED <<disk, size, end, runs>>
        /\ off' = At[pc + 1]
    <3>1. CASE SeekTo
      BY <3>1, <1>0, Calls, OthersAdvance, SMT DEF SeekTo, AtCall
    <3>2. CASE Time
      BY <3>2, <1>0, Calls, OthersAdvance, SMT DEF Time, AtCall, Progress
    <3>. QED
      BY <3>1, <3>2, <1>3
  <2>2. pc \in 4..35 /\ pc \notin WriteCalls
    BY <2>1, SMT DEF SeekCalls, TimeCalls, WriteCalls
  <2>3. TypeOK' /\ Files'
    BY <2>1, <2>2, ScriptLength, SMT DEF TypeOK, Files
  <2>4. \A i \in WriteCalls : i < pc + 1 <=> i < pc
    BY <2>2, WriteAdvances, SMT
  <2>5. HasWritten(pc) /\ OnlyWritten(pc) /\ size = ImageSize
    BY <2>1, <2>2, SMT DEF Progress
  <2>6. HasWritten(pc)' /\ OnlyWritten(pc)'
    BY <2>1, <2>4, <2>5 DEF HasWritten, OnlyWritten
  <2>. QED
    BY <2>1, <2>3, <2>5, <2>6, SMT DEF Progress
<1>4. CASE WriteAll
  <2>1. /\ pc \in WriteCalls /\ end = "running" /\ end' = "running" /\ runs' = runs
        /\ pc' = pc + 1
        /\ disk' = Put(disk, off, Script[pc].obj)
        /\ off' = off + Script[pc].obj.size
        /\ size' = Larger(size, off')
    BY <1>0, <1>4, Calls, SMT DEF WriteAll, AtCall
  <2>2. /\ Script[pc].obj.size = Sizes[pc] /\ Script[pc].obj.len = Lens[pc]
        /\ Sizes[pc] \in Nat /\ Lens[pc] \in 1..Sizes[pc] /\ pc \in 4..35
        /\ off = At[pc] /\ At[pc] \in Nat /\ size = ImageSize
        /\ At[pc + 1] = At[pc] + Sizes[pc] /\ At[pc] + Sizes[pc] <= ImageSize
    BY <2>1, ObjectSizes, WriteAdvances, SMT DEF Progress
  <2>3. Script[pc].obj.size \in 1..Sizes[pc] /\ Script[pc].obj.len \in 1..Script[pc].obj.size
    BY <2>2, SMT
  <2>4. /\ Files'
        /\ \A o \in DOMAIN disk' : o + disk'[o].len <= ImageSize
        /\ At[pc] \in DOMAIN disk' /\ disk'[At[pc]] = Script[pc].obj
        /\ \A i \in WriteCalls :
             i < pc => At[i] \in DOMAIN disk' /\ disk'[At[i]] = Script[i].obj
        /\ \A o \in DOMAIN disk' :
             o = At[pc] \/ \E i \in WriteCalls : i < pc /\ o = At[i]
    BY <2>1, <2>3, WriteKeeps
  <2>5. off' = At[pc'] /\ size' = ImageSize
    BY <2>1, <2>2, SMT DEF Larger, ImageSize, NumBlocks, BlockSize
  <2>6. \A i \in WriteCalls : i < pc' <=> i < pc \/ i = pc
    BY <2>1, <2>2, WriteAdvances, SMT
  <2>7. HasWritten(pc)' /\ OnlyWritten(pc)'
    BY <2>1, <2>4, <2>6 DEF HasWritten, OnlyWritten
  <2>8. TypeOK'
    <3>1. pc' \in 1..Len(Script) /\ size' \in {0, NumBlocks * BlockSize}
      BY <2>1, <2>2, <2>5, <1>0, ScriptLength, SMT
    <3>2. end' \in {"running", "returned", "stopped"} /\ runs' \in 1..MaxRuns
      BY <2>1 DEF TypeOK
    <3>. QED
      BY <2>4, <2>5, <3>1, <3>2 DEF TypeOK, Files
  <2>. QED
    BY <2>1, <2>4, <2>5, <2>7, <2>8, SMT DEF Progress
<1>5. CASE WriteShort
  <2>1. /\ pc \in WriteCalls /\ end = "running" /\ end' = "stopped"
        /\ UNCHANGED <<off, pc, runs>>
        /\ disk' = Put(disk, off, Torn(Script[pc].obj))
        /\ size' = Larger(size, off + Script[pc].obj.len)
    BY <1>0, <1>5, Calls, SMT DEF WriteShort, AtCall
  <2>2. /\ Script[pc].obj.len = Lens[pc] /\ Sizes[pc] \in Nat
        /\ Lens[pc] \in 1..Sizes[pc] /\ pc \in 4..35
        /\ off = At[pc] /\ At[pc] \in Nat /\ size = ImageSize
        /\ At[pc] + Sizes[pc] <= ImageSize
    BY <2>1, ObjectSizes, WriteAdvances, SMT DEF Progress
  <2>3. /\ Torn(Script[pc].obj).size \in 1..Sizes[pc]
        /\ Torn(Script[pc].obj).len \in 1..Torn(Script[pc].obj).size
    BY <2>2, SMT DEF Torn
  <2>4. Files' /\ \A o \in DOMAIN disk' : o + disk'[o].len <= ImageSize
    BY <2>1, <2>3, WriteKeeps
  <2>5. size' = ImageSize
    BY <2>1, <2>2, SMT DEF Larger, ImageSize, NumBlocks, BlockSize
  <2>6. TypeOK'
    BY <2>1, <2>4, <2>5, <1>0, ScriptLength, SMT DEF TypeOK, Files
  <2>. QED
    BY <2>1, <2>4, <2>6 DEF Progress
<1>6. CASE CloseFile
  <2>1. /\ pc = 36 /\ end = "running" /\ end' = "returned"
        /\ UNCHANGED <<disk, size, off, pc, runs>>
    BY <1>0, <1>6, Calls, SMT DEF CloseFile, AtCall
  <2>. QED
    BY <2>1, SMT DEF TypeOK, Files, Progress, HasWritten, OnlyWritten
<1>7. CASE Stop
  BY <1>7, SMT DEF Stop, TypeOK, Files, Progress
<1>8. CASE RunAgain
  <2>1. TypeOK' /\ Files'
    BY <1>8, <1>0, MaxRunsAssumption, ScriptLength, SMT DEF RunAgain, TypeOK, Files
  <2>2. Progress'
    BY <1>8, OthersAdvance, SMT DEF RunAgain, Progress
  <2>. QED
    BY <2>1, <2>2
<1>9. CASE UNCHANGED vars
  BY <1>9 DEF vars, TypeOK, Files, Progress, HasWritten, OnlyWritten
<1>. QED
  BY <1>1, <1>2, <1>3, <1>4, <1>5, <1>6, <1>7, <1>8, <1>9 DEF Next, Done

\* From any old file that fits into an image, through any number of runs that
\* fail or are killed wherever they are: the file is empty or as long as an
\* image, and nothing in it goes beyond its end.
THEOREM TypeCorrect == Spec => []TypeOK
<1>1. Inv => TypeOK
  BY DEF Inv
<1>. QED
  BY <1>1, InitInv, StepInv, PTL DEF Spec

\* When main returns, the file is the image: what it held before, and what runs
\* that stopped have left in it, is gone.
Image ==
  [o \in {At[i] : i \in WriteCalls} |->
     Script[CHOOSE i \in WriteCalls : At[i] = o].obj]

THEOREM ImageIsFresh ==
  Spec => [](end = "returned" => disk = Image /\ size = ImageSize)
<1>1. Inv => (end = "returned" => disk = Image /\ size = ImageSize)
  <2>. SUFFICES ASSUME Inv, end = "returned" PROVE disk = Image /\ size = ImageSize
    OBVIOUS
  <2>1. /\ HasWritten(36) /\ OnlyWritten(36) /\ size = ImageSize
        /\ disk = [o \in DOMAIN disk |-> disk[o]]
    BY SMT DEF Inv, Progress, Files
  <2>2. \A i \in WriteCalls : i < 36
    BY WriteAdvances, SMT
  <2>3. DOMAIN disk = {At[i] : i \in WriteCalls}
    BY <2>1, <2>2 DEF HasWritten, OnlyWritten
  <2>4. \A i \in WriteCalls : (CHOOSE j \in WriteCalls : At[j] = At[i]) = i
    BY OnePlaceEach
  <2>5. \A o \in DOMAIN disk : disk[o] = Image[o]
    BY <2>1, <2>2, <2>3, <2>4 DEF HasWritten, Image
  <2>6. disk = [o \in DOMAIN disk |-> Image[o]]
    BY <2>1, <2>5
  <2>7. Image = [o \in {At[i] : i \in WriteCalls} |-> Image[o]]
    BY DEF Image
  <2>. QED
    BY <2>1, <2>3, <2>6, <2>7
<1>. QED
  BY <1>1, InitInv, StepInv, PTL DEF Spec

(***************************************************************************)
(* The bitmaps.                                                            *)
(***************************************************************************)
LEMMA BitsOf ==
  /\ \A k \in 0..7 : k \in Bits(255) /\ k \notin Bits(0)
  /\ \A k \in 0..7 : k \in Bits(127) <=> k < 7
  /\ \A k \in 0..7 : k \in Bits(128) <=> k = 7
  /\ \A k \in 0..7 : k \in Bits(31) <=> k < 5
<1>. USE DEF Bits, Weight
<1>1. \A k \in 0..7 : k \in Bits(255) /\ k \notin Bits(0)
  BY SMT
<1>2. \A k \in 0..7 : k \in Bits(127) <=> k < 7
  BY SMT
<1>3. \A k \in 0..7 : k \in Bits(128) <=> k = 7
  BY SMT
<1>4. \A k \in 0..7 : k \in Bits(31) <=> k < 5
  BY SMT
<1>. QED
  BY <1>1, <1>2, <1>3, <1>4

\* Bit n of the block bitmap is block n + 1: 1 to 23 are marked, and what is
\* not a block.
LEMMA BlockBits ==
  ASSUME NEW n \in Nat, n < 8 * BlockSize
  PROVE  n \in Bitmap(BlockBitmapByte).bits <=> n <= 22 \/ n >= 1023
<1>. DEFINE byte(i) == BlockBitmapByte(i)
            at(j, m) == 8 * j + m
            Bytes == 0..(BlockSize - 1)
            i == n \div 8
            k == n % 8
<1>1. i \in Bytes /\ k \in 0..7 /\ n = at(i, k)
  BY SMT DEF BlockSize
<1>2. Bytes \subseteq Nat
  BY SMT DEF BlockSize
<1>3. Bitmap(BlockBitmapByte).bits = UNION {{at(j, m) : m \in Bits(byte(j))} : j \in Bytes}
  BY DEF Bitmap
<1>. HIDE DEF byte, at, Bytes, i, k
<1>4. n \in Bitmap(BlockBitmapByte).bits
        <=> \E j \in Bytes : \E m \in Bits(byte(j)) : n = at(j, m)
  BY <1>3
<1>5. ASSUME NEW j \in Bytes, NEW m \in Bits(byte(j)), n = at(j, m)
      PROVE  j = i /\ m = k
  <2>1. m \in 0..7
    BY DEF Bits
  <2>2. j \in Nat /\ i \in Nat
    BY <1>1, <1>2
  <2>. QED
    BY <1>1, <1>5, <2>1, <2>2, SMT DEF at
<1>6. i \in 0..1023 /\ k \in 0..7 /\ n = 8 * i + k
  BY <1>1, SMT DEF at, Bytes, BlockSize
<1>7. n \in Bitmap(BlockBitmapByte).bits <=> k \in Bits(byte(i))
  BY <1>1, <1>4, <1>5, Zenon
<1>8. CASE i \in {0, 1}
  <2>1. byte(i) = 255
    BY <1>8, <1>6, SMT DEF byte, BlockBitmapByte
  <2>. QED
    BY <2>1, <1>6, <1>8, <1>7, BitsOf, SMT
<1>9. CASE i = 2
  <2>1. byte(i) = 127
    BY <1>9, <1>6, SMT DEF byte, BlockBitmapByte
  <2>. QED
    BY <2>1, <1>6, <1>9, <1>7, BitsOf, SMT
<1>10. CASE i \in 3..126
  <2>1. byte(i) = 0
    BY <1>10, <1>6, SMT DEF byte, BlockBitmapByte
  <2>. QED
    BY <2>1, <1>6, <1>10, <1>7, BitsOf, SMT
<1>11. CASE i = 127
  <2>1. byte(i) = 128
    BY <1>11, <1>6, SMT DEF byte, BlockBitmapByte
  <2>. QED
    BY <2>1, <1>6, <1>11, <1>7, BitsOf, SMT
<1>12. CASE i >= 128
  <2>1. byte(i) = 255
    BY <1>12, <1>6, SMT DEF byte, BlockBitmapByte
  <2>. QED
    BY <2>1, <1>6, <1>12, <1>7, BitsOf, SMT
<1>. QED
  BY <1>6, <1>8, <1>9, <1>10, <1>11, <1>12, SMT

\* Bit n of the inode bitmap is inode n + 1: 1 to 13 are marked, and what is
\* not an inode.
LEMMA InodeBits ==
  ASSUME NEW n \in Nat, n < 8 * BlockSize
  PROVE  n \in Bitmap(InodeBitmapByte).bits <=> n <= 12 \/ n >= 128
<1>. DEFINE byte(i) == InodeBitmapByte(i)
            at(j, m) == 8 * j + m
            Bytes == 0..(BlockSize - 1)
            i == n \div 8
            k == n % 8
<1>1. i \in Bytes /\ k \in 0..7 /\ n = at(i, k)
  BY SMT DEF BlockSize
<1>2. Bytes \subseteq Nat
  BY SMT DEF BlockSize
<1>3. Bitmap(InodeBitmapByte).bits = UNION {{at(j, m) : m \in Bits(byte(j))} : j \in Bytes}
  BY DEF Bitmap
<1>. HIDE DEF byte, at, Bytes, i, k
<1>4. n \in Bitmap(InodeBitmapByte).bits
        <=> \E j \in Bytes : \E m \in Bits(byte(j)) : n = at(j, m)
  BY <1>3
<1>5. ASSUME NEW j \in Bytes, NEW m \in Bits(byte(j)), n = at(j, m)
      PROVE  j = i /\ m = k
  <2>1. m \in 0..7
    BY DEF Bits
  <2>2. j \in Nat /\ i \in Nat
    BY <1>1, <1>2
  <2>. QED
    BY <1>1, <1>5, <2>1, <2>2, SMT DEF at
<1>6. i \in 0..1023 /\ k \in 0..7 /\ n = 8 * i + k
  BY <1>1, SMT DEF at, Bytes, BlockSize
<1>7. n \in Bitmap(InodeBitmapByte).bits <=> k \in Bits(byte(i))
  BY <1>1, <1>4, <1>5, Zenon
<1>8. CASE i = 0
  <2>1. byte(i) = 255
    BY <1>8, <1>6, SMT DEF byte, InodeBitmapByte
  <2>. QED
    BY <2>1, <1>6, <1>8, <1>7, BitsOf, SMT
<1>9. CASE i = 1
  <2>1. byte(i) = 31
    BY <1>9, <1>6, SMT DEF byte, InodeBitmapByte
  <2>. QED
    BY <2>1, <1>6, <1>9, <1>7, BitsOf, SMT
<1>10. CASE i \in 2..15
  <2>1. byte(i) = 0
    BY <1>10, <1>6, SMT DEF byte, InodeBitmapByte
  <2>. QED
    BY <2>1, <1>6, <1>10, <1>7, BitsOf, SMT
<1>11. CASE i >= 16
  <2>1. byte(i) = 255
    BY <1>11, <1>6, SMT DEF byte, InodeBitmapByte
  <2>. QED
    BY <2>1, <1>6, <1>11, <1>7, BitsOf, SMT
<1>. QED
  BY <1>6, <1>8, <1>9, <1>10, <1>11, SMT

(***************************************************************************)
(* What a reader finds.                                                    *)
(***************************************************************************)
EntryCalls == {24, 25, 26, 27, 28, 29, 31, 32, 33}
InodeCalls == {15, 17, 19, 21}

LEMMA ObjectKinds ==
  \A j \in WriteCalls :
    /\ Script[j].obj.kind = "superblock" => j = 6
    /\ Script[j].obj.kind = "descriptor" => j = 8
    /\ Script[j].obj.kind = "inode" <=> j \in InodeCalls
    /\ Script[j].obj.kind = "entry" <=> j \in EntryCalls
    /\ Script[j].obj.kind # "torn"
<1>1. Superblock.kind = "superblock" /\ BlockGroupDescriptor.kind = "descriptor"
  BY SMT DEF Superblock, BlockGroupDescriptor
<1>2. Bitmap(BlockBitmapByte).kind = "bitmap" /\ Bitmap(InodeBitmapByte).kind = "bitmap"
  BY SMT DEF Bitmap
<1>3. /\ LostAndFoundInode.kind = "inode" /\ RootInode.kind = "inode"
      /\ HelloWorldInode.kind = "inode" /\ HelloInode.kind = "inode"
  BY SMT DEF LostAndFoundInode, RootInode, HelloWorldInode, HelloInode, Inode
<1>4. /\ \A inode, name, n : Entry(inode, name, n).kind = "entry"
      /\ \A n : Fill(n).kind = "entry"
  BY SMT DEF Entry, Fill
<1>5. HelloWorldFile.kind = "data"
  BY SMT DEF HelloWorldFile
<1>6. /\ Script[6].obj.kind = "superblock" /\ Script[8].obj.kind = "descriptor"
      /\ \A j \in {10, 12} : Script[j].obj.kind = "bitmap"
      /\ Script[35].obj.kind = "data"
  BY <1>1, <1>2, <1>5, Writes, SMT
<1>7. \A j \in InodeCalls : Script[j].obj.kind = "inode"
  BY <1>3, Writes, SMT DEF InodeCalls
<1>8. \A j \in EntryCalls : Script[j].obj.kind = "entry"
  BY <1>4, Writes, SMT DEF EntryCalls
<1>9. \A j \in WriteCalls :
        j \in {6, 8, 10, 12, 35} \/ j \in InodeCalls \/ j \in EntryCalls
  BY SMT DEF WriteCalls, InodeCalls, EntryCalls
<1>10. \A j \in InodeCalls : j \notin EntryCalls /\ j # 6 /\ j # 8
  BY SMT DEF InodeCalls, EntryCalls
<1>11. \A j \in {6, 8, 10, 12, 35} : j \notin EntryCalls /\ j \notin InodeCalls
  BY SMT DEF InodeCalls, EntryCalls
<1>12. \A j \in {10, 12, 35} : j # 6 /\ j # 8
  BY SMT
<1>. QED
  BY <1>6, <1>7, <1>8, <1>9, <1>10, <1>11, <1>12, SMT

\* The inode that each number of a call writes, and the inode of each entry.
LEMMA InodesWritten ==
  /\ \A i \in 1..128, j \in InodeCalls :
       At[j] = 5120 + (i - 1) * 128 =>
         \/ i = 11 /\ j = 15 /\ Script[j].obj = LostAndFoundInode
         \/ i = 2 /\ j = 17 /\ Script[j].obj = RootInode
         \/ i = 12 /\ j = 19 /\ Script[j].obj = HelloWorldInode
         \/ i = 13 /\ j = 21 /\ Script[j].obj = HelloInode
  /\ \A j \in EntryCalls : Script[j].obj.inode \in {0, 2, 11, 12, 13}
<1>1. \A i \in 1..128, j \in InodeCalls :
        At[j] = 5120 + (i - 1) * 128 =>
          (i = 11 /\ j = 15) \/ (i = 2 /\ j = 17) \/ (i = 12 /\ j = 19) \/ (i = 13 /\ j = 21)
  BY SMT DEF InodeCalls, At
<1>2. /\ Script[15].obj = LostAndFoundInode /\ Script[17].obj = RootInode
      /\ Script[19].obj = HelloWorldInode /\ Script[21].obj = HelloInode
  BY Writes, SMT
<1>3. /\ \A inode, name, n : Entry(inode, name, n).inode = inode
      /\ \A n : Fill(n).inode = 0
  BY SMT DEF Entry, Fill
<1>4. \A j \in EntryCalls : Script[j].obj.inode \in {0, 2, 11, 12, 13}
  BY <1>3, Writes, SMT
  DEF EntryCalls, RootIno, LostAndFoundIno, HelloWorldIno, HelloIno
<1>. QED
  BY <1>1, <1>2, <1>4

LEMMA InodeBlocks ==
  /\ LostAndFoundInode.i_blocks = 2 /\ LostAndFoundInode.i_block = 22
  /\ RootInode.i_blocks = 2 /\ RootInode.i_block = 21
  /\ HelloWorldInode.i_blocks = 2 /\ HelloWorldInode.i_block = 23
  /\ HelloInode.i_blocks = 0
BY SMT DEF LostAndFoundInode, RootInode, HelloWorldInode, HelloInode, Inode,
           LostAndFoundDirBlock, RootDirBlock, HelloWorldFileBlock

LEMMA Headers ==
  /\ Superblock.inodes_count = 128 /\ Superblock.blocks_count = 1024
  /\ Superblock.free_blocks_count = 1000 /\ Superblock.free_inodes_count = 115
  /\ Superblock.first_data_block = 1
  /\ BlockGroupDescriptor.block_bitmap = 3 /\ BlockGroupDescriptor.inode_bitmap = 4
  /\ BlockGroupDescriptor.inode_table = 5
  /\ BlockGroupDescriptor.free_blocks_count = 1000
  /\ BlockGroupDescriptor.free_inodes_count = 115
  /\ BlockGroupDescriptor.used_dirs_count = 2
BY SMT DEF Superblock, BlockGroupDescriptor, NumInodes, NumBlocks, NumFreeBlocks,
           NumFreeInodes, LastBlock, LastIno, HelloWorldFileBlock, HelloIno,
           BlockBitmapBlock, InodeBitmapBlock, InodeTableBlock

\* The calls before call k wrote what the file holds, but for what a short
\* write left.
WrittenOrTorn(k) ==
  /\ HasWritten(k)
  /\ \A o \in DOMAIN disk :
       disk[o].kind = "torn" \/ \E i \in WriteCalls : i < k /\ o = At[i]

\* What is found at an offset was written there by one of these calls.
LEMMA FoundWritten ==
  ASSUME NEW k, WrittenOrTorn(k), NEW o \in DOMAIN disk, disk[o].kind # "torn"
  PROVE  \E j \in WriteCalls : j < k /\ o = At[j] /\ disk[o] = Script[j].obj
BY DEF WrittenOrTorn, HasWritten

\* The two headers are those that were written, so bitmaps and inodes are found
\* where they were written.
LEMMA HeadersFound ==
  ASSUME NEW k \in Nat, WrittenOrTorn(k), Readable
  PROVE  /\ k > 8 /\ sb = Superblock /\ gd = BlockGroupDescriptor
         /\ \A i : InodeOffset(i) = 5120 + (i - 1) * 128
<1>1. PICK j \in WriteCalls : j < k /\ disk[1024] = Script[j].obj
  BY FoundWritten, SMT DEF Readable, Holds
<1>2. PICK m \in WriteCalls : m < k /\ disk[2048] = Script[m].obj
  BY FoundWritten, SMT DEF Readable, Holds
<1>3. j = 6 /\ m = 8
  BY <1>1, <1>2, ObjectKinds DEF Readable, Holds
<1>4. sb = Superblock /\ gd = BlockGroupDescriptor
  BY <1>1, <1>2, <1>3, Writes, SMT DEF sb, gd
<1>5. \A i : InodeOffset(i) = 5120 + (i - 1) * 128
  BY <1>4, Headers, SMT DEF InodeOffset, BlockOffset, BlockSize, InodeSize
<1>. QED
  BY <1>2, <1>3, <1>4, <1>5, SMT

\* The inodes that are found are the four of the program, and the inode bitmap
\* was written before them.
LEMMA InodesFound ==
  ASSUME NEW k \in Nat, WrittenOrTorn(k), Readable, NEW i \in InodesInUse
  PROVE  /\ k > 15
         /\ \/ i = 11 /\ InodeAt(i) = LostAndFoundInode
            \/ i = 2 /\ InodeAt(i) = RootInode
            \/ i = 12 /\ InodeAt(i) = HelloWorldInode
            \/ i = 13 /\ InodeAt(i) = HelloInode
<1>1. i \in 1..128 /\ InodeOffset(i) \in DOMAIN disk /\ InodeAt(i).kind = "inode"
  BY HeadersFound, Headers DEF InodesInUse, Holds, InodeAt
<1>2. PICK j \in WriteCalls : j < k /\ InodeOffset(i) = At[j] /\ InodeAt(i) = Script[j].obj
  BY <1>1, FoundWritten, SMT DEF InodeAt
<1>3. j \in InodeCalls
  BY <1>1, <1>2, ObjectKinds
<1>4. At[j] = 5120 + (i - 1) * 128
  BY <1>2, HeadersFound
<1>5. k > 15
  BY <1>2, <1>3, SMT DEF InodeCalls
<1>. QED
  BY <1>1, <1>2, <1>3, <1>4, <1>5, InodesWritten

\* Once they are written, they are found.
LEMMA InodesThere ==
  ASSUME NEW k \in Nat, WrittenOrTorn(k), Readable, k > 21
  PROVE  {2, 11, 12, 13} \subseteq InodesInUse
<1>1. \A j \in InodeCalls :
        j \in WriteCalls /\ j < k /\ At[j] \in DOMAIN disk /\ disk[At[j]].kind = "inode"
  <2>1. \A j \in InodeCalls : j \in WriteCalls /\ j < k
    BY SMT DEF InodeCalls, WriteCalls
  <2>. QED
    BY <2>1, ObjectKinds DEF WrittenOrTorn, HasWritten
<1>2. /\ At[15] = InodeOffset(11) /\ At[17] = InodeOffset(2)
      /\ At[19] = InodeOffset(12) /\ At[21] = InodeOffset(13)
  BY HeadersFound, SMT DEF At
<1>3. \A i \in {2, 11, 12, 13} : i \in 1..sb.inodes_count
  BY HeadersFound, Headers, SMT
<1>. QED
  BY <1>1, <1>2, <1>3 DEF InodesInUse, Holds, InodeCalls

\* The marks of the inodes and the blocks that the program uses.
LEMMA MarksFound ==
  ASSUME NEW k \in Nat, WrittenOrTorn(k), Readable, k > 12
  PROVE  /\ \A n \in Nat : n < 8 * BlockSize =>
              (n \in Marked(gd.block_bitmap) <=> n <= 22 \/ n >= 1023)
         /\ \A n \in Nat : n < 8 * BlockSize =>
              (n \in Marked(gd.inode_bitmap) <=> n <= 12 \/ n >= 128)
<1>1. /\ 3072 \in DOMAIN disk /\ disk[3072] = Bitmap(BlockBitmapByte)
      /\ 4096 \in DOMAIN disk /\ disk[4096] = Bitmap(InodeBitmapByte)
  <2>1. 10 \in WriteCalls /\ 12 \in WriteCalls /\ At[10] = 3072 /\ At[12] = 4096
    BY SMT DEF WriteCalls, At
  <2>2. 10 < k /\ 12 < k
    BY SMT
  <2>3. /\ At[10] \in DOMAIN disk /\ disk[At[10]] = Script[10].obj
        /\ At[12] \in DOMAIN disk /\ disk[At[12]] = Script[12].obj
    BY <2>1, <2>2 DEF WrittenOrTorn, HasWritten
  <2>. QED
    BY <2>1, <2>3, Writes, SMT
<1>2. BlockOffset(gd.block_bitmap) = 3072 /\ BlockOffset(gd.inode_bitmap) = 4096
  BY HeadersFound, Headers, SMT DEF BlockOffset, BlockSize
<1>3. Bitmap(BlockBitmapByte).kind = "bitmap" /\ Bitmap(InodeBitmapByte).kind = "bitmap"
  BY SMT DEF Bitmap
<1>4. /\ Marked(gd.block_bitmap) = Bitmap(BlockBitmapByte).bits
      /\ Marked(gd.inode_bitmap) = Bitmap(InodeBitmapByte).bits
  BY <1>1, <1>2, <1>3 DEF Marked, Holds
<1>. QED
  BY <1>4, BlockBits, InodeBits

LEMMA WrittenResolves ==
  \A k \in Nat : WrittenOrTorn(k) => ReferencesResolve
<1>. SUFFICES ASSUME NEW k \in Nat, WrittenOrTorn(k), Readable
              PROVE  /\ \A i \in InodesInUse : InodeMarked(i)
                     /\ \A i \in WithBlock : BlockMarked(InodeAt(i).i_block)
                     /\ \A o \in DOMAIN disk :
                          disk[o].kind = "entry" => disk[o].inode \in InodesInUse \cup {0}
  BY DEF ReferencesResolve
<1>1. ASSUME NEW i \in InodesInUse
      PROVE  InodeMarked(i)
  <2>1. i \in {2, 11, 12, 13} /\ k > 12
    BY InodesFound, SMT
  <2>2. i - 1 \in Nat /\ i - 1 < 8 * BlockSize /\ i - 1 <= 12
    BY <2>1, SMT DEF BlockSize
  <2>. QED
    BY <2>1, <2>2, MarksFound, Zenon DEF InodeMarked
<1>2. ASSUME NEW i \in WithBlock
      PROVE  BlockMarked(InodeAt(i).i_block)
  <2>1. i \in InodesInUse /\ InodeAt(i).i_blocks > 0
    BY DEF WithBlock
  <2>2. InodeAt(i).i_block \in {21, 22, 23} /\ k > 12
    BY <2>1, InodesFound, InodeBlocks, SMT
  <2>. DEFINE n == InodeAt(i).i_block - sb.first_data_block
  <2>3. n \in Nat /\ n < 8 * BlockSize /\ n <= 22
    BY <2>2, HeadersFound, Headers, SMT DEF BlockSize
  <2>. QED
    BY <2>2, <2>3, MarksFound, Zenon DEF BlockMarked
<1>3. ASSUME NEW o \in DOMAIN disk, disk[o].kind = "entry"
      PROVE  disk[o].inode \in InodesInUse \cup {0}
  <2>1. PICK j \in WriteCalls : j < k /\ disk[o] = Script[j].obj
    BY <1>3, FoundWritten, SMT
  <2>2. j \in EntryCalls
    BY <1>3, <2>1, ObjectKinds
  <2>3. k > 21
    BY <2>1, <2>2, SMT DEF EntryCalls
  <2>. QED
    BY <2>1, <2>2, <2>3, InodesThere, InodesWritten
<1>. QED
  BY <1>1, <1>2, <1>3

\* However far the program came, and however often it is run again: the inodes
\* that are found are marked and so are their blocks, and the entries that are
\* found name inodes that are found, if that was so in the file before the
\* first run.
THEOREM ReferencesHold == Spec /\ ReferencesResolve => []ReferencesResolve
<1>1. Inv /\ ReferencesResolve /\ [Next]_vars => ReferencesResolve'
  <2>. SUFFICES ASSUME Inv, ReferencesResolve, [Next]_vars
                PROVE  ReferencesResolve'
    OBVIOUS
  <2>1. disk' = disk => ReferencesResolve'
    BY DEF ReferencesResolve, Readable, Holds, sb, gd, Marked, BlockMarked, InodeMarked,
           InodeOffset, InodeAt, InodesInUse, WithBlock
  <2>2. (\A k \in Nat : WrittenOrTorn(k) => ReferencesResolve)'
    BY WrittenResolves, PTL
  <2>3. pc \in 1..36
    BY ScriptLength DEF Inv, TypeOK
  <2>4. CASE Truncate \/ WriteAll
    <3>1. Inv' /\ pc' > 2 /\ end' = "running" /\ pc' \in Nat
      <4>1. Inv' /\ end' = "running" /\ pc' = pc + 1
        BY <2>4, StepInv DEF Truncate, WriteAll, AtCall
      <4>2. pc >= 2
        BY <2>3, <2>4, Calls, WriteAdvances, SMT DEF Truncate, WriteAll, AtCall
      <4>. QED
        BY <4>1, <4>2, <2>3, SMT
    <3>2. HasWritten(pc)' /\ OnlyWritten(pc)'
      BY <3>1, SMT DEF Inv, Progress
    <3>3. PICK k \in Nat : k = pc'
      BY <3>1
    <3>4. WrittenOrTorn(k)'
      BY <3>2, <3>3 DEF WrittenOrTorn, OnlyWritten, HasWritten
    <3>. QED
      BY <3>4, <2>2
  <2>5. CASE WriteShort
    <3>1. /\ pc \in WriteCalls /\ end = "running"
          /\ disk' = Put(disk, off, Torn(Script[pc].obj))
      BY <2>3, <2>5, Calls DEF WriteShort, AtCall
    <3>2. /\ Script[pc].obj.len = Lens[pc] /\ Sizes[pc] \in Nat
          /\ Lens[pc] \in 1..Sizes[pc]
      BY <3>1, ObjectSizes, WriteAdvances
    <3>3. /\ Torn(Script[pc].obj).size \in 1..Sizes[pc]
          /\ Torn(Script[pc].obj).len \in 1..Torn(Script[pc].obj).size
          /\ Torn(Script[pc].obj).kind = "torn"
      BY <3>2, SMT DEF Torn
    <3>4. /\ At[pc] \in DOMAIN disk' /\ disk'[At[pc]] = Torn(Script[pc].obj)
          /\ \A i \in WriteCalls :
               i < pc => At[i] \in DOMAIN disk' /\ disk'[At[i]] = Script[i].obj
          /\ \A o \in DOMAIN disk' :
               o = At[pc] \/ \E i \in WriteCalls : i < pc /\ o = At[i]
      BY <3>1, <3>3, WriteKeeps
    <3>5. PICK k \in Nat : k = pc
      BY <2>3
    <3>6. WrittenOrTorn(k)'
      BY <3>3, <3>4, <3>5 DEF WrittenOrTorn, HasWritten
    <3>. QED
      BY <3>6, <2>2
  <2>6. CASE OpenFile \/ SeekTo \/ Time \/ CloseFile \/ Stop \/ RunAgain \/ UNCHANGED vars
    BY <2>1, <2>6 DEF OpenFile, SeekTo, Time, CloseFile, Stop, RunAgain, vars
  <2>. QED
    BY <2>4, <2>5, <2>6 DEF Next, Done
<1>. QED
  BY <1>1, InitInv, StepInv, PTL DEF Spec

(***************************************************************************)
(* The image that a finished run leaves.                                   *)
(***************************************************************************)
LEMMA ReturnedImage ==
  ASSUME Inv, end = "returned"
  PROVE  /\ HasWritten(36) /\ OnlyWritten(36) /\ WrittenOrTorn(36) /\ Readable
         /\ size = ImageSize
         /\ \A i \in WriteCalls : At[i] \in DOMAIN disk /\ disk[At[i]] = Script[i].obj
         /\ \A o \in DOMAIN disk : \E i \in WriteCalls : o = At[i] /\ disk[o] = Script[i].obj
<1>1. HasWritten(36) /\ OnlyWritten(36) /\ size = ImageSize
  BY SMT DEF Inv, Progress
<1>2. WrittenOrTorn(36)
  BY <1>1 DEF WrittenOrTorn, OnlyWritten
<1>3. \A i \in WriteCalls : At[i] \in DOMAIN disk /\ disk[At[i]] = Script[i].obj
  BY <1>1, WriteAdvances, SMT DEF HasWritten
<1>4. \A o \in DOMAIN disk : \E i \in WriteCalls : o = At[i] /\ disk[o] = Script[i].obj
  BY <1>1, <1>3 DEF OnlyWritten
<1>5. 6 \in WriteCalls /\ 8 \in WriteCalls /\ At[6] = 1024 /\ At[8] = 2048
  BY SMT DEF WriteCalls, At
<1>6. Superblock.kind = "superblock" /\ BlockGroupDescriptor.kind = "descriptor"
  BY SMT DEF Superblock, BlockGroupDescriptor
<1>7. /\ 1024 \in DOMAIN disk /\ disk[1024] = Superblock
      /\ 2048 \in DOMAIN disk /\ disk[2048] = BlockGroupDescriptor
  BY <1>3, <1>5, Writes, SMT
<1>. QED
  BY <1>1, <1>2, <1>3, <1>4, <1>6, <1>7 DEF Readable, Holds

\* Its inodes.
LEMMA ReturnedInodes ==
  ASSUME Inv, end = "returned"
  PROVE  /\ InodesInUse = {2, 11, 12, 13}
         /\ InodeAt(2) = RootInode /\ InodeAt(11) = LostAndFoundInode
         /\ InodeAt(12) = HelloWorldInode /\ InodeAt(13) = HelloInode
         /\ WithBlock = {2, 11, 12}
         /\ Dirs = {2, 11}
<1>1. \A i \in InodesInUse :
        \/ i = 11 /\ InodeAt(i) = LostAndFoundInode
        \/ i = 2 /\ InodeAt(i) = RootInode
        \/ i = 12 /\ InodeAt(i) = HelloWorldInode
        \/ i = 13 /\ InodeAt(i) = HelloInode
  BY ReturnedImage, InodesFound, SMT
<1>2. InodesInUse = {2, 11, 12, 13}
  <2>1. {2, 11, 12, 13} \subseteq InodesInUse
    BY ReturnedImage, InodesThere, SMT
  <2>. QED
    BY <1>1, <2>1
<1>3. /\ InodeAt(2) = RootInode /\ InodeAt(11) = LostAndFoundInode
      /\ InodeAt(12) = HelloWorldInode /\ InodeAt(13) = HelloInode
  BY <1>1, <1>2, SMT
<1>4. WithBlock = {2, 11, 12}
  BY <1>2, <1>3, InodeBlocks, SMT DEF WithBlock
<1>5. /\ RootInode.i_mode = "dir" /\ LostAndFoundInode.i_mode = "dir"
      /\ HelloWorldInode.i_mode = "file" /\ HelloInode.i_mode = "symlink"
  BY SMT DEF LostAndFoundInode, RootInode, HelloWorldInode, HelloInode, Inode
<1>6. Dirs = {2, 11}
  BY <1>2, <1>3, <1>5, SMT DEF Dirs
<1>. QED
  BY <1>2, <1>3, <1>4, <1>6

LEMMA SizeOfPair ==
  \A a, b : a # b => Cardinality({a, b}) = 2
<1>. SUFFICES ASSUME NEW a, NEW b, a # b PROVE Cardinality({a, b}) = 2
  OBVIOUS
<1>1. IsFiniteSet({a}) /\ Cardinality({a}) = 1
  BY FS_Singleton
<1>2. Cardinality({a} \cup {b}) = Cardinality({a}) + 1
  BY <1>1, FS_AddElement
<1>3. {a, b} = {a} \cup {b}
  OBVIOUS
<1>. QED
  BY <1>1, <1>2, <1>3, SMT

LEMMA SizeOfThree ==
  \A a, b, c : a # b /\ a # c /\ b # c => Cardinality({a, b, c}) = 3
<1>. SUFFICES ASSUME NEW a, NEW b, NEW c, a # b, a # c, b # c
              PROVE  Cardinality({a, b, c}) = 3
  OBVIOUS
<1>1. IsFiniteSet({a}) /\ {a, b} = {a} \cup {b}
  BY FS_Singleton
<1>2. IsFiniteSet({a, b}) /\ Cardinality({a, b}) = 2
  BY <1>1, FS_AddElement, SizeOfPair
<1>3. {a, b, c} = {a, b} \cup {c} /\ c \notin {a, b}
  OBVIOUS
<1>. QED
  BY <1>2, <1>3, FS_AddElement, SMT

LEMMA SizeOfInterval ==
  ASSUME NEW m \in Int, NEW n \in Int, m <= n
  PROVE  Cardinality(m..n) = n - m + 1
<1>1. Cardinality(m..n) = IF m > n THEN 0 ELSE n - m + 1
  BY FS_Interval
<1>. QED
  BY <1>1, SMT

\* The sets that are counted.
LEMMA Size23 == \A S : S = 1..23 => Cardinality(S) = 23
<1>1. PICK m \in Int, n \in Int : m = 1 /\ n = 23
  BY SMT
<1>2. m <= n /\ n - m + 1 = 23
  BY <1>1, SMT
<1>3. Cardinality(m..n) = 23
  BY <1>2, SizeOfInterval, SMT
<1>4. ASSUME NEW S, S = 1..23 PROVE Cardinality(S) = 23
  <2>1. S = m..n
    BY <1>1, <1>4, SMT
  <2>. QED
    BY <1>3, <2>1
<1>. QED
  BY <1>4

LEMMA Size1000 == \A S : S = 24..1023 => Cardinality(S) = 1000
<1>1. PICK m \in Int, n \in Int : m = 24 /\ n = 1023
  BY SMT
<1>2. m <= n /\ n - m + 1 = 1000
  BY <1>1, SMT
<1>3. Cardinality(m..n) = 1000
  BY <1>2, SizeOfInterval, SMT
<1>4. ASSUME NEW S, S = 24..1023 PROVE Cardinality(S) = 1000
  <2>1. S = m..n
    BY <1>1, <1>4, SMT
  <2>. QED
    BY <1>3, <2>1
<1>. QED
  BY <1>4

LEMMA Size115 == \A S : S = 14..128 => Cardinality(S) = 115
<1>1. PICK m \in Int, n \in Int : m = 14 /\ n = 128
  BY SMT
<1>2. m <= n /\ n - m + 1 = 115
  BY <1>1, SMT
<1>3. Cardinality(m..n) = 115
  BY <1>2, SizeOfInterval, SMT
<1>4. ASSUME NEW S, S = 14..128 PROVE Cardinality(S) = 115
  <2>1. S = m..n
    BY <1>1, <1>4, SMT
  <2>. QED
    BY <1>3, <2>1
<1>. QED
  BY <1>4

LEMMA SizesOfSmallSets ==
  ASSUME NEW S, NEW T, S = {2, 11}, T = {2, 11, 12}
  PROVE  Cardinality(S) = 2 /\ Cardinality(T) = 3
<1>1. PICK a, b, c : a = 2 /\ b = 11 /\ c = 12
  OBVIOUS
<1>2. a # b /\ a # c /\ b # c
  BY <1>1, SMT
<1>3. Cardinality({a, b}) = 2 /\ Cardinality({a, b, c}) = 3
  BY <1>2, SizeOfPair, SizeOfThree, Zenon
<1>4. S = {a, b} /\ T = {a, b, c}
  BY <1>1, SMT
<1>. QED
  BY <1>3, <1>4

LEMMA ReturnedBlocks ==
  ASSUME Inv, end = "returned"
  PROVE  /\ TableBlocks = 16
         /\ BlocksInUse = 1..23
         /\ \A b \in 1..1023 : BlockMarked(b) <=> b <= 23
         /\ \A i \in 1..128 : InodeMarked(i) <=> i <= 13
<1>1. sb = Superblock /\ gd = BlockGroupDescriptor
  BY ReturnedImage, HeadersFound, SMT
<1>2. TableBlocks = 16
  BY <1>1, Headers, SMT DEF TableBlocks, InodeSize, BlockSize
<1>3. {InodeAt(i).i_block : i \in WithBlock} = {21, 22, 23}
  BY ReturnedInodes, InodeBlocks, SMT
<1>4. BlocksInUse = {1, 2, 3, 4} \cup 5..20 \cup {21, 22, 23}
  BY <1>1, <1>2, <1>3, Headers, SMT DEF BlocksInUse
<1>5. BlocksInUse = 1..23
  BY <1>4, SMT
<1>6. /\ \A n \in Nat : n < 8 * BlockSize =>
           (n \in Marked(gd.block_bitmap) <=> n <= 22 \/ n >= 1023)
      /\ \A n \in Nat : n < 8 * BlockSize =>
           (n \in Marked(gd.inode_bitmap) <=> n <= 12 \/ n >= 128)
  BY ReturnedImage, MarksFound, SMT
<1>7. \A b \in 1..1023 : BlockMarked(b) <=> b <= 23
  BY <1>1, <1>6, Headers, SMT DEF BlockMarked, BlockSize
<1>8. \A i \in 1..128 : InodeMarked(i) <=> i <= 13
  BY <1>6, SMT DEF InodeMarked, BlockSize
<1>. QED
  BY <1>2, <1>5, <1>7, <1>8

\* When main returns, the block bitmap and both free counts agree with what the
\* structures of the image use, and no two of them share a block.
THEOREM BlocksAgree == Spec => []BlocksAccounted
<1>1. Inv => BlocksAccounted
  <2>. SUFFICES ASSUME Inv, end = "returned"
                PROVE  /\ Readable
                       /\ size = sb.blocks_count * BlockSize
                       /\ Cardinality(BlocksInUse) = 4 + TableBlocks + Cardinality(WithBlock)
                       /\ \A b \in 1..(sb.blocks_count - 1) : BlockMarked(b) <=> b \in BlocksInUse
                       /\ (sb.blocks_count - sb.first_data_block)..(8 * BlockSize - 1)
                             \subseteq Marked(gd.block_bitmap)
                       /\ sb.free_blocks_count =
                             Cardinality({b \in 1..(sb.blocks_count - 1) : ~BlockMarked(b)})
                       /\ gd.free_blocks_count = sb.free_blocks_count
    BY DEF BlocksAccounted
  <2>1. sb = Superblock /\ gd = BlockGroupDescriptor
    BY ReturnedImage, HeadersFound, SMT
  <2>2. /\ sb.blocks_count = 1024 /\ sb.first_data_block = 1
        /\ sb.free_blocks_count = 1000 /\ gd.free_blocks_count = 1000
    BY <2>1, Headers
  <2>3. size = sb.blocks_count * BlockSize
    BY <2>2, ReturnedImage, SMT DEF ImageSize, NumBlocks
  <2>4. Cardinality(BlocksInUse) = 23
    BY ReturnedBlocks, Size23, SMT
  <2>5. Cardinality(WithBlock) = 3
    BY ReturnedInodes, SizesOfSmallSets, SMT
  <2>6. \A b \in 1..(sb.blocks_count - 1) : BlockMarked(b) <=> b \in BlocksInUse
    BY <2>2, ReturnedBlocks, SMT
  <2>7. (sb.blocks_count - sb.first_data_block)..(8 * BlockSize - 1)
           \subseteq Marked(gd.block_bitmap)
    <3>1. \A n \in Nat : n < 8 * BlockSize =>
            (n \in Marked(gd.block_bitmap) <=> n <= 22 \/ n >= 1023)
      BY ReturnedImage, MarksFound, SMT
    <3>2. ASSUME NEW n \in (sb.blocks_count - sb.first_data_block)..(8 * BlockSize - 1)
          PROVE  n \in Marked(gd.block_bitmap)
      <4>1. n \in Nat /\ n < 8 * BlockSize /\ n >= 1023
        BY <2>2, SMT DEF BlockSize
      <4>. QED
        BY <3>1, <4>1
    <3>. QED
      BY <3>2
  <2>8. Cardinality({b \in 1..(sb.blocks_count - 1) : ~BlockMarked(b)}) = 1000
    <3>1. {b \in 1..(sb.blocks_count - 1) : ~BlockMarked(b)} = 24..1023
      BY <2>2, ReturnedBlocks, SMT
    <3>. QED
      BY <3>1, Size1000, SMT
  <2>9. Cardinality(BlocksInUse) = 4 + TableBlocks + Cardinality(WithBlock)
    BY <2>4, <2>5, ReturnedBlocks, SMT
  <2>10. Readable
    BY ReturnedImage
  <2>11. sb.free_blocks_count =
            Cardinality({b \in 1..(sb.blocks_count - 1) : ~BlockMarked(b)})
    BY <2>2, <2>8, SMT
  <2>12. gd.free_blocks_count = sb.free_blocks_count
    BY <2>2, SMT
  <2>. QED
    BY <2>3, <2>6, <2>7, <2>9, <2>10, <2>11, <2>12, Zenon
<1>. QED
  BY <1>1, InitInv, StepInv, PTL DEF Spec

\* When main returns, the inode bitmap, the free counts and the count of
\* directories agree with the inode table, and a file has the bytes its inode
\* says it has.
THEOREM InodesAgree == Spec => []InodesAccounted
<1>1. Inv => InodesAccounted
  <2>. SUFFICES ASSUME Inv, end = "returned"
                PROVE  /\ Readable
                       /\ \A i \in 1..sb.inodes_count :
                             InodeMarked(i) <=> i < FirstIno \/ i \in InodesInUse
                       /\ sb.inodes_count..(8 * BlockSize - 1) \subseteq Marked(gd.inode_bitmap)
                       /\ sb.free_inodes_count =
                             Cardinality({i \in 1..sb.inodes_count : ~InodeMarked(i)})
                       /\ gd.free_inodes_count = sb.free_inodes_count
                       /\ gd.used_dirs_count = Cardinality(Dirs)
                       /\ \A i \in WithBlock :
                             /\ InodeAt(i).i_size <= 512 * InodeAt(i).i_blocks
                             /\ InodeAt(i).i_mode = "file" =>
                                   /\ Holds(DirStart(i), "data")
                                   /\ disk[DirStart(i)].len = InodeAt(i).i_size
    BY DEF InodesAccounted
  <2>1. sb = Superblock /\ gd = BlockGroupDescriptor
    BY ReturnedImage, HeadersFound, SMT
  <2>2. /\ sb.inodes_count = 128 /\ sb.free_inodes_count = 115
        /\ gd.free_inodes_count = 115 /\ gd.used_dirs_count = 2
    BY <2>1, Headers
  <2>3. \A i \in 1..sb.inodes_count : InodeMarked(i) <=> i < FirstIno \/ i \in InodesInUse
    BY <2>2, ReturnedBlocks, ReturnedInodes, SMT DEF FirstIno
  <2>4. sb.inodes_count..(8 * BlockSize - 1) \subseteq Marked(gd.inode_bitmap)
    <3>1. \A n \in Nat : n < 8 * BlockSize =>
            (n \in Marked(gd.inode_bitmap) <=> n <= 12 \/ n >= 128)
      BY ReturnedImage, MarksFound, SMT
    <3>2. ASSUME NEW n \in sb.inodes_count..(8 * BlockSize - 1)
          PROVE  n \in Marked(gd.inode_bitmap)
      <4>1. n \in Nat /\ n < 8 * BlockSize /\ n >= 128
        BY <2>2, SMT DEF BlockSize
      <4>. QED
        BY <3>1, <4>1
    <3>. QED
      BY <3>2
  <2>5. Cardinality({i \in 1..sb.inodes_count : ~InodeMarked(i)}) = 115
    <3>1. {i \in 1..sb.inodes_count : ~InodeMarked(i)} = 14..128
      BY <2>2, ReturnedBlocks, SMT
    <3>. QED
      BY <3>1, Size115, SMT
  <2>6. Cardinality(Dirs) = 2
    BY ReturnedInodes, SizesOfSmallSets, SMT
  <2>7. ASSUME NEW i \in WithBlock
        PROVE  /\ InodeAt(i).i_size <= 512 * InodeAt(i).i_blocks
               /\ InodeAt(i).i_mode = "file" =>
                     /\ Holds(DirStart(i), "data")
                     /\ disk[DirStart(i)].len = InodeAt(i).i_size
    <3>1. /\ RootInode.i_size = 1024 /\ RootInode.i_mode = "dir"
          /\ LostAndFoundInode.i_size = 1024 /\ LostAndFoundInode.i_mode = "dir"
          /\ HelloWorldInode.i_size = 12
      BY SMT DEF LostAndFoundInode, RootInode, HelloWorldInode, Inode
    <3>2. CASE i \in {2, 11}
      BY <3>1, <3>2, ReturnedInodes, InodeBlocks, SMT
    <3>3. CASE i = 12
      <4>1. DirStart(12) = 23552
        BY ReturnedInodes, InodeBlocks, SMT DEF DirStart, BlockOffset, BlockSize
      <4>2. 35 \in WriteCalls /\ At[35] = 23552
        BY SMT DEF WriteCalls, At
      <4>3. 23552 \in DOMAIN disk /\ disk[23552] = HelloWorldFile
        BY <4>2, ReturnedImage, Writes, SMT
      <4>4. HelloWorldFile.kind = "data" /\ HelloWorldFile.len = 12
        BY SMT DEF HelloWorldFile
      <4>. QED
        BY <3>1, <3>3, <4>1, <4>3, <4>4, ReturnedInodes, InodeBlocks, SMT DEF Holds
    <3>. QED
      BY <3>2, <3>3, ReturnedInodes
  <2>. QED
    BY <2>2, <2>3, <2>4, <2>5, <2>6, <2>7, ReturnedImage
<1>. QED
  BY <1>1, InitInv, StepInv, PTL DEF Spec

\* Its directories: where the entries begin, and those that have an inode.
RootEntries == {21504, 21516, 21528, 21548, 21568, 21584}
LostAndFoundEntries == {22528, 22540, 22552}

LEMMA ReturnedEntries ==
  ASSUME Inv, end = "returned"
  PROVE  /\ disk[21504] = Entry(2, ".", 1)
         /\ disk[21516] = Entry(2, "..", 2)
         /\ disk[21528] = Entry(11, "lost+found", 10)
         /\ disk[21548] = Entry(12, "hello-world", 11)
         /\ disk[21568] = Entry(13, "hello", 5)
         /\ disk[21584] = Fill(944)
         /\ disk[22528] = Entry(11, ".", 1)
         /\ disk[22540] = Entry(2, "..", 2)
         /\ disk[22552] = Fill(1000)
         /\ DirStart(2) = 21504 /\ DirEnd(2) = 22528
         /\ DirStart(11) = 22528 /\ DirEnd(11) = 23552
         /\ EntriesOf(2) = RootEntries
         /\ EntriesOf(11) = LostAndFoundEntries
<1>1. /\ At[24] = 21504 /\ At[25] = 21516 /\ At[26] = 21528 /\ At[27] = 21548
      /\ At[28] = 21568 /\ At[29] = 21584
      /\ At[31] = 22528 /\ At[32] = 22540 /\ At[33] = 22552
  BY SMT DEF At
<1>2. \A j \in EntryCalls : j \in WriteCalls
  BY SMT DEF EntryCalls, WriteCalls
<1>3. \A j \in EntryCalls : At[j] \in DOMAIN disk /\ disk[At[j]] = Script[j].obj
  BY <1>2, ReturnedImage
<1>4. /\ disk[21504] = Script[24].obj /\ disk[21516] = Script[25].obj
      /\ disk[21528] = Script[26].obj /\ disk[21548] = Script[27].obj
      /\ disk[21568] = Script[28].obj /\ disk[21584] = Script[29].obj
      /\ disk[22528] = Script[31].obj /\ disk[22540] = Script[32].obj
      /\ disk[22552] = Script[33].obj
  BY <1>1, <1>3, SMT DEF EntryCalls
<1>5. /\ disk[21504] = Entry(2, ".", 1)
      /\ disk[21516] = Entry(2, "..", 2)
      /\ disk[21528] = Entry(11, "lost+found", 10)
      /\ disk[21548] = Entry(12, "hello-world", 11)
      /\ disk[21568] = Entry(13, "hello", 5)
      /\ disk[21584] = Fill(944)
      /\ disk[22528] = Entry(11, ".", 1)
      /\ disk[22540] = Entry(2, "..", 2)
      /\ disk[22552] = Fill(1000)
  BY <1>4, Writes, SMT DEF RootIno, LostAndFoundIno, HelloWorldIno, HelloIno
<1>6. RootInode.i_size = 1024 /\ LostAndFoundInode.i_size = 1024
  BY SMT DEF RootInode, LostAndFoundInode, Inode
<1>7. /\ DirStart(2) = 21504 /\ DirEnd(2) = 22528
      /\ DirStart(11) = 22528 /\ DirEnd(11) = 23552
  BY <1>6, ReturnedInodes, InodeBlocks, SMT DEF DirStart, DirEnd, BlockOffset, BlockSize
<1>8. \A o \in DOMAIN disk :
        disk[o].kind = "entry" <=> \E j \in EntryCalls : o = At[j]
  <2>1. ASSUME NEW o \in DOMAIN disk, disk[o].kind = "entry"
        PROVE  \E j \in EntryCalls : o = At[j]
    <3>1. PICK j \in WriteCalls : o = At[j] /\ disk[o] = Script[j].obj
      BY ReturnedImage
    <3>. QED
      BY <2>1, <3>1, ObjectKinds
  <2>2. ASSUME NEW j \in EntryCalls
        PROVE  disk[At[j]].kind = "entry"
    BY <1>2, <1>3, ObjectKinds
  <2>. QED
    BY <2>1, <2>2
<1>9. \A o : o \in DOMAIN disk /\ disk[o].kind = "entry"
               <=> o \in RootEntries \/ o \in LostAndFoundEntries
  BY <1>1, <1>3, <1>8, SMT DEF EntryCalls, RootEntries, LostAndFoundEntries
<1>10. EntriesOf(2) = RootEntries
  BY <1>7, <1>9, SMT DEF EntriesOf, RootEntries, LostAndFoundEntries
<1>11. EntriesOf(11) = LostAndFoundEntries
  BY <1>7, <1>9, SMT DEF EntriesOf, RootEntries, LostAndFoundEntries
<1>. QED
  BY <1>5, <1>7, <1>10, <1>11

LEMMA EntryFields ==
  /\ \A inode, name, n :
       /\ Entry(inode, name, n).inode = inode /\ Entry(inode, name, n).name = name
       /\ Entry(inode, name, n).name_len = n /\ Entry(inode, name, n).size = RecLen(n)
  /\ \A n : Fill(n).inode = 0 /\ Fill(n).name_len = 0 /\ Fill(n).size = n
BY SMT DEF Entry, Fill

LEMMA ReturnedNames ==
  ASSUME Inv, end = "returned"
  PROVE  /\ Names(2) = RootEntries \ {21584}
         /\ Names(11) = LostAndFoundEntries \ {22552}
<1>1. Names(2) = RootEntries \ {21584}
  BY ReturnedEntries, EntryFields, SMT DEF Names, RootEntries
<1>2. Names(11) = LostAndFoundEntries \ {22552}
  BY ReturnedEntries, EntryFields, SMT DEF Names, LostAndFoundEntries
<1>. QED
  BY <1>1, <1>2

\* When main returns, the entries of each directory fill its block one behind
\* the other, on multiples of four and with room for their names; "." is the
\* directory itself and ".." the directory that has an entry for it.
THEOREM DirectoriesAgree == Spec => []DirectoriesConnect
<1>1. Inv => DirectoriesConnect
  <2>. SUFFICES ASSUME Inv, end = "returned"
                PROVE  /\ Readable
                       /\ RootIno \in Dirs
                       /\ \A d \in Dirs :
                            /\ DirStart(d) \in EntriesOf(d)
                            /\ \A o \in EntriesOf(d) :
                                  /\ o + disk[o].size \in EntriesOf(d) \cup {DirEnd(d)}
                                  /\ o % 4 = 0
                                  /\ disk[o].size >= 8 + disk[o].name_len
                            /\ \E o \in Names(d) : disk[o].name = "." /\ disk[o].inode = d
                            /\ \E o \in Names(d) :
                                  /\ disk[o].name = ".."
                                  /\ disk[o].inode \in Dirs
                                  /\ \E q \in Names(disk[o].inode) : disk[q].inode = d
    BY DEF DirectoriesConnect
  <2>1. Readable /\ RootIno \in Dirs /\ Dirs = {2, 11}
    BY ReturnedImage, ReturnedInodes, SMT DEF RootIno
  <2>2. \A o \in RootEntries :
          /\ o + disk[o].size \in RootEntries \cup {22528}
          /\ o % 4 = 0
          /\ disk[o].size >= 8 + disk[o].name_len
    BY ReturnedEntries, EntryFields, EntryLengths, SMT DEF RootEntries
  <2>3. \A o \in LostAndFoundEntries :
          /\ o + disk[o].size \in LostAndFoundEntries \cup {23552}
          /\ o % 4 = 0
          /\ disk[o].size >= 8 + disk[o].name_len
    BY ReturnedEntries, EntryFields, EntryLengths, SMT DEF LostAndFoundEntries
  <2>4. /\ 21504 \in Names(2) /\ 21516 \in Names(2) /\ 21528 \in Names(2)
        /\ 22528 \in Names(11) /\ 22540 \in Names(11)
    BY ReturnedNames, SMT DEF RootEntries, LostAndFoundEntries
  <2>5. /\ disk[21504].name = "." /\ disk[21504].inode = 2
        /\ disk[21516].name = ".." /\ disk[21516].inode = 2
        /\ disk[21528].inode = 11
        /\ disk[22528].name = "." /\ disk[22528].inode = 11
        /\ disk[22540].name = ".." /\ disk[22540].inode = 2
    BY ReturnedEntries, EntryFields, SMT
  <2>6. ASSUME NEW d \in Dirs
        PROVE  /\ DirStart(d) \in EntriesOf(d)
               /\ \A o \in EntriesOf(d) :
                     /\ o + disk[o].size \in EntriesOf(d) \cup {DirEnd(d)}
                     /\ o % 4 = 0
                     /\ disk[o].size >= 8 + disk[o].name_len
    <3>1. CASE d = 2
      BY <3>1, <2>2, ReturnedEntries, SMT DEF RootEntries
    <3>2. CASE d = 11
      BY <3>2, <2>3, ReturnedEntries, SMT DEF LostAndFoundEntries
    <3>. QED
      BY <3>1, <3>2, <2>1
  <2>7. ASSUME NEW d \in Dirs
        PROVE  /\ \E o \in Names(d) : disk[o].name = "." /\ disk[o].inode = d
               /\ \E o \in Names(d) :
                     /\ disk[o].name = ".."
                     /\ disk[o].inode \in Dirs
                     /\ \E q \in Names(disk[o].inode) : disk[q].inode = d
    <3>1. CASE d = 2
      BY <3>1, <2>1, <2>4, <2>5
    <3>2. CASE d = 11
      BY <3>2, <2>1, <2>4, <2>5
    <3>. QED
      BY <3>1, <3>2, <2>1
  <2>. QED
    BY <2>1, <2>6, <2>7
<1>. QED
  BY <1>1, InitInv, StepInv, PTL DEF Spec

\* When main returns, i_links_count of each inode is the number of entries
\* that name it, also where the image was one that had more files.
THEOREM LinksAgree == Spec => []LinksCounted
<1>1. Inv => LinksCounted
  <2>. SUFFICES ASSUME Inv, end = "returned"
                PROVE  /\ Readable
                       /\ \A i \in InodesInUse :
                             InodeAt(i).i_links_count = Cardinality(Links(i))
    BY DEF LinksCounted
  <2>1. \A i, o : o \in Links(i) <=> (o \in Names(2) \/ o \in Names(11)) /\ disk[o].inode = i
    BY ReturnedInodes DEF Links
  <2>2. /\ disk[21504].inode = 2 /\ disk[21516].inode = 2 /\ disk[21528].inode = 11
        /\ disk[21548].inode = 12 /\ disk[21568].inode = 13
        /\ disk[22528].inode = 11 /\ disk[22540].inode = 2
    BY ReturnedEntries, EntryFields, SMT
  <2>3. \A o : o \in Names(2) \/ o \in Names(11)
                 <=> o \in {21504, 21516, 21528, 21548, 21568, 22528, 22540}
    BY ReturnedNames, SMT DEF RootEntries, LostAndFoundEntries
  <2>4. PICK a, b, c : a = 21504 /\ b = 21516 /\ c = 22540
    OBVIOUS
  <2>5. PICK e, f, g, h : e = 21528 /\ f = 22528 /\ g = 21548 /\ h = 21568
    OBVIOUS
  <2>6. Links(2) = {a, b, c}
    BY <2>1, <2>2, <2>3, <2>4, SMT
  <2>7. Links(11) = {e, f}
    BY <2>1, <2>2, <2>3, <2>5, SMT
  <2>8. Links(12) = {g} /\ Links(13) = {h}
    BY <2>1, <2>2, <2>3, <2>5, SMT
  <2>9. a # b /\ a # c /\ b # c /\ e # f
    BY <2>4, <2>5, SMT
  <2>10. /\ Cardinality({a, b, c}) = 3 /\ Cardinality({e, f}) = 2
         /\ Cardinality({g}) = 1 /\ Cardinality({h}) = 1
    BY <2>9, SizeOfPair, SizeOfThree, FS_Singleton, Zenon
  <2>11. /\ Cardinality(Links(2)) = 3 /\ Cardinality(Links(11)) = 2
         /\ Cardinality(Links(12)) = 1 /\ Cardinality(Links(13)) = 1
    BY <2>6, <2>7, <2>8, <2>10, Zenon
  <2>12. /\ RootInode.i_links_count = 3 /\ LostAndFoundInode.i_links_count = 2
         /\ HelloWorldInode.i_links_count = 1 /\ HelloInode.i_links_count = 1
    BY SMT DEF RootInode, LostAndFoundInode, HelloWorldInode, HelloInode, Inode
  <2>13. \A i \in InodesInUse : InodeAt(i).i_links_count = Cardinality(Links(i))
    BY <2>11, <2>12, ReturnedInodes, SMT
  <2>. QED
    BY <2>13, ReturnedImage
<1>. QED
  BY <1>1, InitInv, StepInv, PTL DEF Spec
=============================================================================
