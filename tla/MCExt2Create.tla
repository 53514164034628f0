---------------------------- MODULE MCExt2Create ----------------------------
(* hello.img is not there, or is a finished image that was mounted and     *)
(* given one more file: inode 14, in block 24, with an entry in lost+found.*)
EXTENDS Ext2Create, SequencesExt

\* What the calls of the script leave, as a record with the file and the offset.
Finished ==
    FoldLeft(LAMBDA f, c :
               CASE c.call = "lseek" -> [f EXCEPT !.off = c.to]
                 [] c.call = "write" ->
                      [disk |-> Put(f.disk, f.off, c.obj), off |-> f.off + c.obj.size]
                 [] OTHER -> f,
             [disk |-> <<>>, off |-> 0], Script).disk

NewIno == LastIno + 1
NewBlock == LastBlock + 1
Put3(d, n1, o1, n2, o2, n3, o3) == Put(Put(Put(d, n1, o1), n2, o2), n3, o3)
Marking(d, block, bit) ==
    [d EXCEPT ![BlockOffset(block)].bits = @ \cup {bit}]

Used ==
    Put3(Marking(Marking(Finished, BlockBitmapBlock, NewBlock - 1),
                 InodeBitmapBlock, NewIno - 1),
         BlockOffset(InodeTableBlock) + (NewIno - 1) * InodeSize,
         Inode("file", 12, 1, 2, NewBlock),
         BlockOffset(LostAndFoundDirBlock) + 24,
         [Entry(NewIno, "more", 4) EXCEPT !.size = 1000, !.len = 1000],
         BlockOffset(NewBlock), HelloWorldFile)

MCOldFiles == {<<>>, Used}
=============================================================================
