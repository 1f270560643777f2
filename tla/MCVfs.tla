-------------------------------- MODULE MCVfs --------------------------------
(***************************************************************************)
(* Small disk images for TLC: blocks of 3 bytes, 2 direct blocks, so that  *)
(* a file has a hole, ends inside a block, or outgrows its direct blocks.  *)
(***************************************************************************)
EXTENDS Vfs, TLC

File(size, b0, b1) == [i_size |-> size, i_block |-> (0 :> b0 @@ 1 :> b1)]

Entry(ino, len, name) == [inode |-> ino, rec_len |-> len, name |-> name]

Bytes == [b \in 1..4 |-> [j \in 0..2 |-> 3 * b + j]]

Image(a, b, dirent) ==
  [inode |-> (2 :> File(3, 4, 0) @@ 11 :> a @@ 12 :> b), block |-> Bytes, dirent |-> dirent]

MCImages == {
  \* a hole in the first block; a file longer than its direct blocks
  Image(File(4, 0, 1), File(7, 2, 3), <<Entry(11, 1, <<"a">>), Entry(12, 2, <<"b">>)>>),
  \* a deleted entry before the live one; the other in the second directory block
  Image(File(6, 1, 2), File(2, 3, 0),
        <<Entry(0, 1, <<"a">>), Entry(11, 2, <<"a">>), Entry(12, 1, <<"b">>)>>),
  \* a corrupt record length ends the scan
  Image(File(6, 1, 2), File(2, 3, 0), <<Entry(12, 1, <<"b">>), Entry(11, 0, <<"a">>)>>) }

MCPaths == {<<"/", "a">>, <<"b">>}
=============================================================================
