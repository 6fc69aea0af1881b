----------------------------- MODULE MCFileData -----------------------------
(* Instances of FileData for TLC. *)
EXTENDS FileData

\* What the calls write.
Writes == {<<2, 1, 2, 2, 1>>, <<1, 1, 2, 1, 2>>}

Perms == Permutations(Proc) \cup Permutations(Inode) \cup Permutations(File)

\* What the next steps depend on: not the words of free blocks, not the last results.
Live == <<bitmap, [b \in bitmap |-> blk[b]], size, addrs, ip, off, todo, panicked>>
=============================================================================
