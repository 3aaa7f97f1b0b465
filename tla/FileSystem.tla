----------------------------- MODULE FileSystem -----------------------------
(***************************************************************************)
(* The part of a POSIX file system that ccache relies on, as operators on  *)
(* a set of inodes.  An inode is a record: the names by which it can be    *)
(* reached and its data.  A hard link is a second name of one inode, an    *)
(* open descriptor is one name more, which is how a file that was unlinked *)
(* while open stays readable.  Every operator is one atomic system call.   *)
(***************************************************************************)

\* open(2) finds the file, stat(2) succeeds
Has(fs, n) == \E f \in fs : n \in f.names

\* read(2) of the whole file; only meant for a name that exists
Data(fs, n) == (CHOOSE f \in fs : n \in f.names).data

\* unlink(2) and close(2): the names leave, an inode without a name is gone.
\* Names that do not exist (ENOENT) are ignored, as ccache does everywhere.
Remove(fs, ns) ==
    {f \in {[g EXCEPT !.names = @ \ ns] : g \in fs} : f.names # {}}

\* link(2) and open(2): b becomes one more name of a's inode
Link(fs, a, b) ==
    {IF a \in f.names THEN [f EXCEPT !.names = @ \cup {b}] ELSE f : f \in fs}

\* open(2) with O_CREAT | O_EXCL on a name that is not there, then write(2)
Create(fs, n, d) == fs \cup {[names |-> {n}, data |-> d]}

\* rename(2) of an existing a onto b
Rename(fs, a, b) == Remove(Link(Remove(fs, {b}), a, b), {a})
=============================================================================
