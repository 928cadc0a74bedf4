----------------------------- MODULE TmpfsTree -----------------------------
(***************************************************************************)
(* Directories and inodes of kernel/fs/tmpfs.c: tmpfs_mount,               *)
(* tmpfs_create, tmpfs_lookup, tmpfs_readdir and tmpfs_destroy.            *)
(*                                                                         *)
(* An inode is a position in inodes, the root is the first.  A directory   *)
(* holds its entries in the order of the linked list.  Callers pass        *)
(* directories where the functions cast to tmpfs_idir.                     *)
(***************************************************************************)
EXTENDS Integers, Sequences, FiniteSets

CONSTANTS
    Names,      \* the names callers use
    MaxInodes,  \* bound: inodes of a mounted file system
    MaxMounts,  \* bound: how often a file system is mounted
    NlinkMod    \* nlink_t counts modulo this, 2^16 in the code

ASSUME MaxInodesAssumption == MaxInodes \in Nat \ {0} /\ MaxMounts \in Nat
ASSUME NlinkModAssumption == NlinkMod \in Nat \ {0}

VARIABLES
    inodes,     \* the inodes of the mounted file system; <<>> if there is none
    mounts,     \* history: how often a file system was mounted
    names       \* what the last tmpfs_readdir returned

vars == <<inodes, mounts, names>>

NULL == 0
Root == 1
Types == {"reg", "dir", "chr", "blk"}

Inode(type) == [type |-> type, nlink |-> 0, first |-> <<>>]

Dirs == {d \in 1..Len(inodes) : inodes[d].type = "dir" \/ d = Root}
-----------------------------------------------------------------------------
\* Mutant: the link count is not incremented.
add_to_dirUncounted(is, dir, name, ino) ==
    [is EXCEPT ![dir].first = Append(@, [name |-> name, ino |-> ino])]

\* Mutant: the new entry replaces the last one of the list.
add_to_dirReplaces(is, dir, name, ino) ==
    LET entries == is[dir].first
        kept    == IF Len(entries) < 3 THEN entries
                   ELSE SubSeq(entries, 1, Len(entries) - 1)
    IN  [is EXCEPT ![ino].nlink = (@ + 1) % NlinkMod,
                   ![dir].first = Append(kept, [name |-> name, ino |-> ino])]

add_to_dir(is, dir, name, ino) ==
    LET counted == [is EXCEPT ![ino].nlink = (@ + 1) % NlinkMod]
    IN  [counted EXCEPT ![dir].first = Append(@, [name |-> name, ino |-> ino])]

\* Mutant: the last entry of the list is not compared.
tmpfs_lookupSkipsLast(dir, name) ==
    LET entries == inodes[dir].first
        hits    == {k \in 1..(Len(entries) - 1) : entries[k].name = name}
    IN  IF hits = {} THEN NULL
        ELSE entries[CHOOSE k \in hits : \A l \in hits : k <= l].ino

\* The inode of the first entry with that name.
tmpfs_lookup(dir, name) ==
    LET entries == inodes[dir].first
        hits    == {k \in 1..Len(entries) : entries[k].name = name}
    IN  IF hits = {} THEN NULL
        ELSE entries[CHOOSE k \in hits : \A l \in hits : k <= l].ino

\* The mode of the root has the permission bits only, and so no type.
tmpfs_mount ==
    /\ inodes = <<>>
    /\ mounts < MaxMounts
    /\ inodes' = <<Inode("unknown")>>
    /\ mounts' = mounts + 1
    /\ UNCHANGED names

\* Mutant: the parent of a new directory is the directory itself.
NewDirectoryOrphan(dir, new) ==
    add_to_dir(add_to_dir(Append(inodes, Inode("dir")), new, ".", new), new, "..", new)

NewDirectory(dir, new) ==
    add_to_dir(add_to_dir(Append(inodes, Inode("dir")), new, ".", new), new, "..", dir)

\* Mutant: a new directory is not added to the one it was created in.
tmpfs_createUnlinked(dir, name, type) ==
    LET new   == Len(inodes) + 1
        after == IF type = "dir" THEN NewDirectory(dir, new)
                 ELSE add_to_dir(Append(inodes, Inode(type)), dir, name, new)
    IN  /\ new <= MaxInodes
        /\ IF tmpfs_lookup(dir, name) # NULL \/ type \notin Types
           THEN UNCHANGED inodes
           ELSE inodes' = after
        /\ UNCHANGED <<mounts, names>>

\* tmpfs_create returns -EEXIST if there is such an entry, and -EPERM for
\* any other type.
tmpfs_create(dir, name, type) ==
    LET new   == Len(inodes) + 1
        after == IF type = "dir" THEN NewDirectory(dir, new)
                 ELSE Append(inodes, Inode(type))
    IN  /\ new <= MaxInodes
        /\ IF tmpfs_lookup(dir, name) # NULL \/ type \notin Types
           THEN UNCHANGED inodes
           ELSE inodes' = add_to_dir(after, dir, name, new)
        /\ UNCHANGED <<mounts, names>>

\* The first n entries of the list, or all if there are fewer.
tmpfs_readdir(dir, n) ==
    LET entries == inodes[dir].first
        count   == IF Len(entries) < n THEN Len(entries) ELSE n
    IN  /\ names' = [k \in 1..count |-> entries[k].name]
        /\ UNCHANGED <<inodes, mounts>>

\* Only the root and the instance are freed: whatever else the file system
\* contains can no longer be reached.
tmpfs_destroy ==
    /\ inodes # <<>>
    /\ inodes' = <<>>
    /\ UNCHANGED <<mounts, names>>
-----------------------------------------------------------------------------
Init == inodes = <<>> /\ mounts = 0 /\ names = <<>>

Next ==
    \/ tmpfs_mount
    \/ \E dir \in Dirs, name \in Names, type \in Types \cup {"fifo"} :
           tmpfs_create(dir, name, type)
    \/ \E dir \in Dirs, n \in 0..3 : tmpfs_readdir(dir, n)
    \/ tmpfs_destroy

Spec == Init /\ [][Next]_vars
-----------------------------------------------------------------------------
(***************************************************************************)
(* Properties.                                                             *)
(***************************************************************************)

\* Type invariant.
TypeOK ==
    /\ Len(inodes) <= MaxInodes
    /\ \A i \in 1..Len(inodes) :
           /\ inodes[i].type \in Types \cup {"unknown"}
           /\ inodes[i].nlink \in 0..(NlinkMod - 1)
           /\ \A k \in 1..Len(inodes[i].first) :
                  inodes[i].first[k].ino \in 1..Len(inodes)
    /\ mounts \in 0..MaxMounts

\* The entries that refer to ino, by directory and position.
Links(is, ino) ==
    UNION {{<<d, k>> : k \in {j \in 1..Len(is[d].first) : is[d].first[j].ino = ino}} :
              d \in 1..Len(is)}

\* Every entry refers to an inode, and the link count of an inode is, modulo
\* NlinkMod, the number of entries that refer to it, the "." of a directory and
\* the ".." of its subdirectories included.
NlinkCountsEntries ==
    /\ TypeOK
    /\ \A ino \in 1..Len(inodes) :
           inodes[ino].nlink = Cardinality(Links(inodes, ino)) % NlinkMod

\* No directory has two entries of one name, and no listing shows one twice:
\* what a lookup finds does not depend on the order of the entries.
NamesUnique ==
    /\ \A d \in Dirs : \A k, l \in 1..Len(inodes[d].first) :
           inodes[d].first[k].name = inodes[d].first[l].name => k = l
    /\ \A k, l \in 1..Len(names) : names[k] = names[l] => k = l

\* The entries that refer to d under a name a caller gave.  The root has no
\* "." and ".." of its own, so that these are names like any other there.
NamedEntries(d) ==
    {link \in Links(inodes, d) :
        link[1] = Root \/ inodes[link[1]].first[link[2]].name \notin {".", ".."}}

\* The directories form a tree: apart from the root, each has exactly one
\* entry with a name of its own, which is in the directory its ".." leads to,
\* and was created after that one, so that going up always ends at the root.
\* tmpfs_create has to add three entries to two lists for that.
DirectoriesFormTree ==
    \A d \in Dirs \ {Root} :
        LET parent == tmpfs_lookup(d, "..")
        IN  /\ tmpfs_lookup(d, ".") = d
            /\ parent \in Dirs /\ parent < d
            /\ \E k \in 1..Len(inodes[parent].first) : NamedEntries(d) = {<<parent, k>>}

\* As long as the file system is mounted, a name that was found stays and
\* leads to the same inode, and entries keep their order.
EntriesKept ==
    [][(inodes # <<>> /\ inodes' # <<>>) =>
          \A d \in Dirs : \A k \in 1..Len(inodes[d].first) :
              /\ k <= Len(inodes'[d].first)
              /\ inodes'[d].first[k] = inodes[d].first[k]]_vars
=============================================================================
