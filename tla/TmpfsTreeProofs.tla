-------------------------- MODULE TmpfsTreeProofs --------------------------
(***************************************************************************)
(* Proofs about TmpfsTree, for every set of names, every number of inodes  *)
(* and mounts, and every width of the link count.                          *)
(*                                                                         *)
(* DirectoriesFormTree is not inductive: it says nothing of the entries    *)
(* with which a directory starts, nor that every other entry leads to an   *)
(* inode that was created later.  Shape does, and Linked counts the entry  *)
(* with which each inode was created.  NamesUnique needs that no           *)
(* entry refers to the null pointer, for tmpfs_create takes a lookup that  *)
(* returns it as a sign that the name is free.                             *)
(***************************************************************************)
EXTENDS TmpfsTree, FiniteSetTheorems, SequenceTheorems, TLAPS

AllNames == Names \cup {".", ".."}
Entry == [name : AllNames, ino : Nat \ {0}]
InodeRecord == [type : Types \cup {"unknown"}, nlink : 0..(NlinkMod - 1), first : Seq(Entry)]

\* Entries lead to inodes of the file system.
Closed(is) == \A i \in 1..Len(is) : \A k \in 1..Len(is[i].first) : is[i].first[k].ino <= Len(is)

Unique(is) ==
    \A i \in 1..Len(is) : \A k, l \in 1..Len(is[i].first) :
        is[i].first[k].name = is[i].first[l].name => k = l

Counted(is) ==
    \A i \in 1..Len(is) :
        /\ IsFiniteSet(Links(is, i))
        /\ is[i].nlink = Cardinality(Links(is, i)) % NlinkMod

Directory(is, i) == i = Root \/ is[i].type = "dir"

\* Is position k of i one of the two entries of a directory for itself and for
\* its parent?
Dot(is, i, k) == i # Root /\ k <= 2

\* Directories other than the root start with "." and "..", which leads to an
\* older directory; all other entries lead to younger inodes, and if that is
\* a directory, its ".." leads back.  Other inodes have no entries.
Shape(is) ==
    \A i \in 1..Len(is) :
        /\ Directory(is, i) \/ is[i].first = <<>>
        /\ Directory(is, i) /\ i # Root =>
               /\ Len(is[i].first) >= 2
               /\ is[i].first[1] = [name |-> ".", ino |-> i]
               /\ is[i].first[2].name = ".."
               /\ is[i].first[2].ino < i
               /\ Directory(is, is[i].first[2].ino)
        /\ \A k \in 1..Len(is[i].first) : ~Dot(is, i, k) =>
               LET j == is[i].first[k].ino
               IN  i < j /\ (is[j].type = "dir" => is[j].first[2].ino = i)

\* But for these, every inode other than the root has exactly one entry.
\* In the inodes is, the one of d is at position k of directory e.
OnlyEntry(is, d, e, k) ==
    /\ k \in 1..Len(is[e].first) /\ ~Dot(is, e, k) /\ is[e].first[k].ino = d
    /\ \A f \in 1..Len(is) : \A l \in 1..Len(is[f].first) :
           ~Dot(is, f, l) /\ is[f].first[l].ino = d => f = e /\ l = k

Linked(is) ==
    \A d \in 1..Len(is) : d # Root => \E e \in 1..Len(is), k \in Nat : OnlyEntry(is, d, e, k)

IInv ==
    /\ inodes \in Seq(InodeRecord) /\ Len(inodes) <= MaxInodes
    /\ mounts \in 0..MaxMounts
    /\ Closed(inodes) /\ Unique(inodes) /\ Counted(inodes)
    /\ Shape(inodes) /\ Linked(inodes)
    /\ \A k, l \in 1..Len(names) : names[k] = names[l] => k = l
-----------------------------------------------------------------------------
(***************************************************************************)
(* What the operations do to each inode.                                   *)
(***************************************************************************)

\* The types of the fields of inodes and entries.
LEMMA FieldTypes ==
    ASSUME NEW is \in Seq(InodeRecord)
    PROVE  /\ Len(is) \in Nat
           /\ \A i \in 1..Len(is) : is[i].type \in Types \cup {"unknown"}
           /\ \A i \in 1..Len(is) : is[i].nlink \in 0..(NlinkMod - 1)
           /\ \A i \in 1..Len(is) : is[i].first \in Seq(Entry)
           /\ \A i \in 1..Len(is) : \A k \in 1..Len(is[i].first) : is[i].first[k] \in Entry
           /\ \A i \in 1..Len(is) : \A k \in 1..Len(is[i].first) : is[i].first[k].ino \in Nat \ {0}
<1>1. \A i \in 1..Len(is) : is[i] \in InodeRecord
  OBVIOUS
<1>2. \A i \in 1..Len(is) : /\ is[i].type \in Types \cup {"unknown"}
                             /\ is[i].nlink \in 0..(NlinkMod - 1)
                             /\ is[i].first \in Seq(Entry)
  BY <1>1 DEF InodeRecord
<1>3. \A i \in 1..Len(is) : \A k \in 1..Len(is[i].first) : is[i].first[k] \in Entry
  BY <1>2, ElementOfSeq
<1>4. \A e \in Entry : e.ino \in Nat \ {0}
  BY DEF Entry
<1> QED
  BY <1>2, <1>3, <1>4

\* A new inode has no entries and no links.
LEMMA InodeType ==
    ASSUME NEW type \in Types \cup {"unknown"}
    PROVE  /\ Inode(type) \in InodeRecord
           /\ Inode(type).type = type /\ Inode(type).nlink = 0 /\ Inode(type).first = <<>>
<1>1. 0 \in 0..(NlinkMod - 1)
  BY NlinkModAssumption
<1>2. <<>> \in Seq(Entry)
  OBVIOUS
<1> QED
  BY <1>1, <1>2 DEF Inode, InodeRecord

\* x + 1 as an nlink_t.
CountUp(x) == (x + 1) % NlinkMod

\* s is is with one more link of ino counted and dir's list extended by one
\* entry; nothing else changes.
IsAdded(s, is, dir, name, ino) ==
    /\ s \in Seq(InodeRecord) /\ Len(s) = Len(is)
    /\ \A i \in 1..Len(is) : s[i].type = is[i].type
    /\ \A i \in 1..Len(is) : s[i].nlink = IF i = ino THEN CountUp(is[i].nlink) ELSE is[i].nlink
    /\ \A i \in 1..Len(is) :
           s[i].first = IF i = dir THEN Append(is[i].first, [name |-> name, ino |-> ino])
                        ELSE is[i].first

\* This is what add_to_dir does.
LEMMA AddFields ==
    ASSUME NEW is \in Seq(InodeRecord), NEW dir \in 1..Len(is), NEW ino \in 1..Len(is),
           NEW name \in AllNames
    PROVE  IsAdded(add_to_dir(is, dir, name, ino), is, dir, name, ino)
<1> DEFINE c == [is EXCEPT ![ino].nlink = (@ + 1) % NlinkMod]
           e == [name |-> name, ino |-> ino]
           s == add_to_dir(is, dir, name, ino)
           D == 1..Len(is)
<1>1. /\ DOMAIN is = D
      /\ \A i \in D : is[i] \in InodeRecord
  OBVIOUS
<1>2. \A i \in D : /\ is[i].type \in Types \cup {"unknown"} /\ is[i].nlink \in 0..(NlinkMod - 1)
                    /\ is[i].first \in Seq(Entry)
  BY <1>1 DEF InodeRecord
<1>3. /\ DOMAIN c = D
      /\ c[ino] = [type |-> is[ino].type, nlink |-> (is[ino].nlink + 1) % NlinkMod,
                   first |-> is[ino].first]
      /\ \A i \in D \ {ino} : c[i] = is[i]
  BY <1>1 DEF InodeRecord
<1>4. s = [c EXCEPT ![dir] = [c[dir] EXCEPT !.first = Append(@, e)]]
  BY DEF add_to_dir
<1>5. e \in Entry
  BY DEF Entry
<1>6. (is[ino].nlink + 1) % NlinkMod \in 0..(NlinkMod - 1)
  BY <1>2, NlinkModAssumption
<1> HIDE DEF c, e, s, D
<1>7. \A i \in D : c[i] \in InodeRecord
  <2>1. c[ino] \in InodeRecord
    BY <1>2, <1>3, <1>6 DEF InodeRecord, D
  <2> QED
    BY <1>1, <1>3, <2>1
<1>8. /\ \A i \in D : c[i].type = is[i].type
      /\ \A i \in D : c[i].first = is[i].first
      /\ \A i \in D : c[i].nlink = IF i = ino THEN CountUp(is[i].nlink) ELSE is[i].nlink
  BY <1>3 DEF CountUp
<1>9. dir \in D
  BY DEF D
<1>10. c[dir].first \in Seq(Entry)
  BY <1>2, <1>8, <1>9
<1>11. /\ DOMAIN s = D
       /\ s[dir] = [type |-> c[dir].type, nlink |-> c[dir].nlink, first |-> Append(c[dir].first, e)]
       /\ \A i \in D \ {dir} : s[i] = c[i]
  BY <1>3, <1>4, <1>7, <1>9 DEF InodeRecord
<1>12. s[dir] \in InodeRecord
  <2>1. Append(c[dir].first, e) \in Seq(Entry)
    BY <1>5, <1>10, AppendProperties
  <2>2. c[dir].type \in Types \cup {"unknown"} /\ c[dir].nlink \in 0..(NlinkMod - 1)
    BY <1>7, <1>9 DEF InodeRecord
  <2> QED
    BY <1>11, <2>1, <2>2 DEF InodeRecord
<1>13. \A i \in D : s[i] \in InodeRecord
  BY <1>7, <1>11, <1>12
<1>14. s \in Seq(InodeRecord) /\ Len(s) = Len(is)
  <2>1. Len(is) \in Nat
    OBVIOUS
  <2>2. s = [i \in 1..Len(is) |-> s[i]]
    BY <1>4, <1>11, <1>3 DEF D
  <2>3. [i \in 1..Len(is) |-> s[i]] \in [1..Len(is) -> InodeRecord]
    BY <1>13 DEF D
  <2>4. s \in [1..Len(is) -> InodeRecord]
    BY <2>2, <2>3
  <2> QED
    BY <2>1, <2>4
<1>15. /\ s[dir].type = c[dir].type /\ s[dir].nlink = c[dir].nlink
       /\ s[dir].first = Append(c[dir].first, e)
  BY <1>11
<1>16. \A i \in D : s[i].type = is[i].type
  BY <1>8, <1>9, <1>11, <1>15
<1>17. \A i \in D : s[i].nlink = IF i = ino THEN CountUp(is[i].nlink) ELSE is[i].nlink
  BY <1>8, <1>9, <1>11, <1>15
<1>18. \A i \in D : s[i].first = IF i = dir THEN Append(is[i].first, e) ELSE is[i].first
  BY <1>8, <1>9, <1>11, <1>15
<1> QED
  BY <1>14, <1>16, <1>17, <1>18 DEF s, e, D, IsAdded
-----------------------------------------------------------------------------
(***************************************************************************)
(* Counting modulo NlinkMod.                                               *)
(***************************************************************************)

\* The remainder is the only number below m at the distance of a multiple.
LEMMA ModUnique ==
    ASSUME NEW m \in Nat \ {0}, NEW q \in Nat, NEW r \in 0..(m - 1)
    PROVE  (q * m + r) % m = r
<1> DEFINE a == q * m + r
           p == a \div m
           t == a % m
<1>1. a \in Nat /\ q * m \in Nat
  OBVIOUS
<1>2. p \in Nat /\ t \in 0..(m - 1) /\ a = p * m + t
  BY <1>1
<1>3. a = q * m + r
  OBVIOUS
<1> HIDE DEF a, p, t
<1>4. p * m \in Nat
  BY <1>2
<1>5. ASSUME p < q PROVE FALSE
  <2>1. q * m = (p + 1) * m + (q - p - 1) * m /\ (q - p - 1) * m \in Nat
    BY <1>2, <1>5
  <2>2. (p + 1) * m = p * m + m
    BY <1>2
  <2> QED
    BY <1>1, <1>2, <1>3, <1>4, <2>1, <2>2
<1>6. ASSUME q < p PROVE FALSE
  <2>1. p * m = (q + 1) * m + (p - q - 1) * m /\ (p - q - 1) * m \in Nat
    BY <1>2, <1>6
  <2>2. (q + 1) * m = q * m + m
    BY <1>2
  <2> QED
    BY <1>1, <1>2, <1>3, <1>4, <2>1, <2>2
<1>7. p = q
  BY <1>2, <1>5, <1>6
<1>8. t = r
  BY <1>1, <1>2, <1>3, <1>7
<1> QED
  BY <1>8 DEF a, t

\* Counting up a remainder and counting up the number agree.
LEMMA ModSucc ==
    ASSUME NEW m \in Nat \ {0}, NEW x \in Nat
    PROVE  ((x % m) + 1) % m = (x + 1) % m
<1>1. PICK q \in Nat, r \in 0..(m - 1) : x = q * m + r /\ x % m = r
  <2>1. x \div m \in Nat /\ x % m \in 0..(m - 1) /\ x = (x \div m) * m + (x % m)
    OBVIOUS
  <2> QED
    BY <2>1
<1>2. CASE r + 1 < m
  <2>1. x + 1 = q * m + (r + 1)
    BY <1>1
  <2>2. (q * m + (r + 1)) % m = r + 1
    BY <1>2, ModUnique
  <2>3. (0 * m + (r + 1)) % m = r + 1
    BY <1>2, ModUnique
  <2>4. 0 * m + (r + 1) = r + 1
    OBVIOUS
  <2> QED
    BY <1>1, <2>1, <2>2, <2>3, <2>4
<1>3. CASE r + 1 = m
  <2>1. x + 1 = (q + 1) * m + 0
    BY <1>1, <1>3
  <2>2. ((q + 1) * m + 0) % m = 0
    BY ModUnique
  <2>3. (1 * m + 0) % m = 0
    BY ModUnique
  <2>4. 1 * m + 0 = r + 1
    BY <1>3
  <2> QED
    BY <1>1, <2>1, <2>2, <2>3, <2>4
<1> QED
  BY <1>2, <1>3

\* What is in Links.
LEMMA LinksMembers ==
    ASSUME NEW is, NEW i, NEW x
    PROVE  x \in Links(is, i) <=>
               \E d \in 1..Len(is) : \E k \in 1..Len(is[d].first) :
                   x = <<d, k>> /\ is[d].first[k].ino = i
<1> DEFINE P(d) == {<<d, k>> : k \in {j \in 1..Len(is[d].first) : is[d].first[j].ino = i}}
<1>1. x \in Links(is, i) <=> \E d \in 1..Len(is) : x \in P(d)
  BY Zenon DEF Links
<1>2. ASSUME NEW d
      PROVE  x \in P(d) <=> \E k \in 1..Len(is[d].first) : x = <<d, k>> /\ is[d].first[k].ino = i
  BY Zenon
<1> HIDE DEF P
<1> QED
  BY <1>1, <1>2

\* What add_to_dir adds to the links.
LEMMA LinksAdd ==
    ASSUME NEW is \in Seq(InodeRecord), NEW dir \in 1..Len(is), NEW ino \in 1..Len(is),
           NEW name \in AllNames, NEW i
    PROVE  LET s == add_to_dir(is, dir, name, ino)
               x == <<dir, Len(is[dir].first) + 1>>
           IN  /\ Links(s, i) = IF i = ino THEN Links(is, i) \cup {x} ELSE Links(is, i)
               /\ x \notin Links(is, i)
<1> DEFINE s == add_to_dir(is, dir, name, ino)
           n == Len(is[dir].first) + 1
           e == [name |-> name, ino |-> ino]
<1>1. /\ Len(s) = Len(is)
      /\ \A d \in 1..Len(is) : s[d].first = IF d = dir THEN Append(is[d].first, e) ELSE is[d].first
  <2>1. IsAdded(s, is, dir, name, ino)
    BY AddFields
  <2> QED
    BY <2>1 DEF IsAdded
<1>2. is[dir].first \in Seq(Entry)
  <2>1. is[dir] \in InodeRecord
    OBVIOUS
  <2> QED
    BY <2>1 DEF InodeRecord
<1>3. e.ino = ino
  OBVIOUS
<1> HIDE DEF s, e
<1>4. /\ Len(s[dir].first) = n /\ n \in Nat /\ Len(is[dir].first) = n - 1
      /\ s[dir].first[n] = e
      /\ \A k \in 1..(n - 1) : s[dir].first[k] = is[dir].first[k]
  <2>1. s[dir].first = Append(is[dir].first, e)
    BY <1>1
  <2>2. Len(is[dir].first) \in Nat
    BY <1>2
  <2> QED
    BY <1>2, <2>1, <2>2
<1> HIDE DEF n
<1>5. \A d \in 1..Len(is) : d # dir => s[d].first = is[d].first
  BY <1>1
<1>6. <<dir, n>> \notin Links(is, i)
  <2> SUFFICES ASSUME <<dir, n>> \in Links(is, i) PROVE FALSE
    OBVIOUS
  <2>1. PICK d \in 1..Len(is) : \E k \in 1..Len(is[d].first) :
                   <<dir, n>> = <<d, k>> /\ is[d].first[k].ino = i
    BY LinksMembers
  <2>2. PICK k \in 1..Len(is[d].first) : <<dir, n>> = <<d, k>>
    BY <2>1
  <2>3. d = dir /\ k = n
    BY <2>2
  <2> QED
    BY <1>4, <2>2, <2>3
<1>7. \A x : x \in Links(is, i) => x \in Links(s, i)
  <2> SUFFICES ASSUME NEW x, x \in Links(is, i) PROVE x \in Links(s, i)
    OBVIOUS
  <2>0. PICK d \in 1..Len(is) : \E k \in 1..Len(is[d].first) :
            x = <<d, k>> /\ is[d].first[k].ino = i
    BY LinksMembers
  <2>1. PICK k \in 1..Len(is[d].first) : x = <<d, k>> /\ is[d].first[k].ino = i
    BY <2>0
  <2>2. d \in 1..Len(s) /\ k \in 1..Len(s[d].first) /\ s[d].first[k].ino = i
    <3>1. CASE d = dir
      BY <1>1, <1>4, <2>1, <3>1
    <3>2. CASE d # dir
      BY <1>1, <1>5, <2>1, <3>2
    <3> QED
      BY <3>1, <3>2
  <2> QED
    BY <2>1, <2>2, LinksMembers
<1>8. i = ino => <<dir, n>> \in Links(s, i)
  <2>1. dir \in 1..Len(s) /\ n \in 1..Len(s[dir].first) /\ s[dir].first[n].ino = ino
    BY <1>1, <1>2, <1>3, <1>4 DEF n
  <2> QED
    BY <2>1, LinksMembers
<1>9. \A x : x \in Links(s, i) => x \in Links(is, i) \/ (i = ino /\ x = <<dir, n>>)
  <2> SUFFICES ASSUME NEW x, x \in Links(s, i)
               PROVE  x \in Links(is, i) \/ (i = ino /\ x = <<dir, n>>)
    OBVIOUS
  <2>0. PICK d \in 1..Len(s) : \E k \in 1..Len(s[d].first) :
            x = <<d, k>> /\ s[d].first[k].ino = i
    BY LinksMembers
  <2>1. PICK k \in 1..Len(s[d].first) : x = <<d, k>> /\ s[d].first[k].ino = i
    BY <2>0
  <2>2. CASE d = dir /\ k = n
    BY <1>3, <1>4, <2>1, <2>2
  <2>3. CASE d = dir /\ k # n
    <3>1. k \in 1..Len(is[d].first) /\ is[d].first[k].ino = i
      BY <1>4, <2>1, <2>3
    <3> QED
      BY <1>1, <2>1, <3>1, LinksMembers
  <2>4. CASE d # dir
    <3>1. d \in 1..Len(is) /\ k \in 1..Len(is[d].first) /\ is[d].first[k].ino = i
      BY <1>1, <1>5, <2>1, <2>4
    <3> QED
      BY <2>1, <3>1, LinksMembers
  <2> QED
    BY <2>2, <2>3, <2>4
<1>10. Links(s, i) = IF i = ino THEN Links(is, i) \cup {<<dir, n>>} ELSE Links(is, i)
  BY <1>7, <1>8, <1>9
<1> QED
  BY <1>6, <1>10 DEF s, n

\* The link counts stay right when an entry is added.
LEMMA AddCounts ==
    ASSUME NEW is \in Seq(InodeRecord), NEW dir \in 1..Len(is), NEW ino \in 1..Len(is),
           NEW name \in AllNames, Counted(is)
    PROVE  Counted(add_to_dir(is, dir, name, ino))
<1> DEFINE s == add_to_dir(is, dir, name, ino)
<1>1. /\ Len(s) = Len(is)
      /\ \A i \in 1..Len(is) :
             s[i].nlink = IF i = ino THEN CountUp(is[i].nlink) ELSE is[i].nlink
  <2>1. IsAdded(s, is, dir, name, ino)
    BY AddFields
  <2> QED
    BY <2>1, Zenon DEF IsAdded
<1> DEFINE x == <<dir, Len(is[dir].first) + 1>>
<1>2. \A i \in 1..Len(is) :
          /\ Links(s, i) = IF i = ino THEN Links(is, i) \cup {x} ELSE Links(is, i)
          /\ x \notin Links(is, i)
  BY LinksAdd
<1> HIDE DEF s, x
<1> SUFFICES ASSUME NEW i \in 1..Len(is)
             PROVE  IsFiniteSet(Links(s, i)) /\ s[i].nlink = Cardinality(Links(s, i)) % NlinkMod
  BY <1>1 DEF Counted, s
<1>3. IsFiniteSet(Links(is, i)) /\ is[i].nlink = Cardinality(Links(is, i)) % NlinkMod
  BY DEF Counted
<1>4. CASE i = ino
  <2>1. Links(s, i) = Links(is, i) \cup {x} /\ x \notin Links(is, i)
    BY <1>2, <1>4
  <2>2. /\ IsFiniteSet(Links(s, i)) /\ Cardinality(Links(is, i)) \in Nat
        /\ Cardinality(Links(s, i)) = Cardinality(Links(is, i)) + 1
    BY <1>3, <2>1, FS_AddElement, FS_CardinalityType
  <2>3. s[i].nlink = CountUp(is[i].nlink)
    BY <1>1, <1>4
  <2> QED
    BY <1>3, <2>2, <2>3, ModSucc, NlinkModAssumption DEF CountUp
<1>5. CASE i # ino
  BY <1>1, <1>2, <1>3, <1>5
<1> QED
  BY <1>4, <1>5

\* A new inode at the end of the sequence.
LEMMA AppendFields ==
    ASSUME NEW is \in Seq(InodeRecord), NEW type \in Types \cup {"unknown"}
    PROVE  LET s == Append(is, Inode(type))
               new == Len(is) + 1
           IN  /\ s \in Seq(InodeRecord) /\ Len(s) = new /\ new \in Nat
               /\ \A i \in 1..Len(is) : s[i] = is[i]
               /\ s[new] = Inode(type)
<1>1. Inode(type) \in InodeRecord
  BY InodeType
<1> QED
  BY <1>1, AppendProperties

\* The new inode has no links yet, and the counts stay right.
LEMMA AppendCounts ==
    ASSUME NEW is \in Seq(InodeRecord), NEW type \in Types \cup {"unknown"},
           Closed(is), Counted(is)
    PROVE  Counted(Append(is, Inode(type)))
<1> DEFINE s == Append(is, Inode(type))
           new == Len(is) + 1
<1>1. /\ s \in Seq(InodeRecord) /\ Len(s) = new /\ new \in Nat
      /\ \A i \in 1..Len(is) : s[i] = is[i]
      /\ s[new] = Inode(type)
  BY AppendFields
<1>2. s[new].first = <<>> /\ s[new].nlink = 0
  BY <1>1, InodeType
<1>3. Len(is) \in Nat /\ 1..new = 1..Len(is) \cup {new}
  OBVIOUS
<1> HIDE DEF s
<1>4. ASSUME NEW i PROVE Links(s, i) = Links(is, i)
  <2>1. ASSUME NEW x, x \in Links(is, i) PROVE x \in Links(s, i)
    <3>0. PICK d \in 1..Len(is) : \E k \in 1..Len(is[d].first) :
              x = <<d, k>> /\ is[d].first[k].ino = i
      BY <2>1, LinksMembers
    <3>1. d \in 1..Len(s) /\ s[d] = is[d]
      BY <1>1, <1>3
    <3>2. \E k \in 1..Len(s[d].first) : x = <<d, k>> /\ s[d].first[k].ino = i
      BY <3>0, <3>1
    <3> QED
      BY <3>1, <3>2, LinksMembers
  <2>2. ASSUME NEW x, x \in Links(s, i) PROVE x \in Links(is, i)
    <3>0. PICK d \in 1..Len(s) : \E k \in 1..Len(s[d].first) :
              x = <<d, k>> /\ s[d].first[k].ino = i
      BY <2>2, LinksMembers
    <3>1. d # new
      BY <1>2, <3>0
    <3>2. d \in 1..Len(is) /\ s[d] = is[d]
      BY <1>1, <1>3, <3>1
    <3>3. \E k \in 1..Len(is[d].first) : x = <<d, k>> /\ is[d].first[k].ino = i
      BY <3>0, <3>2
    <3> QED
      BY <3>2, <3>3, LinksMembers
  <2> QED
    BY <2>1, <2>2
<1>5. Links(is, new) = {}
  <2> SUFFICES ASSUME NEW x, x \in Links(is, new) PROVE FALSE
    OBVIOUS
  <2>1. PICK d \in 1..Len(is) : \E k \in 1..Len(is[d].first) :
            x = <<d, k>> /\ is[d].first[k].ino = new
    BY LinksMembers
  <2>2. PICK k \in 1..Len(is[d].first) : is[d].first[k].ino = new
    BY <2>1
  <2>3. is[d].first[k].ino <= Len(is)
    BY <2>2 DEF Closed
  <2> QED
    BY <1>3, <2>2, <2>3
<1>6. /\ IsFiniteSet(Links(s, new))
      /\ s[new].nlink = Cardinality(Links(s, new)) % NlinkMod
  <2>1. IsFiniteSet({}) /\ Cardinality({}) = 0
    BY FS_EmptySet
  <2>2. 0 % NlinkMod = 0
    BY NlinkModAssumption
  <2> QED
    BY <1>2, <1>4, <1>5, <2>1, <2>2
<1>7. ASSUME NEW i \in 1..Len(is)
      PROVE  IsFiniteSet(Links(s, i)) /\ s[i].nlink = Cardinality(Links(s, i)) % NlinkMod
  BY <1>1, <1>4 DEF Counted
<1> QED
  BY <1>1, <1>3, <1>6, <1>7 DEF Counted, s

\* Entries still lead to inodes of the file system.
LEMMA AddCloses ==
    ASSUME NEW is \in Seq(InodeRecord), NEW dir \in 1..Len(is), NEW ino \in 1..Len(is),
           NEW name \in AllNames, Closed(is)
    PROVE  Closed(add_to_dir(is, dir, name, ino))
<1> DEFINE s == add_to_dir(is, dir, name, ino)
           e == [name |-> name, ino |-> ino]
<1>1. /\ Len(s) = Len(is)
      /\ \A d \in 1..Len(is) : s[d].first = IF d = dir THEN Append(is[d].first, e) ELSE is[d].first
  <2>1. IsAdded(s, is, dir, name, ino)
    BY AddFields
  <2> QED
    BY <2>1 DEF IsAdded
<1>2. \A d \in 1..Len(is) : is[d].first \in Seq(Entry)
  <2>1. \A d \in 1..Len(is) : is[d] \in InodeRecord
    OBVIOUS
  <2> QED
    BY <2>1 DEF InodeRecord
<1>3. e.ino = ino /\ ino <= Len(is)
  OBVIOUS
<1> HIDE DEF s, e
<1> SUFFICES ASSUME NEW i \in 1..Len(is), NEW k \in 1..Len(s[i].first)
             PROVE  s[i].first[k].ino <= Len(is)
  BY <1>1 DEF Closed, s
<1>4. CASE i # dir
  BY <1>1, <1>4 DEF Closed
<1>5. CASE i = dir
  <2>1. s[i].first = Append(is[i].first, e) /\ is[i].first \in Seq(Entry)
    BY <1>1, <1>2, <1>5
  <2>2. CASE k = Len(is[i].first) + 1
    BY <1>3, <2>1, <2>2
  <2>3. CASE k # Len(is[i].first) + 1
    <3>1. k \in 1..Len(is[i].first) /\ s[i].first[k] = is[i].first[k]
      BY <2>1, <2>3
    <3> QED
      BY <3>1 DEF Closed
  <2> QED
    BY <2>2, <2>3
<1> QED
  BY <1>4, <1>5

\* An appended inode has no entries.
LEMMA AppendCloses ==
    ASSUME NEW is \in Seq(InodeRecord), NEW type \in Types \cup {"unknown"}, Closed(is)
    PROVE  Closed(Append(is, Inode(type)))
<1> DEFINE s == Append(is, Inode(type))
           new == Len(is) + 1
<1>1. /\ Len(s) = new /\ new \in Nat /\ Len(is) \in Nat
      /\ \A i \in 1..Len(is) : s[i] = is[i]
      /\ s[new] = Inode(type)
  BY AppendFields
<1>2. s[new].first = <<>>
  BY <1>1, InodeType
<1>4. \A i \in 1..Len(is) : \A k \in 1..Len(is[i].first) : is[i].first[k].ino \in Nat
  BY FieldTypes
<1> HIDE DEF s
<1> SUFFICES ASSUME NEW i \in 1..new, NEW k \in 1..Len(s[i].first)
             PROVE  s[i].first[k].ino <= new
  BY <1>1 DEF Closed, s
<1>3. i # new
  BY <1>2
<1>5. i \in 1..Len(is) /\ s[i] = is[i]
  BY <1>1, <1>3
<1>6. is[i].first[k].ino <= Len(is) /\ is[i].first[k].ino \in Nat
  BY <1>4, <1>5 DEF Closed
<1> QED
  BY <1>1, <1>5, <1>6
-----------------------------------------------------------------------------
(***************************************************************************)
(* tmpfs_create.                                                           *)
(***************************************************************************)

\* A file system with a new inode: what was there keeps its type and, but for
\* the directory it was created in, its entries.
IsCreated(s, is, dir, name, type) ==
    LET new == Len(is) + 1
    IN  /\ s \in Seq(InodeRecord) /\ Len(s) = new
        /\ \A i \in 1..Len(is) : s[i].type = is[i].type
        /\ \A i \in 1..Len(is) :
               s[i].first = IF i = dir THEN Append(is[i].first, [name |-> name, ino |-> new])
                            ELSE is[i].first
        /\ s[new].type = type
        /\ IF type = "dir"
           THEN /\ Len(s[new].first) = 2
                /\ s[new].first[1] = [name |-> ".", ino |-> new]
                /\ s[new].first[2] = [name |-> "..", ino |-> dir]
           ELSE s[new].first = <<>>

\* The inodes before the last step of tmpfs_create, which adds the new one to
\* its directory.
LEMMA NewInode ==
    ASSUME inodes \in Seq(InodeRecord), NEW dir \in 1..Len(inodes), NEW type \in Types,
           Closed(inodes), Counted(inodes)
    PROVE  LET new   == Len(inodes) + 1
               after == IF type = "dir" THEN NewDirectory(dir, new)
                        ELSE Append(inodes, Inode(type))
           IN  /\ after \in Seq(InodeRecord) /\ Len(after) = new
               /\ Closed(after) /\ Counted(after)
               /\ \A i \in 1..Len(inodes) : after[i].type = inodes[i].type
               /\ \A i \in 1..Len(inodes) : after[i].first = inodes[i].first
               /\ after[new].type = type
               /\ IF type = "dir"
                  THEN /\ Len(after[new].first) = 2
                       /\ after[new].first[1] = [name |-> ".", ino |-> new]
                       /\ after[new].first[2] = [name |-> "..", ino |-> dir]
                  ELSE after[new].first = <<>>
<1> DEFINE new == Len(inodes) + 1
           a == Append(inodes, Inode(type))
           b == add_to_dir(a, new, ".", new)
           c == add_to_dir(b, new, "..", dir)
<1>1. /\ a \in Seq(InodeRecord) /\ Len(a) = new /\ new \in Nat /\ Len(inodes) \in Nat
      /\ \A i \in 1..Len(inodes) : a[i] = inodes[i]
      /\ a[new] = Inode(type)
      /\ Closed(a) /\ Counted(a)
  BY AppendFields, AppendCloses, AppendCounts
<1>2. a[new].type = type /\ a[new].first = <<>>
  BY <1>1, InodeType
<1>3. new \in 1..new /\ dir \in 1..new /\ new \notin 1..Len(inodes)
      /\ \A i \in 1..Len(inodes) : i \in 1..new /\ i # new
  BY <1>1
<1>4. CASE type # "dir"
  BY <1>1, <1>2, <1>4
<1>5. CASE type = "dir"
  <2>0. "." \in AllNames /\ ".." \in AllNames
    BY DEF AllNames
  <2> HIDE DEF a, new
  <2>1. IsAdded(b, a, new, ".", new) /\ Closed(b) /\ Counted(b)
    BY <1>1, <1>3, <2>0, AddFields, AddCloses, AddCounts
  <2>2. b \in Seq(InodeRecord) /\ Len(b) = new
    BY <1>1, <2>1 DEF IsAdded
  <2> HIDE DEF b
  <2>3. IsAdded(c, b, new, "..", dir) /\ Closed(c) /\ Counted(c)
    BY <1>3, <2>0, <2>1, <2>2, AddFields, AddCloses, AddCounts
  <2>4. c \in Seq(InodeRecord) /\ Len(c) = new
    BY <2>2, <2>3 DEF IsAdded
  <2> HIDE DEF c
  <2>5. \A i \in 1..new : c[i].type = a[i].type
    BY <1>1, <2>1, <2>2, <2>3 DEF IsAdded
  <2>6. \A i \in 1..Len(inodes) : c[i].first = a[i].first
    BY <1>1, <1>3, <2>1, <2>2, <2>3 DEF IsAdded
  <2>7. b[new].first = Append(<<>>, [name |-> ".", ino |-> new])
    BY <1>1, <1>2, <1>3, <2>1 DEF IsAdded
  <2>8. c[new].first = Append(b[new].first, [name |-> "..", ino |-> dir])
    BY <1>3, <2>2, <2>3 DEF IsAdded
  <2>9. /\ Len(c[new].first) = 2
        /\ c[new].first[1] = [name |-> ".", ino |-> new]
        /\ c[new].first[2] = [name |-> "..", ino |-> dir]
    BY <2>7, <2>8
  <2>10. c[new].type = type
    BY <1>2, <1>3, <2>5
  <2>11. \A i \in 1..Len(inodes) : c[i].type = inodes[i].type /\ c[i].first = inodes[i].first
    BY <1>1, <1>3, <2>5, <2>6
  <2>12. NewDirectory(dir, new) = c
    BY <1>5 DEF NewDirectory, a, b, c
  <2> QED
    BY <1>5, <2>3, <2>4, <2>9, <2>10, <2>11, <2>12 DEF new
<1> QED
  BY <1>4, <1>5

\* All of tmpfs_create, if it does not fail.
LEMMA CreateEffect ==
    ASSUME inodes \in Seq(InodeRecord), NEW dir \in 1..Len(inodes), NEW name \in AllNames,
           NEW type \in Types, Closed(inodes), Counted(inodes)
    PROVE  LET new   == Len(inodes) + 1
               after == IF type = "dir" THEN NewDirectory(dir, new)
                        ELSE Append(inodes, Inode(type))
               s     == add_to_dir(after, dir, name, new)
           IN  IsCreated(s, inodes, dir, name, type) /\ Closed(s) /\ Counted(s)
<1> DEFINE new   == Len(inodes) + 1
           after == IF type = "dir" THEN NewDirectory(dir, new)
                    ELSE Append(inodes, Inode(type))
           s     == add_to_dir(after, dir, name, new)
<1>1. /\ after \in Seq(InodeRecord) /\ Len(after) = new
      /\ Closed(after) /\ Counted(after)
      /\ \A i \in 1..Len(inodes) : after[i].type = inodes[i].type
      /\ \A i \in 1..Len(inodes) : after[i].first = inodes[i].first
      /\ after[new].type = type
      /\ IF type = "dir"
         THEN /\ Len(after[new].first) = 2
              /\ after[new].first[1] = [name |-> ".", ino |-> new]
              /\ after[new].first[2] = [name |-> "..", ino |-> dir]
         ELSE after[new].first = <<>>
  BY NewInode
<1>2. new \in 1..new /\ dir \in 1..new /\ new # dir
      /\ \A i \in 1..Len(inodes) : i \in 1..new /\ i # new
  BY LenProperties
<1> HIDE DEF after
<1>3. IsAdded(s, after, dir, name, new) /\ Closed(s) /\ Counted(s)
  BY <1>1, <1>2, AddFields, AddCloses, AddCounts
<1> HIDE DEF s, new
<1>4. /\ s \in Seq(InodeRecord) /\ Len(s) = new
      /\ \A i \in 1..new : s[i].type = after[i].type
      /\ \A i \in 1..new :
             s[i].first = IF i = dir THEN Append(after[i].first, [name |-> name, ino |-> new])
                          ELSE after[i].first
  BY <1>1, <1>3, Zenon DEF IsAdded
<1>5. s[new].type = type /\ s[new].first = after[new].first
  BY <1>1, <1>2, <1>4
<1>6. \A i \in 1..Len(inodes) : s[i].type = inodes[i].type
  BY <1>1, <1>2, <1>4
<1>7. \A i \in 1..Len(inodes) :
          s[i].first = IF i = dir THEN Append(inodes[i].first, [name |-> name, ino |-> new])
                       ELSE inodes[i].first
  BY <1>1, <1>2, <1>4
<1>8. IsCreated(s, inodes, dir, name, type)
  BY <1>1, <1>4, <1>5, <1>6, <1>7 DEF IsCreated, new
<1> QED
  BY <1>3, <1>8 DEF s, after, new

\* tmpfs_lookup returns the inode of the one entry with that name.
LEMMA LookupFinds ==
    ASSUME inodes \in Seq(InodeRecord), Unique(inodes), NEW i \in 1..Len(inodes),
           NEW k \in 1..Len(inodes[i].first), NEW name, inodes[i].first[k].name = name
    PROVE  tmpfs_lookup(i, name) = inodes[i].first[k].ino
<1> DEFINE entries == inodes[i].first
           hits == {l \in 1..Len(entries) : entries[l].name = name}
<1>1. hits = {k}
  BY DEF Unique
<1>2. k \in Nat
  BY FieldTypes
<1> HIDE DEF hits
<1>3. (CHOOSE l \in hits : \A m \in hits : l <= m) = k
  BY <1>1, <1>2
<1> QED
  BY <1>1, <1>3 DEF tmpfs_lookup, hits

\* tmpfs_create goes on only if no entry has the name.
LEMMA LookupFails ==
    ASSUME inodes \in Seq(InodeRecord), Unique(inodes), NEW i \in 1..Len(inodes),
           NEW name, tmpfs_lookup(i, name) = NULL
    PROVE  \A k \in 1..Len(inodes[i].first) : inodes[i].first[k].name # name
<1> SUFFICES ASSUME NEW k \in 1..Len(inodes[i].first), inodes[i].first[k].name = name
             PROVE  FALSE
  OBVIOUS
<1>1. tmpfs_lookup(i, name) = inodes[i].first[k].ino
  BY LookupFinds
<1>2. inodes[i].first[k].ino \in Nat \ {0}
  BY FieldTypes
<1> QED
  BY <1>1, <1>2 DEF NULL

\* The entries of the directory that a new inode was added to.
LEMMA ExtendedEntries ==
    ASSUME NEW is \in Seq(InodeRecord), NEW s, NEW dir \in 1..Len(is), NEW name, NEW type,
           IsCreated(s, is, dir, name, type)
    PROVE  LET n == Len(is[dir].first) + 1
           IN  /\ Len(s[dir].first) = n /\ n \in Nat
               /\ s[dir].first[n] = [name |-> name, ino |-> Len(is) + 1]
               /\ \A k \in 1..Len(is[dir].first) : k \in 1..n /\ k # n
               /\ \A k \in 1..n : k = n \/ k \in 1..Len(is[dir].first)
               /\ \A k \in 1..Len(is[dir].first) : s[dir].first[k] = is[dir].first[k]
<1> DEFINE e == [name |-> name, ino |-> Len(is) + 1]
           f == is[dir].first
<1>1. s[dir].first = Append(f, e)
  BY DEF IsCreated
<1>2. f \in Seq(Entry) /\ Len(f) \in Nat
  BY FieldTypes
<1> HIDE DEF e, f
<1>3. /\ Len(Append(f, e)) = Len(f) + 1
      /\ Append(f, e)[Len(f) + 1] = e
      /\ \A k \in 1..Len(f) : Append(f, e)[k] = f[k]
  BY <1>2
<1>4. /\ \A k \in 1..Len(f) : k \in 1..(Len(f) + 1) /\ k # Len(f) + 1
      /\ \A k \in 1..(Len(f) + 1) : k = Len(f) + 1 \/ k \in 1..Len(f)
      /\ Len(f) + 1 \in Nat
  BY <1>2
<1> QED
  BY <1>1, <1>3, <1>4 DEF e, f

\* Names stay unique when an inode is created under a name that is free.
LEMMA CreateUnique ==
    ASSUME NEW is \in Seq(InodeRecord), NEW s, NEW dir \in 1..Len(is), NEW name, NEW type,
           IsCreated(s, is, dir, name, type), Unique(is),
           \A k \in 1..Len(is[dir].first) : is[dir].first[k].name # name
    PROVE  Unique(s)
<1> DEFINE new == Len(is) + 1
           n == Len(is[dir].first) + 1
<1>1. /\ Len(s) = new
      /\ \A i \in 1..Len(is) : i # dir => s[i].first = is[i].first
  BY DEF IsCreated
<1>2. /\ Len(s[dir].first) = n
      /\ s[dir].first[n] = [name |-> name, ino |-> new]
      /\ \A k \in 1..n : k = n \/ k \in 1..Len(is[dir].first)
      /\ \A k \in 1..Len(is[dir].first) : s[dir].first[k] = is[dir].first[k]
  BY ExtendedEntries
<1>3. \A i \in 1..new : i = new \/ i \in 1..Len(is)
  <2>1. Len(is) \in Nat
    OBVIOUS
  <2> QED
    BY <2>1
<1>4. IF type = "dir"
      THEN /\ Len(s[new].first) = 2
           /\ s[new].first[1] = [name |-> ".", ino |-> new]
           /\ s[new].first[2] = [name |-> "..", ino |-> dir]
      ELSE s[new].first = <<>>
  BY DEF IsCreated
<1> HIDE DEF new, n
<1> SUFFICES ASSUME NEW i \in 1..new, NEW k \in 1..Len(s[i].first), NEW l \in 1..Len(s[i].first),
                    s[i].first[k].name = s[i].first[l].name
             PROVE  k = l
  BY <1>1 DEF Unique
<1>5. CASE i = new
  <2>1. CASE type = "dir"
    <3>1. k \in {1, 2} /\ l \in {1, 2}
      BY <1>4, <1>5, <2>1
    <3>2. s[new].first[1].name = "." /\ s[new].first[2].name = ".."
      BY <1>4, <2>1
    <3> QED
      BY <1>5, <3>1, <3>2
  <2>2. CASE type # "dir"
    BY <1>4, <1>5, <2>2
  <2> QED
    BY <2>1, <2>2
<1>6. CASE i \in 1..Len(is) /\ i # dir
  BY <1>1, <1>6 DEF Unique
<1>7. CASE i = dir
  <2>1. s[dir].first[n].name = name
    BY <1>2
  <2>2. \A m \in 1..Len(is[dir].first) : s[dir].first[m].name # name
    BY <1>2
  <2>3. k \in 1..n /\ l \in 1..n
    BY <1>2, <1>7
  <2>4. CASE k = n \/ l = n
    BY <1>2, <1>7, <2>1, <2>2, <2>3, <2>4
  <2>5. CASE k # n /\ l # n
    BY <1>2, <1>7, <2>3, <2>5 DEF Unique
  <2> QED
    BY <2>4, <2>5
<1> QED
  BY <1>3, <1>5, <1>6, <1>7

\* The shape of the tree stays when an inode is created in a directory.
LEMMA CreateShape ==
    ASSUME NEW is \in Seq(InodeRecord), NEW s, NEW dir \in 1..Len(is), NEW name, NEW type,
           IsCreated(s, is, dir, name, type), Closed(is), Shape(is), Directory(is, dir)
    PROVE  Shape(s)
<1> DEFINE new == Len(is) + 1
           n == Len(is[dir].first) + 1
<1>1. /\ Len(s) = new
      /\ \A i \in 1..Len(is) : i # dir => s[i].first = is[i].first
      /\ \A i \in 1..Len(is) : s[i].type = is[i].type
      /\ s[new].type = type
  BY DEF IsCreated
<1>2. /\ Len(s[dir].first) = n /\ n \in Nat /\ n = Len(is[dir].first) + 1
      /\ s[dir].first[n] = [name |-> name, ino |-> new]
      /\ \A k \in 1..n : k = n \/ k \in 1..Len(is[dir].first)
      /\ \A k \in 1..Len(is[dir].first) : s[dir].first[k] = is[dir].first[k]
  BY ExtendedEntries
<1>3. /\ \A i \in 1..new : i = new \/ i \in 1..Len(is)
      /\ \A i \in 1..Len(is) : i < new /\ i \in Nat /\ i # new
      /\ Len(is) \in Nat /\ new \in Nat /\ new # Root /\ new = Len(is) + 1
  BY FieldTypes DEF Root
<1>4. IF type = "dir"
      THEN /\ Len(s[new].first) = 2
           /\ s[new].first[1] = [name |-> ".", ino |-> new]
           /\ s[new].first[2] = [name |-> "..", ino |-> dir]
      ELSE s[new].first = <<>>
  BY DEF IsCreated
<1>5. \A i \in 1..Len(is) : \A k \in 1..Len(is[i].first) :
          is[i].first[k].ino \in Nat \ {0} /\ is[i].first[k].ino <= Len(is)
  BY FieldTypes DEF Closed
<1>6. \A i \in 1..Len(is) : is[i].first \in Seq(Entry) /\ Len(is[i].first) \in Nat
  BY FieldTypes
<1> HIDE DEF new, n
<1>7. \A i \in 1..Len(is) : Directory(s, i) <=> Directory(is, i)
  BY <1>1 DEF Directory
<1>8. \A i \in 1..Len(is) : /\ Len(is[i].first) <= Len(s[i].first) /\ Len(s[i].first) \in Nat
                             /\ \A k \in 1..Len(is[i].first) : s[i].first[k] = is[i].first[k]
  <2> SUFFICES ASSUME NEW i \in 1..Len(is)
               PROVE  /\ Len(is[i].first) <= Len(s[i].first) /\ Len(s[i].first) \in Nat
                      /\ \A k \in 1..Len(is[i].first) : s[i].first[k] = is[i].first[k]
    OBVIOUS
  <2>1. CASE i = dir
    BY <1>2, <1>6, <2>1
  <2>2. CASE i # dir
    BY <1>1, <1>6, <2>2
  <2> QED
    BY <2>1, <2>2
<1>9. ASSUME NEW i \in 1..Len(is), Directory(is, i), i # Root
      PROVE  /\ Len(is[i].first) >= 2 /\ 1 \in 1..Len(is[i].first) /\ 2 \in 1..Len(is[i].first)
             /\ is[i].first[1] = [name |-> ".", ino |-> i]
             /\ is[i].first[2].name = ".."
             /\ is[i].first[2].ino < i
             /\ Directory(is, is[i].first[2].ino)
  BY <1>6, <1>9 DEF Shape
<1>10. ASSUME NEW i \in 1..new PROVE Directory(s, i) \/ s[i].first = <<>>
  <2>1. CASE i = new
    BY <1>1, <1>4, <2>1 DEF Directory
  <2>2. CASE i = dir
    BY <1>7, <2>2
  <2>3. CASE i \in 1..Len(is) /\ i # dir
    BY <1>1, <1>7, <2>3 DEF Shape
  <2> QED
    BY <1>3, <2>1, <2>2, <2>3
<1>11. ASSUME NEW i \in 1..new, Directory(s, i), i # Root
       PROVE  /\ Len(s[i].first) >= 2
              /\ s[i].first[1] = [name |-> ".", ino |-> i]
              /\ s[i].first[2].name = ".."
              /\ s[i].first[2].ino < i
              /\ Directory(s, s[i].first[2].ino)
  <2>1. CASE i = new
    <3>1. type = "dir"
      BY <1>1, <1>3, <1>11, <2>1 DEF Directory
    <3>2. Directory(s, dir) /\ dir < new
      BY <1>3, <1>7
    <3> QED
      BY <1>4, <2>1, <3>1, <3>2
  <2>2. CASE i \in 1..Len(is)
    <3>1. /\ Len(is[i].first) >= 2 /\ 1 \in 1..Len(is[i].first) /\ 2 \in 1..Len(is[i].first)
          /\ is[i].first[1] = [name |-> ".", ino |-> i]
          /\ is[i].first[2].name = ".."
          /\ is[i].first[2].ino < i
          /\ Directory(is, is[i].first[2].ino)
      BY <1>7, <1>9, <1>11, <2>2
    <3>2. s[i].first[1] = is[i].first[1] /\ s[i].first[2] = is[i].first[2]
      BY <1>8, <2>2, <3>1
    <3>3. is[i].first[2].ino \in 1..Len(is)
      BY <1>3, <1>5, <2>2, <3>1
    <3>4. Len(s[i].first) >= 2
      BY <1>6, <1>8, <2>2, <3>1
    <3> QED
      BY <1>7, <3>1, <3>2, <3>3, <3>4
  <2> QED
    BY <1>3, <2>1, <2>2
<1>12. ASSUME NEW i \in 1..new, NEW k \in 1..Len(s[i].first), ~Dot(s, i, k)
       PROVE  /\ i < s[i].first[k].ino
              /\ s[s[i].first[k].ino].type = "dir" => s[s[i].first[k].ino].first[2].ino = i
  <2>1. i # new
    <3> SUFFICES ASSUME i = new PROVE FALSE
      OBVIOUS
    <3>0. k \in 1..Len(s[new].first)
      OBVIOUS
    <3>1. k <= 2
      <4>1. CASE type = "dir"
        <5>1. Len(s[new].first) = 2
          BY <1>4, <4>1
        <5> QED
          BY <3>0, <5>1
      <4>2. CASE type # "dir"
        <5>1. Len(s[new].first) = 0
          BY <1>4, <4>2
        <5> QED
          BY <3>0, <5>1
      <4> QED
        BY <4>1, <4>2
    <3> QED
      BY <1>3, <1>12, <3>1 DEF Dot
  <2>2. i \in 1..Len(is)
    BY <1>3, <2>1
  <2>3. CASE i = dir /\ k = n
    <3>1. s[i].first[k].ino = new
      BY <1>2, <2>3
    <3>2. s[new].type = "dir" => s[new].first[2].ino = dir
      BY <1>1, <1>4
    <3> QED
      BY <1>3, <2>2, <2>3, <3>1, <3>2
  <2>4. CASE ~(i = dir /\ k = n)
    <3>1. k \in 1..Len(is[i].first) /\ s[i].first[k] = is[i].first[k]
      BY <1>1, <1>2, <2>2, <2>4
    <3> DEFINE j == is[i].first[k].ino
    <3>2. j \in Nat \ {0} /\ j <= Len(is)
      BY <1>5, <2>2, <3>1
    <3>3. i < j /\ (is[j].type = "dir" => is[j].first[2].ino = i)
      BY <1>12, <2>2, <3>1 DEF Shape, Dot
    <3> HIDE DEF j
    <3>4. j \in 1..Len(is) /\ j # Root
      BY <1>3, <2>2, <3>2, <3>3 DEF Root
    <3>5. ASSUME s[j].type = "dir" PROVE s[j].first[2].ino = i
      <4>1. is[j].type = "dir" /\ Directory(is, j)
        BY <1>1, <3>4, <3>5 DEF Directory
      <4>2. 2 \in 1..Len(is[j].first)
        BY <1>9, <3>4, <4>1
      <4> QED
        BY <1>8, <3>3, <3>4, <4>1, <4>2
    <3> QED
      BY <3>1, <3>3, <3>5 DEF j
  <2> QED
    BY <2>3, <2>4
<1> QED
  BY <1>1, <1>10, <1>11, <1>12 DEF Shape
\* A new inode gets its one entry, and no other inode gets one more.
LEMMA CreateLinked ==
    ASSUME NEW is \in Seq(InodeRecord), NEW s, NEW dir \in 1..Len(is), NEW name, NEW type,
           IsCreated(s, is, dir, name, type), Closed(is), Shape(is), Linked(is),
           Directory(is, dir)
    PROVE  Linked(s)
<1> DEFINE new == Len(is) + 1
           n == Len(is[dir].first) + 1
<1>1. /\ Len(s) = new
      /\ \A i \in 1..Len(is) : i # dir => s[i].first = is[i].first
  BY DEF IsCreated
<1>2. /\ Len(s[dir].first) = n /\ n \in Nat /\ n = Len(is[dir].first) + 1
      /\ s[dir].first[n].ino = new
      /\ \A k \in 1..n : k = n \/ k \in 1..Len(is[dir].first)
      /\ \A k \in 1..Len(is[dir].first) : k \in 1..n /\ k # n
      /\ \A k \in 1..Len(is[dir].first) : s[dir].first[k] = is[dir].first[k]
  <2>1. /\ Len(s[dir].first) = n /\ n \in Nat /\ n = Len(is[dir].first) + 1
        /\ s[dir].first[n] = [name |-> name, ino |-> new]
        /\ \A k \in 1..n : k = n \/ k \in 1..Len(is[dir].first)
        /\ \A k \in 1..Len(is[dir].first) : k \in 1..n /\ k # n
        /\ \A k \in 1..Len(is[dir].first) : s[dir].first[k] = is[dir].first[k]
    BY ExtendedEntries
  <2> HIDE DEF n, new
  <2>2. s[dir].first[n].ino = new
    BY <2>1
  <2> QED
    BY <2>1, <2>2
<1>3. /\ \A i \in 1..new : i = new \/ i \in 1..Len(is)
      /\ \A i \in 1..Len(is) : i \in 1..new /\ i # new
      /\ new \in 1..new /\ new # Root
  <2>1. Len(is) \in Nat /\ Len(is) >= 1
    OBVIOUS
  <2> QED
    BY <2>1 DEF Root
<1>4. Len(s[new].first) \in 0..2
  <2>1. Len(s[new].first) = 2 \/ s[new].first = <<>>
    BY DEF IsCreated
  <2> QED
    BY <2>1
<1>5. \A i \in 1..Len(is) : \A k \in 1..Len(is[i].first) : is[i].first[k].ino # new
  <2>1. \A i \in 1..Len(is) : \A k \in 1..Len(is[i].first) :
            is[i].first[k].ino \in Nat /\ is[i].first[k].ino <= Len(is)
    BY FieldTypes DEF Closed
  <2> QED
    BY <2>1
<1>6. ~Dot(s, dir, n)
  <2> SUFFICES ASSUME dir # Root PROVE ~(n <= 2)
    BY DEF Dot
  <2>1. Len(is[dir].first) >= 2
    BY DEF Shape
  <2>2. Len(is[dir].first) \in Nat
    <3>1. is[dir].first \in Seq(Entry)
      BY FieldTypes
    <3> QED
      BY <3>1
  <2> QED
    BY <2>1, <2>2
<1> HIDE DEF new, n
\* Where an entry of s that is not a dot is.
<1>7. ASSUME NEW f \in 1..new, NEW l \in 1..Len(s[f].first), ~Dot(s, f, l)
      PROVE  \/ f = dir /\ l = n
             \/ /\ f \in 1..Len(is) /\ l \in 1..Len(is[f].first)
                /\ ~Dot(is, f, l) /\ s[f].first[l] = is[f].first[l]
  <2>1. f # new
    <3> SUFFICES ASSUME f = new PROVE FALSE
      OBVIOUS
    <3>1. PICK m \in 0..2 : m = Len(s[new].first)
      BY <1>4
    <3>2. l \in 1..m
      BY <3>1
    <3>3. l <= 2
      BY <3>2
    <3> QED
      BY <1>3, <1>7, <3>3 DEF Dot
  <2>2. f \in 1..Len(is)
    BY <1>3, <2>1
  <2>3. ~Dot(is, f, l)
    BY <1>7 DEF Dot
  <2>4. CASE f = dir
    BY <1>2, <2>2, <2>3, <2>4
  <2>5. CASE f # dir
    BY <1>1, <2>2, <2>3, <2>5
  <2> QED
    BY <2>4, <2>5
<1>8. OnlyEntry(s, new, dir, n)
  <2>1. n \in 1..Len(s[dir].first)
    BY <1>2
  <2>2. ASSUME NEW f \in 1..new, NEW l \in 1..Len(s[f].first), ~Dot(s, f, l),
               s[f].first[l].ino = new
        PROVE  f = dir /\ l = n
    BY <1>5, <1>7, <2>2
  <2> QED
    BY <1>1, <1>2, <1>6, <2>1, <2>2 DEF OnlyEntry
<1>9. ASSUME NEW d \in 1..Len(is), d # Root
      PROVE  \E e \in 1..new, k \in Nat : OnlyEntry(s, d, e, k)
  <2>1. PICK e \in 1..Len(is), k \in Nat : OnlyEntry(is, d, e, k)
    BY <1>9 DEF Linked
  <2>2. /\ k \in 1..Len(is[e].first) /\ ~Dot(is, e, k) /\ is[e].first[k].ino = d
        /\ \A f \in 1..Len(is) : \A l \in 1..Len(is[f].first) :
               ~Dot(is, f, l) /\ is[f].first[l].ino = d => f = e /\ l = k
    BY <2>1 DEF OnlyEntry
  <2>3. k \in 1..Len(s[e].first) /\ s[e].first[k] = is[e].first[k]
    <3>1. CASE e = dir
      BY <1>2, <2>2, <3>1
    <3>2. CASE e # dir
      BY <1>1, <2>2, <3>2
    <3> QED
      BY <3>1, <3>2
  <2>4. ~Dot(s, e, k)
    BY <2>2 DEF Dot
  <2>5. ASSUME NEW f \in 1..new, NEW l \in 1..Len(s[f].first), ~Dot(s, f, l),
               s[f].first[l].ino = d
        PROVE  f = e /\ l = k
    <3>1. ~(f = dir /\ l = n)
      BY <1>2, <1>3, <2>5
    <3>2. /\ f \in 1..Len(is) /\ l \in 1..Len(is[f].first)
          /\ ~Dot(is, f, l) /\ s[f].first[l] = is[f].first[l]
      BY <1>7, <2>5, <3>1
    <3> QED
      BY <2>2, <2>5, <3>2
  <2>6. OnlyEntry(s, d, e, k)
    BY <1>1, <2>2, <2>3, <2>4, <2>5 DEF OnlyEntry
  <2> QED
    BY <1>3, <2>6
<1>10. \E e \in 1..new, k \in Nat : OnlyEntry(s, new, e, k)
  BY <1>2, <1>3, <1>8
<1> QED
  BY <1>1, <1>3, <1>9, <1>10 DEF Linked
-----------------------------------------------------------------------------
(***************************************************************************)
(* The invariant and the properties.                                       *)
(***************************************************************************)

\* No listing shows a name twice.
Listed(ns) == \A k, l \in 1..Len(ns) : ns[k] = ns[l] => k = l

\* A file system without inodes, and one with a root without entries.
LEMMA FreshFileSystem ==
    /\ <<>> \in Seq(InodeRecord) /\ Closed(<<>>) /\ Unique(<<>>) /\ Counted(<<>>)
    /\ Shape(<<>>) /\ Linked(<<>>)
    /\ LET is == <<Inode("unknown")>>
       IN  /\ is \in Seq(InodeRecord) /\ Len(is) = 1
           /\ Closed(is) /\ Unique(is) /\ Counted(is) /\ Shape(is) /\ Linked(is)
<1>1. /\ <<>> \in Seq(InodeRecord) /\ Closed(<<>>) /\ Unique(<<>>) /\ Counted(<<>>)
      /\ Shape(<<>>) /\ Linked(<<>>)
  BY DEF Closed, Unique, Counted, Shape, Linked
<1> DEFINE is == Append(<<>>, Inode("unknown"))
<1>2. /\ is \in Seq(InodeRecord) /\ Len(is) = 0 + 1 /\ is[0 + 1] = Inode("unknown")
      /\ Closed(is) /\ Counted(is)
  <2>1. Len(<<>>) = 0
    OBVIOUS
  <2> QED
    BY <1>1, <2>1, AppendFields, AppendCloses, AppendCounts
<1>3. Len(is) = 1 /\ is[1].first = <<>>
  BY <1>2, InodeType
<1>4. is = <<Inode("unknown")>>
  OBVIOUS
<1> HIDE DEF is
<1>5. Unique(is) /\ Shape(is) /\ Linked(is)
  BY <1>3 DEF Unique, Shape, Linked, Directory, Root
<1> QED
  BY <1>1, <1>2, <1>3, <1>4, <1>5

\* The invariant holds initially and every step keeps it.
LEMMA TreeInductive ==
    /\ Init => IInv
    /\ IInv /\ [Next]_vars => IInv'
<1>1. Init => IInv
  <2> SUFFICES ASSUME Init PROVE IInv
    OBVIOUS
  <2>1. inodes = <<>> /\ names = <<>> /\ mounts = 0 /\ Len(inodes) <= MaxInodes
        /\ mounts \in 0..MaxMounts
    BY MaxInodesAssumption DEF Init
  <2> QED
    BY <2>1, FreshFileSystem DEF IInv
<1>2. IInv /\ [Next]_vars => IInv'
  <2> SUFFICES ASSUME IInv, [Next]_vars PROVE IInv'
    OBVIOUS
  <2>0. /\ inodes \in Seq(InodeRecord) /\ Len(inodes) <= MaxInodes /\ mounts \in 0..MaxMounts
        /\ Closed(inodes) /\ Unique(inodes) /\ Counted(inodes)
        /\ Shape(inodes) /\ Linked(inodes) /\ Listed(names)
    BY DEF IInv, Listed
  <2>i. ASSUME /\ inodes' \in Seq(InodeRecord) /\ Len(inodes') <= MaxInodes
               /\ mounts' \in 0..MaxMounts
               /\ Closed(inodes') /\ Unique(inodes') /\ Counted(inodes')
               /\ Shape(inodes') /\ Linked(inodes') /\ Listed(names')
        PROVE  IInv'
    BY <2>i DEF IInv, Listed
  <2>1. CASE tmpfs_mount
    <3>1. inodes' = <<Inode("unknown")>> /\ mounts < MaxMounts /\ mounts' = mounts + 1
          /\ names' = names
      BY <2>1 DEF tmpfs_mount
    <3> QED
      BY <2>0, <2>i, <3>1, FreshFileSystem, MaxInodesAssumption
  <2>2. ASSUME NEW dir \in Dirs, NEW name \in Names, NEW type \in Types \cup {"fifo"},
               tmpfs_create(dir, name, type)
        PROVE  IInv'
    <3> DEFINE new   == Len(inodes) + 1
               after == IF type = "dir" THEN NewDirectory(dir, new)
                        ELSE Append(inodes, Inode(type))
    <3>1. mounts' = mounts /\ names' = names /\ new <= MaxInodes
      BY <2>2 DEF tmpfs_create
    <3>2. CASE inodes' = inodes
      BY <2>0, <2>i, <3>1, <3>2
    <3>3. CASE inodes' # inodes
      <4>1. /\ tmpfs_lookup(dir, name) = NULL /\ type \in Types
            /\ inodes' = add_to_dir(after, dir, name, new)
        BY <2>2, <3>3 DEF tmpfs_create
      <4>2. dir \in 1..Len(inodes) /\ Directory(inodes, dir) /\ name \in AllNames
        BY DEF Dirs, Directory, AllNames
      <4>3. /\ IsCreated(inodes', inodes, dir, name, type)
            /\ Closed(inodes') /\ Counted(inodes')
        BY <2>0, <4>1, <4>2, CreateEffect
      <4>4. \A k \in 1..Len(inodes[dir].first) : inodes[dir].first[k].name # name
        BY <2>0, <4>1, <4>2, LookupFails
      <4>5. Unique(inodes')
        BY <2>0, <4>2, <4>3, <4>4, CreateUnique
      <4>6. Shape(inodes')
        BY <2>0, <4>2, <4>3, CreateShape
      <4>8. Linked(inodes')
        BY <2>0, <4>2, <4>3, CreateLinked
      <4>7. inodes' \in Seq(InodeRecord) /\ Len(inodes') = new
        BY <4>3 DEF IsCreated
      <4> QED
        BY <2>0, <2>i, <3>1, <4>3, <4>5, <4>6, <4>7, <4>8
    <3> QED
      BY <3>2, <3>3
  <2>3. ASSUME NEW dir \in Dirs, NEW n \in 0..3, tmpfs_readdir(dir, n)
        PROVE  IInv'
    <3> DEFINE entries == inodes[dir].first
               count == IF Len(entries) < n THEN Len(entries) ELSE n
    <3>1. inodes' = inodes /\ mounts' = mounts /\ names' = [k \in 1..count |-> entries[k].name]
      BY <2>3 DEF tmpfs_readdir
    <3>2. dir \in 1..Len(inodes)
      BY DEF Dirs
    <3>3. Len(entries) \in Nat
      BY <2>0, <3>2, FieldTypes
    <3>4. count \in Nat /\ count <= Len(entries)
      BY <3>3
    <3> HIDE DEF count
    <3>5. Len(names') = count
      BY <3>1, <3>4
    <3>6. Listed(names')
      <4> SUFFICES ASSUME NEW k \in 1..count, NEW l \in 1..count, names'[k] = names'[l]
                   PROVE  k = l
        BY <3>5 DEF Listed
      <4>1. entries[k].name = entries[l].name
        BY <3>1
      <4>2. k \in 1..Len(entries) /\ l \in 1..Len(entries)
        BY <3>3, <3>4
      <4> QED
        BY <2>0, <3>2, <4>1, <4>2 DEF Unique
    <3> QED
      BY <2>0, <2>i, <3>1, <3>6
  <2>4. CASE tmpfs_destroy
    <3>1. inodes' = <<>> /\ mounts' = mounts /\ names' = names
      BY <2>4 DEF tmpfs_destroy
    <3>2. Len(<<>>) <= MaxInodes
      BY MaxInodesAssumption
    <3> QED
      BY <2>0, <2>i, <3>1, <3>2, FreshFileSystem
  <2>5. CASE UNCHANGED vars
    BY <2>0, <2>i, <2>5 DEF vars
  <2> QED
    BY <2>1, <2>2, <2>3, <2>4, <2>5 DEF Next
<1> QED
  BY <1>1, <1>2

\* After every sequence of calls, each entry leads to an inode, and the link
\* count of an inode is the number of entries that lead to it, modulo the
\* width of the count.
THEOREM NlinkCountsEntriesHolds == Spec => []NlinkCountsEntries
<1>1. IInv => NlinkCountsEntries
  <2> SUFFICES ASSUME IInv PROVE NlinkCountsEntries
    OBVIOUS
  <2>1. TypeOK
    <3>1. \A i \in 1..Len(inodes) : /\ inodes[i].type \in Types \cup {"unknown"}
                                     /\ inodes[i].nlink \in 0..(NlinkMod - 1)
      BY FieldTypes DEF IInv
    <3>2. \A i \in 1..Len(inodes) : \A k \in 1..Len(inodes[i].first) :
              inodes[i].first[k].ino \in 1..Len(inodes)
      <4>1. \A i \in 1..Len(inodes) : \A k \in 1..Len(inodes[i].first) :
                inodes[i].first[k].ino \in Nat \ {0} /\ inodes[i].first[k].ino <= Len(inodes)
        BY FieldTypes DEF IInv, Closed
      <4>2. Len(inodes) \in Nat
        BY DEF IInv
      <4> QED
        BY <4>1, <4>2
    <3> QED
      BY <3>1, <3>2 DEF TypeOK, IInv
  <2> QED
    BY <2>1 DEF NlinkCountsEntries, IInv, Counted
<1> QED
  BY <1>1, TreeInductive, PTL DEF Spec

\* No directory ever has two entries of one name, and no listing shows one.
THEOREM NamesUniqueHolds == Spec => []NamesUnique
<1>1. IInv => NamesUnique
  BY DEF IInv, NamesUnique, Unique, Dirs
<1> QED
  BY <1>1, TreeInductive, PTL DEF Spec

\* The directories form a tree with the root at its top, in which each has its
\* one place, although callers may give an entry of the root the name "..".
THEOREM DirectoriesFormTreeHolds == Spec => []DirectoriesFormTree
<1>1. IInv => DirectoriesFormTree
  <2> SUFFICES ASSUME IInv, NEW d \in Dirs \ {Root}
               PROVE  LET parent == tmpfs_lookup(d, "..")
                      IN  /\ tmpfs_lookup(d, ".") = d
                          /\ parent \in Dirs /\ parent < d
                          /\ \E k \in 1..Len(inodes[parent].first) :
                                 NamedEntries(d) = {<<parent, k>>}
    BY DEF DirectoriesFormTree
  <2>0. /\ inodes \in Seq(InodeRecord) /\ Closed(inodes) /\ Unique(inodes) /\ Shape(inodes)
        /\ Linked(inodes) /\ Len(inodes) \in Nat
    BY DEF IInv
  <2>a. ASSUME NEW e \in Dirs \ {Root}
        PROVE  /\ e \in 1..Len(inodes) /\ e \in Nat
               /\ 1 \in 1..Len(inodes[e].first) /\ 2 \in 1..Len(inodes[e].first)
               /\ inodes[e].first[1].name = "." /\ inodes[e].first[1].ino = e
               /\ inodes[e].first[2].name = ".."
               /\ inodes[e].first[2].ino < e
               /\ Directory(inodes, inodes[e].first[2].ino)
    <3>1. e \in 1..Len(inodes) /\ Directory(inodes, e) /\ e # Root
      BY DEF Dirs, Directory
    <3>2. Len(inodes[e].first) \in Nat
      BY <2>0, <3>1, FieldTypes
    <3>3. /\ Len(inodes[e].first) >= 2
          /\ inodes[e].first[1] = [name |-> ".", ino |-> e]
          /\ inodes[e].first[2].name = ".."
          /\ inodes[e].first[2].ino < e
          /\ Directory(inodes, inodes[e].first[2].ino)
      BY <2>0, <3>1 DEF Shape
    <3>4. inodes[e].first[1].name = "." /\ inodes[e].first[1].ino = e
      BY <3>3
    <3> QED
      BY <2>0, <3>1, <3>2, <3>3, <3>4
  <2>1. /\ \A e \in Dirs \ {Root} : e \in 1..Len(inodes)
        /\ \A e \in Dirs \ {Root} : e \in Nat
        /\ \A e \in Dirs \ {Root} : 1 \in 1..Len(inodes[e].first)
        /\ \A e \in Dirs \ {Root} : 2 \in 1..Len(inodes[e].first)
        /\ \A e \in Dirs \ {Root} : inodes[e].first[1].name = "."
        /\ \A e \in Dirs \ {Root} : inodes[e].first[1].ino = e
        /\ \A e \in Dirs \ {Root} : inodes[e].first[2].name = ".."
        /\ \A e \in Dirs \ {Root} : inodes[e].first[2].ino < e
        /\ \A e \in Dirs \ {Root} : Directory(inodes, inodes[e].first[2].ino)
    BY <2>a, Zenon
  <2>2. ASSUME NEW e \in Dirs \ {Root}
        PROVE  tmpfs_lookup(e, "..") = inodes[e].first[2].ino
    BY <2>0, <2>1, LookupFinds
  <2>3. tmpfs_lookup(d, ".") = d
    <3>1. inodes[d].first[1].name = "." /\ inodes[d].first[1].ino = d
      BY <2>1
    <3>2. d \in 1..Len(inodes) /\ 1 \in 1..Len(inodes[d].first)
      BY <2>1
    <3> QED
      BY <2>0, <3>1, <3>2, LookupFinds
  <2> DEFINE parent == tmpfs_lookup(d, "..")
  <2>4. parent \in Dirs /\ parent < d
    <3>1. parent = inodes[d].first[2].ino
      BY <2>2
    <3>2. inodes[d].first[2].ino \in Nat \ {0}
      BY <2>0, <2>1, FieldTypes
    <3>3. d \in 1..Len(inodes) /\ inodes[d].first[2].ino < d
          /\ Directory(inodes, inodes[d].first[2].ino)
      BY <2>1
    <3>4. inodes[d].first[2].ino \in 1..Len(inodes)
      BY <2>0, <3>2, <3>3
    <3> QED
      BY <3>1, <3>3, <3>4 DEF Dirs, Directory
  <2>5. d \in 1..Len(inodes) /\ d # Root /\ inodes[d].type = "dir"
    BY DEF Dirs
\* Apart from the root, the entries "." and ".." are the first two.
  <2>6. ASSUME NEW e \in 1..Len(inodes), NEW k \in 1..Len(inodes[e].first)
        PROVE  ~Dot(inodes, e, k) <=> e = Root \/ inodes[e].first[k].name \notin {".", ".."}
    <3>1. CASE e = Root
      BY <3>1 DEF Dot
    <3>2. CASE e # Root
      <4>1. inodes[e].first # <<>>
        OBVIOUS
      <4>2. e \in Dirs \ {Root}
        BY <2>0, <3>2, <4>1 DEF Shape, Directory, Dirs
      <4>3. /\ 1 \in 1..Len(inodes[e].first) /\ inodes[e].first[1].name = "."
            /\ 2 \in 1..Len(inodes[e].first) /\ inodes[e].first[2].name = ".."
        BY <2>1, <4>2
      <4>4. inodes[e].first[k].name \in {".", ".."} => k = 1 \/ k = 2
        BY <2>0, <4>3 DEF Unique
      <4>5. k \in Nat /\ k >= 1
        BY <2>0, FieldTypes
      <4>6. k <= 2 <=> k = 1 \/ k = 2
        BY <4>5
      <4> QED
        BY <3>2, <4>3, <4>4, <4>6 DEF Dot
    <3> QED
      BY <3>1, <3>2
  <2>7. PICK e \in 1..Len(inodes), k \in Nat : OnlyEntry(inodes, d, e, k)
    BY <2>0, <2>5 DEF Linked
  <2>8. /\ k \in 1..Len(inodes[e].first) /\ ~Dot(inodes, e, k) /\ inodes[e].first[k].ino = d
        /\ \A f \in 1..Len(inodes) : \A l \in 1..Len(inodes[f].first) :
               ~Dot(inodes, f, l) /\ inodes[f].first[l].ino = d => f = e /\ l = k
    BY <2>7 DEF OnlyEntry
  <2>9. e = parent
    <3>1. inodes[d].first[2].ino = e
      BY <2>0, <2>5, <2>8 DEF Shape
    <3> QED
      BY <2>2, <3>1
  <2>10. ASSUME NEW x PROVE x \in NamedEntries(d) <=> x = <<e, k>>
    <3>1. ASSUME x = <<e, k>> PROVE x \in NamedEntries(d)
      <4>1. x \in Links(inodes, d)
        BY <2>8, <3>1, LinksMembers
      <4>2. x[1] = Root \/ inodes[x[1]].first[x[2]].name \notin {".", ".."}
        BY <2>6, <2>8, <3>1
      <4> QED
        BY <4>1, <4>2 DEF NamedEntries
    <3>2. ASSUME x \in NamedEntries(d) PROVE x = <<e, k>>
      <4>1. /\ x \in Links(inodes, d)
            /\ x[1] = Root \/ inodes[x[1]].first[x[2]].name \notin {".", ".."}
        BY <3>2 DEF NamedEntries
      <4>2. PICK f \in 1..Len(inodes) : \E l \in 1..Len(inodes[f].first) :
                x = <<f, l>> /\ inodes[f].first[l].ino = d
        BY <4>1, LinksMembers
      <4>3. PICK l \in 1..Len(inodes[f].first) : x = <<f, l>> /\ inodes[f].first[l].ino = d
        BY <4>2
      <4>4. x[1] = f /\ x[2] = l
        BY <4>3
      <4>5. ~Dot(inodes, f, l)
        BY <2>6, <4>1, <4>4
      <4> QED
        BY <2>8, <4>3, <4>5
    <3> QED
      BY <3>1, <3>2
  <2>11. \E l \in 1..Len(inodes[parent].first) : NamedEntries(d) = {<<parent, l>>}
    <3>1. NamedEntries(d) = {<<e, k>>}
      BY <2>10
    <3> HIDE DEF parent
    <3> QED
      BY <2>8, <2>9, <3>1
  <2> QED
    BY <2>3, <2>4, <2>11
<1> QED
  BY <1>1, TreeInductive, PTL DEF Spec

\* No call moves, changes or removes an entry while the file system is mounted.
THEOREM EntriesKeptHolds == Spec => EntriesKept
<1> DEFINE Kept == (inodes # <<>> /\ inodes' # <<>>) =>
                       \A d \in Dirs : \A k \in 1..Len(inodes[d].first) :
                           /\ k <= Len(inodes'[d].first)
                           /\ inodes'[d].first[k] = inodes[d].first[k]
<1>1. IInv /\ [Next]_vars => [Kept]_vars
  <2> SUFFICES ASSUME IInv, [Next]_vars, inodes # <<>>, inodes' # <<>>,
                      NEW d \in Dirs, NEW k \in 1..Len(inodes[d].first)
               PROVE  k <= Len(inodes'[d].first) /\ inodes'[d].first[k] = inodes[d].first[k]
    OBVIOUS
  <2>0. /\ inodes \in Seq(InodeRecord) /\ Closed(inodes) /\ Counted(inodes)
        /\ d \in 1..Len(inodes)
    BY DEF IInv, Dirs
  <2>1. Len(inodes[d].first) \in Nat
    BY <2>0, FieldTypes
  <2>2. CASE inodes' = inodes
    BY <2>1, <2>2
  <2>3. CASE inodes' # inodes
    <3>1. PICK dir \in Dirs, name \in Names, type \in Types \cup {"fifo"} :
              tmpfs_create(dir, name, type)
      BY <2>3 DEF Next, tmpfs_mount, tmpfs_destroy, tmpfs_readdir, vars
    <3> DEFINE new   == Len(inodes) + 1
               after == IF type = "dir" THEN NewDirectory(dir, new)
                        ELSE Append(inodes, Inode(type))
    <3>2. type \in Types /\ inodes' = add_to_dir(after, dir, name, new)
      BY <2>3, <3>1 DEF tmpfs_create
    <3>3. dir \in 1..Len(inodes) /\ name \in AllNames
      BY DEF Dirs, AllNames
    <3>4. IsCreated(inodes', inodes, dir, name, type)
      BY <2>0, <3>2, <3>3, CreateEffect
    <3>5. CASE d = dir
      <4>1. inodes'[d].first = Append(inodes[d].first, [name |-> name, ino |-> new])
        BY <2>0, <3>4, <3>5 DEF IsCreated
      <4>2. inodes[d].first \in Seq(Entry)
        BY <2>0, FieldTypes
      <4> QED
        BY <2>1, <4>1, <4>2
    <3>6. CASE d # dir
      <4>1. inodes'[d].first = inodes[d].first
        BY <2>0, <3>4, <3>6 DEF IsCreated
      <4> QED
        BY <2>1, <4>1
    <3> QED
      BY <3>5, <3>6
  <2> QED
    BY <2>2, <2>3
<1> QED
  BY <1>1, TreeInductive, PTL DEF Spec, EntriesKept
=============================================================================
