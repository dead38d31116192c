------------------------------ MODULE MCArceos ------------------------------
(***************************************************************************)
(* Runners on ArceOS, and the reader of their disk images against          *)
(* reference definitions: TLC evaluates the assumptions before it checks   *)
(* the runners.                                                            *)
(***************************************************************************)
EXTENDS ArceosReplay, FatVolume

-----------------------------------------------------------------------------
(* The table                                                               *)

Numbers == {0, 1, 255, 2748, 4087, 4088, 4095}

\* A table of 12-bit entries as the file system lays it out: e[0] in the lower, e[1] in
\* the upper half of three bytes.
Packed(e) == [i \in 0 .. 5 |->
    LET low == e[2 * (i \div 3)]  high == e[2 * (i \div 3) + 1]
    IN  CASE i % 3 = 0 -> low % 256
          [] i % 3 = 1 -> low \div 256 + 16 * (high % 16)
          [] i % 3 = 2 -> high \div 16]

\* Every entry of a 12-bit table is read back, of even and odd number.
ASSUME EntriesReadBack ==
    \A e \in [0 .. 3 -> Numbers], c \in 0 .. 3 : TableEntry(Packed(e), c, "FAT12") = e[c]

\* A boot sector of a volume with that many data clusters.
BootSector(clusters) ==
    [sectorBytes |-> 512, perCluster |-> 1, reserved |-> 1, fats |-> 2, rootEntries |-> 16,
     total16 |-> 0, total32 |-> clusters + 4, fatSize16 |-> 1, fatSize32 |-> 0]

\* The kinds change at 4085 and at 65525 clusters, and no boot sector makes the reader fail
\* but one with sectors of no bytes.
ASSUME KindsByClusters ==
    /\ Kind(BootSector(4084)) = "FAT12" /\ Kind(BootSector(4085)) = "FAT16"
    /\ Kind(BootSector(65524)) = "FAT16" /\ Kind(BootSector(65525)) = "FAT32"
    /\ Kind([BootSector(70000) EXCEPT !.perCluster = 0]) = "FAT12"
    /\ Kind([BootSector(70000) EXCEPT !.sectorBytes = 0]) = Unreadable

\* Any table of a volume of four clusters, damaged ones included.
Tables == [2 .. 5 -> {0, 1, 2, 3, 4, 5, 4088}]

\* Every chain ends, repeats no cluster, follows the table, and stops only at a mark, at
\* a free or bad number or where it would start to repeat.
ASSUME ChainsEnd ==
    \A fat \in Tables, start \in 0 .. 5 :
        LET ch   == Chain([kind |-> "FAT12", fat |-> fat], start)
            last == fat[ch[Len(ch)]]
        IN  /\ \A i, j \in DOMAIN ch : ch[i] = ch[j] => i = j
            /\ \A i \in 2 .. Len(ch) : ch[i] = fat[ch[i - 1]]
            /\ (ch = <<>>) = (start < 2)
            /\ ch # <<>> => last \notin 2 .. 5 \/ \E i \in DOMAIN ch : ch[i] = last

-----------------------------------------------------------------------------
(* The tree                                                                *)

Entry(mark, long, short, cluster, size) ==
    [mark |-> mark, long |-> long, short |-> short, cluster |-> cluster, size |-> size]

\* A file system's directory: its own entries, then per child what stood there before,
\* the fragments of a long name, and the entry; after the end, what was there before.
DirEntries(children, junk, cluster) ==
    <<Entry("directory", "", ".", cluster, 0), Entry("label", "", "VOL", 0, 0)>>
    \o FlattenSeq([i \in 1 .. Len(children) |->
         (IF junk THEN <<Entry("long", "gone", "", 0, 0), Entry("deleted", "", "GONE", 5, 1)>>
                  ELSE <<>>)
         \o Reverse([k \in 1 .. Len(children[i].name) - 1 |->
                       Entry("long", children[i].name[k], "", 0, 0)])
         \o <<Entry(children[i].mark, "", children[i].name[Len(children[i].name)],
                    children[i].cluster, children[i].size)>>])
    \o (IF junk THEN <<Entry("end", "", "", 0, 0), Entry("file", "", "STALE", 5, 1)>> ELSE <<>>)

\* Files of two blocks, by cluster, of which the size may cut off one; a name is the
\* fragments of its long name and its short one.
Child(mark, name, cluster, size) ==
    [mark |-> mark, name |-> name, cluster |-> cluster, size |-> size]

LongOf(name) == IF Len(name) > 1 THEN SubSeq(name, 1, Len(name) - 1) ELSE name

Names == {<<"F">>, <<"lo", "LO~1">>, <<"lo", "ng", "LONG~1">>}

\* A file in the root, a directory beside it with a file in it; the chain of the first
\* file goes on in cluster 3 if there are two blocks.
Volume(top, sub, inner, size, junk, two) ==
    [kind |-> "FAT12",
     fat  |-> [c \in 2 .. 5 |-> IF c = 2 /\ two THEN 3 ELSE 4088],
     root |-> DirEntries(<<Child("file", top, 2, size), Child("directory", sub, 4, 0)>>, junk, 0),
     dirs |-> [c \in {4} |-> DirEntries(<<Child("file", inner, 5, 1)>>, junk, 4)],
     data |-> [c \in {2, 3, 5} |-> CASE c = 2 -> <<"a", "b">>
                                     [] c = 3 -> <<"c", "d">>
                                     [] c = 5 -> <<"x">>]]

\* The reader finds exactly the files of the tree, with the names, sizes and contents that
\* they have, whatever was deleted, labels, fragments and stale entries notwithstanding.
ASSUME TreesReadBack ==
    \A top, sub, inner \in Names, size \in 0 .. 4, junk, two \in BOOLEAN :
        Sample(Volume(top, sub, inner, size, junk, two)) =
            [error |-> FALSE,
             files |-> {[path |-> <<LongOf(top)>>, size |-> size,
                         content |-> Cut(IF two THEN <<"a", "b", "c", "d">> ELSE <<"a", "b">>, size)],
                        [path |-> <<LongOf(sub), LongOf(inner)>>, size |-> 1,
                         content |-> <<"x">>]}]

\* The difference of two states names every file that is new or changed and no other, and
\* cannot tell a deletion from nothing.
ASSUME DifferencesAreChanges ==
    \A base, now \in SUBSET [path : {"a", "b"}, size : {1}, content : {"x", "y"}] :
        Diff([files |-> base, error |-> FALSE], [files |-> now, error |-> FALSE]).files = {}
            <=> now \subseteq base
=============================================================================
