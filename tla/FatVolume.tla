----------------------------- MODULE FatVolume ------------------------------
(***************************************************************************)
(* The reader of FAT disk images with which the ArceOS target samples the  *)
(* files that a program leaves (targets/tgoskits_arceos/api.py: _fat_type  *)
(* to diff_external_state).                                                *)
(*                                                                         *)
(* A volume is [kind, fat, root, dirs, data]: the kind of its table, the   *)
(* table by cluster, the entries of the root directory, and by cluster the *)
(* directory entries or the file content stored there.  An entry is        *)
(* [mark, long, short, cluster, size]; a path and a long name in fragments *)
(* are sequences.  An image that the code fails to read, for its boot      *)
(* sector or because a directory contains itself, is of kind Unreadable.   *)
(***************************************************************************)
EXTENDS Integers, Sequences, SequencesExt

Unreadable == "read_error"

\* First cluster number that means "end of chain".
Eof == [FAT12 |-> 4088, FAT16 |-> 65528, FAT32 |-> 268435448]

-----------------------------------------------------------------------------
(* The boot sector and the table                                           *)

\* _fat_type of a boot sector: [sectorBytes, perCluster, reserved, fats, rootEntries,
\* total16, total32, fatSize16, fatSize32], the numbers read from the image.
Kind(b) ==
    LET total    == IF b.total16 # 0 THEN b.total16 ELSE b.total32
        fatSize  == IF b.fatSize16 # 0 THEN b.fatSize16 ELSE b.fatSize32
        rootSize == (b.rootEntries * 32 + b.sectorBytes - 1) \div b.sectorBytes
        used     == b.reserved + b.fats * fatSize + rootSize
        clusters == IF b.perCluster = 0 THEN 0 ELSE (total - used) \div b.perCluster
    IN  CASE b.sectorBytes = 0 -> Unreadable      \* ZeroDivisionError
          [] b.sectorBytes # 0 /\ clusters < 4085 -> "FAT12"
          [] b.sectorBytes # 0 /\ clusters \in 4085 .. 65524 -> "FAT16"
          [] OTHER -> "FAT32"

Byte(bytes, i) == IF i \in DOMAIN bytes THEN bytes[i] ELSE 0

U16(bytes, i) == Byte(bytes, i) + 256 * Byte(bytes, i + 1)

\* Two entries of twelve bits share the middle one of three bytes.
U12(bytes, i, c) == IF c % 2 = 1 THEN U16(bytes, i) \div 16 ELSE U16(bytes, i) % 4096

\* _fat_entry; FAT32 has 28 bits, the upper four are masked.  bytes starts at 0.
TableEntry(bytes, c, kind) ==
    IF kind = "FAT12" THEN U12(bytes, (c * 3) \div 2, c)
    ELSE IF kind = "FAT16" THEN U16(bytes, c * 2)
    ELSE U16(bytes, c * 4) + 65536 * (U16(bytes, c * 4 + 2) % 4096)

\* _fat_chain: until a mark, a reserved number or a cluster that was seen.  Beyond the
\* image everything reads as 0.
Chain(v, start) ==
    LET next(c) == IF c \in DOMAIN v.fat THEN v.fat[c] ELSE 0
        follow[c \in Nat, seen \in SUBSET Nat] ==
            IF c \in 2 .. Eof[v.kind] - 1 /\ c \notin seen
            THEN <<c>> \o follow[next(c), seen \cup {c}]
            ELSE <<>>
    IN  follow[start, {}]

\* _fat_read_chain: what store, v.dirs or v.data, has in the clusters of the chain.
ReadChain(v, store, start) ==
    FlattenSeq([i \in 1 .. Len(Chain(v, start)) |->
        LET c == Chain(v, start)[i] IN IF c \in DOMAIN store THEN store[c] ELSE <<>>])

-----------------------------------------------------------------------------
(* sample_fat_external_state                                               *)

Entries == [mark : {"end", "deleted", "label", "long", "directory", "file"},
            long : STRING, short : STRING, cluster : Nat, size : Nat]

\* The fragments of a long name stand before the entry, the last one first.
NameOf(e, long) == IF long # <<>> THEN long ELSE <<e.short>>

Cut(content, size) == IF size < Len(content) THEN SubSeq(content, 1, size) ELSE content

NotAName == {<<".">>, <<"..">>, <<"">>}

\* walk: deleted entries and labels drop the fragments before them; nothing is read
\* after the end mark.
Walk(v) ==
    LET walk[prefix \in Seq(Seq(STRING)), entries \in Seq(Entries), long \in Seq(STRING)] ==
          IF entries = <<>> \/ entries[1].mark = "end" THEN {}
          ELSE LET e    == Head(entries)
                   path == Append(prefix, NameOf(e, long))
                   rest == walk[prefix, Tail(entries), <<>>]
               IN  CASE e.mark = "long" -> walk[prefix, Tail(entries), <<e.long>> \o long]
                     [] e.mark \in {"deleted", "label"} \/ NameOf(e, long) \in NotAName -> rest
                     [] e.mark = "directory" ->
                          walk[path, ReadChain(v, v.dirs, e.cluster), <<>>] \cup rest
                     [] OTHER ->
                          {[path |-> path, size |-> e.size,
                            content |-> Cut(ReadChain(v, v.data, e.cluster), e.size)]}
                          \cup rest
    IN  walk[<<>>, v.root, <<>>]

Sample(v) == IF v.kind = Unreadable THEN [files |-> {}, error |-> TRUE]
                               ELSE [files |-> Walk(v), error |-> FALSE]

\* diff_external_state: files that are new or have another size or content.  What was
\* deleted is not reported; without two readable states all files are.
Diff(base, now) ==
    IF base.error \/ now.error THEN now
    ELSE [now EXCEPT !.files = {f \in @ : f \notin base.files}]
=============================================================================
