------------------------- MODULE ArceosReplay_proofs -------------------------
(***************************************************************************)
(* Proofs about ArceosReplay, for any number of runners and kills: what    *)
(* becomes of the checkout's configuration when it is linked into all work *)
(* trees, and what a result that is ok rests on.  At the end, the table of *)
(* the disk images that a run leaves.                                      *)
(***************************************************************************)
EXTENDS ArceosReplay, FatVolume, TLAPS

Before == {"start", "copy", "image", "config", "render", "write", "defconfig"}

\* r's private path names the checkout's file while others have theirs in place.
Shares(r) == path[r] = "repo" /\ overlap

-----------------------------------------------------------------------------
(* The invariant.                                                          *)

\* A runner: what it has built with, and that nothing has gone wrong so far.
OwnInv ==
    \A r \in Runners :
       /\ pc[r] \in {"start", "copy"} => path[r] = r
       /\ pc[r] \notin {"start", "ended", "killed"} => result[r] # "ok"
       /\ pc[r] \in Before \cup {"run", "outputs"} => error[r] = "none"
       /\ pc[r] \in Before => built[r] = {}
       /\ pc[r] \in {"defconfig", "run"} => Config(r) = "managed" \/ Shares(r)
       /\ pc[r] \in {"run", "outputs"} => built[r] = {"managed"} \/ Shares(r)
       /\ pc[r] \in {"restore", "restoring"} /\ error[r] = "none" =>
             built[r] = {"managed"} \/ Shares(r)

\* The checkout: nobody links to nothing, nobody gets past the user's file, and while
\* runs neither overlap nor are killed, the one that has changed the file has yet to
\* restore it, and knows what it was.
RepoInv ==
    /\ ~linked => file["repo"] = original /\ \A r \in Runners : path[r] = r
    /\ original = "absent" => file["repo"] = "absent" /\ \A r \in Runners : path[r] = r
    /\ original = "user" => /\ file["repo"] = "user"
                            /\ \A r \in Runners : path[r] = "repo" => pc[r] \notin Section
    /\ ~overlap => \A q, r \in Runners : pc[q] \in Section /\ pc[r] \in Section => q = r
    /\ ~overlap /\ kills = 0 =>
          /\ \A r \in Runners : pc[r] \in Section /\ path[r] = "repo" => previous[r] = original
          /\ \A r \in Runners : pc[r] = "render" => file["repo"] = original
          /\ file["repo"] # original => \E r \in Runners : pc[r] \in Section /\ path[r] = "repo"

IInv == TypeOK /\ OwnInv /\ RepoInv /\ OkIsEarned

-----------------------------------------------------------------------------
\* Names of private files are not the checkout's.
LEMMA PathsDiffer ==
    ASSUME NEW r \in Runners, TypeOK
    PROVE  /\ r # "repo" /\ r \in Files /\ "repo" \in Files /\ path[r] \in Files
           /\ path[r] \in {r, "repo"} /\ kills \in Nat
  BY ArceosAssumption DEF TypeOK, Files

LEMMA InitIInv == Init => IInv
<1> SUFFICES ASSUME Init PROVE IInv
  OBVIOUS
<1>1. TypeOK
  <2>1. linked \in BOOLEAN /\ overlap \in BOOLEAN
    BY Zenon DEF Init
  <2>2. QED
    BY <2>1, ArceosAssumption DEF Init, TypeOK, Files, Contents, Section
<1>2. OwnInv
  BY DEF Init, OwnInv, Before
<1>3. RepoInv
  BY DEF Init, RepoInv, Files, Section
<1>4. OkIsEarned
  BY DEF Init, OkIsEarned
<1>5. QED
  BY <1>1, <1>2, <1>3, <1>4 DEF IInv

LEMMA TypePreserved == IInv /\ [Next]_vars => TypeOK'
<1> SUFFICES ASSUME IInv, [Next]_vars PROVE TypeOK'
  OBVIOUS
<1> USE DEF IInv, TypeOK, Goto, Raise, InfraError, PutConfig, Config, fixed, Section, Contents
<1>1. CASE UNCHANGED vars
  BY <1>1 DEF vars
<1>2. ASSUME NEW r \in Runners, Runner(r) \/ Kill(r) PROVE TypeOK'
  <2>0. /\ r \in Files /\ "repo" \in Files /\ path[r] \in Files /\ kills \in Nat
        /\ file[path[r]] \in Contents /\ file["repo"] \in Contents
    BY PathsDiffer
  <2>1. CASE Start(r) \/ MakeImage(r) \/ Main(r)
    BY <2>1 DEF Start, ResultAtStart, MakeImage, Main
  <2>2. CASE CopyTree(r)
    BY <2>0, <2>2 DEF CopyTree
  <2>3. CASE ReadConfig(r)
    <3>1. overlap' \in BOOLEAN
      BY <2>3 DEF ReadConfig
    <3>2. QED
      BY <2>0, <2>3, <3>1 DEF ReadConfig, MayReplace
  <2>4. CASE RenderConfig(r) \/ WriteConfig(r)
    BY <2>0, <2>4 DEF RenderConfig, WriteConfig
  <2>5. CASE BeginRestore(r) \/ EndRestore(r)
    BY <2>0, <2>5 DEF BeginRestore, EndRestore, Restored
  <2>6. CASE MakeFails(r) \/ MakeEnds(r)
    BY <2>0, <2>6 DEF MakeFails, MakeEnds, SeesConfig
  <2>7. ASSUME NEW c \in Captured, TimesOut(r, c) PROVE TypeOK'
    <3>1. /\ pc[r] \in {"defconfig", "run"} /\ pc' = [pc EXCEPT ![r] = "restore"]
          /\ built' = [built EXCEPT ![r] = @ \cup {Config(r)}]
          /\ \/ error' = [error EXCEPT ![r] = "RunnerError"]
             \/ error' = [error EXCEPT ![r] = "TypeError"]
          /\ result' = result \/ result' = [result EXCEPT ![r] = "infra_error"]
          /\ UNCHANGED <<fixed, file, path, previous, outputs, overlap, kills>>
      BY Zenon, <2>7 DEF TimesOut, SeesConfig
    <3>2. late' \in [Runners -> BOOLEAN]
      BY <2>7 DEF TimesOut
    <3>3. built' \in [Runners -> SUBSET Contents]
      BY <2>0, <3>1
    <3>4. /\ error' \in [Runners -> {"none", "RunnerError", "TypeError", "OSError", "ValueError"}]
          /\ result' \in [Runners -> {"none", "ok", "infra_error"}]
      BY <3>1
    <3>5. pc' \in [Runners -> {"start", "copy", "image", "config", "outputs", "main", "ended",
                               "killed"} \cup Section]
      BY <3>1
    <3>6. QED
      BY <3>1, <3>2, <3>3, <3>4, <3>5
  <2>8. CASE WriteOutputs(r)
    BY <2>8 DEF WriteOutputs, Status
  <2>9. CASE Kill(r)
    BY <2>0, <2>9, ArceosAssumption DEF Kill
  <2>10. QED
    BY <1>2, <2>1, <2>2, <2>3, <2>4, <2>5, <2>6, <2>7, <2>8, <2>9 DEF Runner
<1>3. QED
  BY <1>1, <1>2 DEF Next

LEMMA OwnPreserved == IInv /\ [Next]_vars => OwnInv' /\ OkIsEarned'
<1> SUFFICES ASSUME IInv, [Next]_vars PROVE OwnInv' /\ OkIsEarned'
  OBVIOUS
<1> USE DEF IInv, TypeOK, OwnInv, OkIsEarned, Goto, Raise, InfraError, PutConfig, Config, fixed,
            Before, Shares
<1>1. CASE UNCHANGED vars
  BY <1>1 DEF vars
<1>2. ASSUME NEW r \in Runners, Runner(r) \/ Kill(r) PROVE OwnInv' /\ OkIsEarned'
  <2>0. \A q \in Runners : /\ q # "repo" /\ q \in Files /\ "repo" \in Files /\ path[q] \in Files
                           /\ path[q] \in {q, "repo"} /\ kills \in Nat
    BY PathsDiffer
  <2>1. CASE Start(r) \/ MakeImage(r) \/ Main(r)
    BY <2>1 DEF Start, ResultAtStart, MakeImage, Main
  <2>2. CASE CopyTree(r)
    BY <2>0, <2>2 DEF CopyTree
  <2>3. CASE ReadConfig(r)
    BY <2>0, <2>3 DEF ReadConfig
  <2>4. CASE RenderConfig(r) \/ WriteConfig(r)
    <3>1. pc[r] \in Section /\ pc[r] \notin {"defconfig", "run"}
      BY <2>4 DEF RenderConfig, WriteConfig, Section
    <3>2. \A q \in Runners : pc[q] \in {"defconfig", "run"} /\ path[q] = path[r] => Shares(q)
      BY <2>0, <3>1 DEF RepoInv, Section
    <3>3. QED
      BY <2>0, <2>4, <3>1, <3>2 DEF RenderConfig, WriteConfig
  <2>5. CASE BeginRestore(r) \/ EndRestore(r)
    <3>1. pc[r] \in Section /\ pc[r] \notin {"defconfig", "run"}
      BY <2>5 DEF BeginRestore, EndRestore, Section
    <3>2. \A q \in Runners : pc[q] \in {"defconfig", "run"} /\ path[q] = path[r] => Shares(q)
      BY <2>0, <3>1 DEF RepoInv, Section
    <3>3. QED
      BY <2>0, <2>5, <3>1, <3>2 DEF BeginRestore, EndRestore
  <2>6. CASE MakeFails(r)
    BY <2>6 DEF MakeFails, SeesConfig
  <2>7. CASE MakeEnds(r)
    BY <2>7 DEF MakeEnds, SeesConfig
  <2>8. ASSUME NEW c \in Captured, TimesOut(r, c) PROVE OwnInv' /\ OkIsEarned'
    <3>1. /\ pc[r] \in {"defconfig", "run"} /\ pc' = [pc EXCEPT ![r] = "restore"]
          /\ built' = [built EXCEPT ![r] = @ \cup {Config(r)}]
          /\ \/ error' = [error EXCEPT ![r] = "RunnerError"]
             \/ error' = [error EXCEPT ![r] = "TypeError"]
          /\ result' = result \/ result' = [result EXCEPT ![r] = "infra_error"]
          /\ UNCHANGED <<fixed, file, path, previous, outputs, overlap, kills>>
      BY Zenon, <2>8 DEF TimesOut, SeesConfig
    <3>2. QED
      BY <3>1
  <2>9. CASE WriteOutputs(r)
    BY <2>9 DEF WriteOutputs, Status
  <2>10. CASE Kill(r)
    BY <2>10 DEF Kill
  <2>11. QED
    BY <1>2, <2>1, <2>2, <2>3, <2>4, <2>5, <2>6, <2>7, <2>8, <2>9, <2>10 DEF Runner
<1>3. QED
  BY <1>1, <1>2 DEF Next

LEMMA RepoPreserved == IInv /\ [Next]_vars => RepoInv'
<1> SUFFICES ASSUME IInv, [Next]_vars PROVE RepoInv'
  OBVIOUS
<1> USE DEF IInv, TypeOK, RepoInv, Goto, Raise, InfraError, PutConfig, Config, fixed, Section
<1>1. CASE UNCHANGED vars
  BY <1>1 DEF vars
<1>2. ASSUME NEW r \in Runners, Runner(r) \/ Kill(r) PROVE RepoInv'
  <2>0. \A q \in Runners : /\ q # "repo" /\ q \in Files /\ "repo" \in Files /\ path[q] \in Files
                           /\ path[q] \in {q, "repo"} /\ kills \in Nat
    BY PathsDiffer
  <2>1. CASE Start(r) \/ MakeImage(r) \/ Main(r)
    BY <2>1 DEF Start, MakeImage, Main
  <2>2. CASE CopyTree(r)
    BY <2>0, <2>2 DEF CopyTree, OwnInv
  <2>3. CASE ReadConfig(r)
    <3>1. CASE ~MayReplace(Config(r))
      BY <2>0, <2>3, <3>1 DEF ReadConfig
    <3>2. CASE MayReplace(Config(r))
      <4>1. /\ pc[r] = "config" /\ pc' = [pc EXCEPT ![r] = "render"]
            /\ previous' = [previous EXCEPT ![r] = Config(r)]
            /\ UNCHANGED <<fixed, file, path, kills>>
        BY <2>3, <3>2 DEF ReadConfig
      <4>2. ~overlap' => ~overlap /\ \A q \in Runners : pc[q] \notin Section
        BY <2>3, <3>2 DEF ReadConfig
      <4>3. Config(r) \in {"absent", "old", "managed"}
        BY <3>2 DEF MayReplace
      <4>4. QED
        BY <2>0, <4>1, <4>2, <4>3
    <3>3. QED
      BY <3>1, <3>2
  <2>4. CASE RenderConfig(r)
    BY <2>0, <2>4 DEF RenderConfig
  <2>5. CASE WriteConfig(r)
    BY <2>0, <2>5 DEF WriteConfig
  <2>6. CASE BeginRestore(r)
    BY <2>0, <2>6 DEF BeginRestore, Restored
  <2>7. CASE EndRestore(r)
    BY <2>0, <2>7 DEF EndRestore, Restored
  <2>8. CASE MakeFails(r) \/ MakeEnds(r)
    BY <2>8 DEF MakeFails, MakeEnds
  <2>9. ASSUME NEW c \in Captured, TimesOut(r, c) PROVE RepoInv'
    <3>1. /\ pc[r] \in {"defconfig", "run"} /\ pc' = [pc EXCEPT ![r] = "restore"]
          /\ built' = [built EXCEPT ![r] = @ \cup {Config(r)}]
          /\ \/ error' = [error EXCEPT ![r] = "RunnerError"]
             \/ error' = [error EXCEPT ![r] = "TypeError"]
          /\ result' = result \/ result' = [result EXCEPT ![r] = "infra_error"]
          /\ UNCHANGED <<fixed, file, path, previous, outputs, overlap, kills>>
      BY Zenon, <2>9 DEF TimesOut, SeesConfig
    <3>2. QED
      BY <3>1
  <2>10. CASE WriteOutputs(r)
    BY <2>10 DEF WriteOutputs
  <2>11. CASE Kill(r)
    BY <2>0, <2>11 DEF Kill
  <2>12. QED
    BY <1>2, <2>1, <2>2, <2>3, <2>4, <2>5, <2>6, <2>7, <2>8, <2>9, <2>10, <2>11 DEF Runner
<1>3. QED
  BY <1>1, <1>2 DEF Next

-----------------------------------------------------------------------------
\* Every step of run_case, main and the host's kill preserves what its successor relies on.
THEOREM Invariance == Spec => []IInv
<1>1. Init => IInv
  BY InitIInv
<1>2. IInv /\ [Next]_vars => IInv'
  BY TypePreserved, OwnPreserved, RepoPreserved DEF IInv
<1>3. QED
  BY <1>1, <1>2, PTL DEF Spec

\* Files, results and exceptions of any number of runners keep their types.
THEOREM TypeCorrect == Spec => []TypeOK
<1>1. IInv => TypeOK
  BY DEF IInv
<1>2. QED
  BY <1>1, Invariance, PTL

\* The user's configuration is never written to, and a managed one of the checkout is put
\* back, unless runs that share it by links overlap or are killed.
THEOREM CheckoutIsKept == Spec => []CheckoutKept
<1>1. IInv => CheckoutKept
  BY DEF IInv, RepoInv, CheckoutKept, TypeOK
<1>2. QED
  BY <1>1, Invariance, PTL

\* A result that is ok rests on a trace, a state, and a build with the managed
\* configuration alone, unless runs that share the file overlapped.
THEOREM OkEarned == Spec => []OkIsEarned
<1>1. IInv => OkIsEarned
  BY DEF IInv
<1>2. QED
  BY <1>1, Invariance, PTL

-----------------------------------------------------------------------------
(* The table of a FAT volume.                                              *)

\* A number of two bytes.
LEMMA TwoBytes ==
    ASSUME NEW bytes, NEW p \in Nat, NEW a \in Int, NEW b \in Int,
           p \in DOMAIN bytes, p + 1 \in DOMAIN bytes, bytes[p] = a, bytes[p + 1] = b
    PROVE  U16(bytes, p) = a + 256 * b
  BY SMT DEF U16, Byte

\* The numbers that two clusters have in a table of twelve bits are read back, although they
\* share a byte: whatever the numbers are, and wherever in the table they stand.
THEOREM TwelveBitsReadBack ==
    ASSUME NEW bytes, NEW n \in Nat, NEW low \in 0 .. 4095, NEW high \in 0 .. 4095,
           3 * n \in DOMAIN bytes, 3 * n + 1 \in DOMAIN bytes, 3 * n + 2 \in DOMAIN bytes,
           bytes[3 * n] = low % 256,
           bytes[3 * n + 1] = (low \div 256) + 16 * (high % 16),
           bytes[3 * n + 2] = high \div 16
    PROVE  /\ TableEntry(bytes, 2 * n, "FAT12") = low
           /\ TableEntry(bytes, 2 * n + 1, "FAT12") = high
<1> DEFINE p == 3 * n
           q == 3 * n + 1
           c == 2 * n
           d == 2 * n + 1
<1>1. /\ (c * 3) \div 2 = p /\ c % 2 = 0
      /\ (d * 3) \div 2 = q /\ d % 2 = 1
      /\ p \in Nat /\ q \in Nat /\ q = p + 1 /\ q + 1 = 3 * n + 2
  BY SMT
<1>2. U16(bytes, p) = (low % 256) + 256 * ((low \div 256) + 16 * (high % 16))
  <2>1. low % 256 \in Int /\ (low \div 256) + 16 * (high % 16) \in Int
    BY SMT
  <2> QED
    BY <1>1, <2>1, TwoBytes, SMT
<1>3. U16(bytes, q) = (low \div 256) + 16 * (high % 16) + 256 * (high \div 16)
  <2>1. (low \div 256) + 16 * (high % 16) \in Int /\ high \div 16 \in Int
    BY SMT
  <2> QED
    BY <1>1, <2>1, TwoBytes, SMT
<1>4. U16(bytes, p) % 4096 = low
  <2> DEFINE x == low % 256
             y == low \div 256
             z == high % 16
  <2>1. x \in Nat /\ y \in Nat /\ z \in Nat /\ low = x + 256 * y
    BY SMT
  <2>2. U16(bytes, p) = low + 4096 * z
    <3> HIDE DEF x, y, z, p
    <3>1. U16(bytes, p) = x + 256 * (y + 16 * z)
      BY <1>2, SMT DEF x, y, z
    <3> QED
      BY <2>1, <3>1, SMT
  <2>3. (low + 4096 * z) % 4096 = low
    <3> HIDE DEF z
    <3> QED
      BY <2>1, SMT
  <2> QED
    BY <2>2, <2>3, SMT
<1>5. U16(bytes, q) \div 16 = high
  BY <1>3, SMT
<1> HIDE DEF p, q, c, d
<1>6. TableEntry(bytes, c, "FAT12") = low /\ TableEntry(bytes, d, "FAT12") = high
  BY <1>1, <1>4, <1>5, SMT DEF TableEntry, U12
<1> QED
  BY <1>6, SMT DEF c, d

\* A number of 28 bits is read back, whatever the upper four bits of its place hold.
THEOREM TwentyEightBitsReadBack ==
    ASSUME NEW bytes, NEW n \in Nat, NEW p, p = n * 4,
           NEW a \in 0 .. 255, NEW b \in 0 .. 255, NEW c \in 0 .. 255, NEW d \in 0 .. 15,
           NEW upper \in 0 .. 15,
           p \in DOMAIN bytes, p + 1 \in DOMAIN bytes,
           p + 2 \in DOMAIN bytes, p + 3 \in DOMAIN bytes,
           bytes[p] = a, bytes[p + 1] = b, bytes[p + 2] = c, bytes[p + 3] = d + 16 * upper
    PROVE  TableEntry(bytes, n, "FAT32") = a + 256 * b + 65536 * (c + 256 * d)
<1>1. p \in Nat /\ p + 2 \in Nat /\ p + 2 + 1 = p + 3
  BY SMT
<1>2. U16(bytes, p) = a + 256 * b
  BY <1>1, TwoBytes, SMT
<1>3. U16(bytes, p + 2) = c + 256 * (d + 16 * upper)
  <2>1. d + 16 * upper \in Int
    BY SMT
  <2> QED
    BY <1>1, <2>1, TwoBytes, SMT
<1>4. U16(bytes, p + 2) % 4096 = c + 256 * d
  <2> DEFINE y == c + 256 * d
  <2>1. y \in 0 .. 4095 /\ c + 256 * (d + 16 * upper) = y + 4096 * upper
    BY SMT
  <2> HIDE DEF y
  <2>2. (y + 4096 * upper) % 4096 = y
    BY <2>1, SMT
  <2> QED
    BY <1>3, <2>1, <2>2, SMT DEF y
<1>5. TableEntry(bytes, n, "FAT32") = U16(bytes, p) + 65536 * (U16(bytes, p + 2) % 4096)
  BY SMT DEF TableEntry
<1> QED
  BY <1>2, <1>4, <1>5, SMT
=============================================================================
