------------------------- MODULE AsterinasRun_proofs -------------------------
(***************************************************************************)
(* Proofs about AsterinasRun and the files of PackageBundle, for any       *)
(* number of runners, of kills and of moves of the checkout: which bundle  *)
(* boots, what its result is called, and what the result says.             *)
(***************************************************************************)
EXTENDS AsterinasRun, TLAPS

\* Where a process is that holds the lock on the bundle, and where a runner is that has
\* been served a bundle and has not booted it.
Locked == {"home", "copying", "build", "building", "stamp"}
AtVm == {"label", "boot"}

-----------------------------------------------------------------------------
(* The invariant.                                                          *)

\* Nobody changes the bundle without the lock, and a stamp vouches for a bundle on which
\* nobody works.  Runners come after the warm-up.
LockInv ==
    /\ \A p \in Procs : bundleLock = p <=> pc[p] \in Locked
    /\ \A p \in Procs : pc[p] \in Locked => ~stamp
    /\ stamp => container = Nothing
    /\ \A p \in Procs : pc[p] = "stamp" => container = Nothing
    /\ pc[Scheduler] # "ended" => \A r \in Runners : pc[r] = "start"
    /\ pc[Scheduler] \in {"ended"} \cup Locked => expected[Scheduler] # Nothing
    /\ \A r \in Runners : pc[r] \in {"packing", "bundle", "label", "boot", "ended"} \cup Locked =>
          initramfs # "absent"

\* The warm-up's bundle is replaced before anybody is served.
MinimalInv ==
    /\ container.image = "minimal" => pc[Scheduler] = "building"
    /\ \A r \in Runners : pc[r] \in {"building", "stamp"} \cup AtVm => bundle.image # "minimal"
    /\ stamp /\ bundle.image = "minimal" => meta.image = "minimal"
    /\ pc[Scheduler] = "stamp" => meta.image = "minimal"
    /\ pc[Scheduler] \in Locked => expected[Scheduler].image = "minimal"
    /\ \A r \in Runners : booted[r].image # "minimal"

\* With an initramfs that is there from the start, a bundle is what its builder wanted; as
\* long as the checkout stays, all runners want the same, and the first bundle stays.
PackedInv ==
    /\ ~firstUse =>
          /\ initramfs = "complete"
          /\ \A p \in Procs : pc[p] = "building" =>
                (IF container = Nothing THEN bundle ELSE container).image = Wanted(p)
          /\ \A p \in Procs : pc[p] \in Locked => expected[p].image = Wanted(p)
          /\ \A p \in Procs : pc[p] = "stamp" => bundle.image = Wanted(p) /\ meta = expected[p]
          /\ stamp => bundle.image = meta.image
    /\ ~firstUse /\ ~moved =>
          \A r \in Runners :
             /\ pc[r] \in Locked => expected[r].revision = head
             /\ pc[r] \in AtVm =>
                   /\ stamp /\ bundle.image = "complete"
                   /\ meta.image = "complete" /\ meta.revision = head
    /\ PackedOnceBootsOwnPackage

\* Revisions only grow.  What was built for the revision that is still checked out was
\* built from it.
RevisionInv ==
    /\ meta.revision <= head
    /\ \A p \in Procs : expected[p].revision <= head
    /\ \A p \in Procs : pc[p] = "building" =>
          \/ expected[p].revision < head
          \/ (IF container = Nothing THEN bundle ELSE container).revision = head
    /\ \A p \in Procs : pc[p] = "stamp" =>
          meta = expected[p] /\ (expected[p].revision < head \/ bundle.revision = head)
    /\ stamp => meta.revision < head \/ bundle.revision = head
    /\ \A r \in Runners : pc[r] \in AtVm /\ expected[r].revision = head =>
          /\ container # Nothing => container.revision = head
          /\ bundle.image \in Images => bundle.revision = head
    /\ \A r \in Runners : pc[r] \in {"boot", "ended"} =>
          expected[r].revision <= label[r] /\ label[r] <= head
    /\ \A r \in Runners : booted[r].image \in Images => pc[r] = "ended"
    /\ LabelNamesTheKernel

HomeInv ==
    /\ home = "partial" => kills > 0 \/ \E q \in Procs : pc[q] \in {"raised", "copying"}
    /\ \A p \in Procs : pc[p] = "build" => home # "absent"

\* What a runner has seen of its VM.
ConsoleInv ==
    \A r \in Runners :
       /\ pc[r] # "ended" => phase[r] = "waiting"
       /\ phase[r] = "waiting" =>
             vm[r] = "off" /\ console[r] = "silent" /\ ~panicked[r] /\ report[r] = "none"
       /\ phase[r] \in {"watch", "check"} => vm[r] \in {"up", "down"}
       /\ phase[r] = "finish" => vm[r] = "down" \/ (vm[r] = "stopped" /\ console[r] = "state")
       /\ phase[r] = "late" => vm[r] = "stopped"
       /\ report[r] # "none" => phase[r] = "over"
       /\ console[r] # "silent" => booted[r].image = "complete"
       /\ report[r] = "exited" =>
             console[r] # "silent" /\ (vm[r] = "stopped" => console[r] = "state")
       /\ report[r] = "crash" => panicked[r]
       /\ report[r] = "infra_error" => vm[r] = "down" /\ ~panicked[r] /\ console[r] = "silent"
       /\ report[r] = "timeout" => vm[r] = "stopped"

IInv ==
    /\ RunTypeOK /\ LockInv /\ MinimalInv
    /\ PackedInv /\ RevisionInv /\ HomeInv /\ ConsoleInv

-----------------------------------------------------------------------------
(* Lemmas.                                                                 *)

\* Sections come in their order, so that the last one says which are there.
LEMMA HasByLast ==
    ASSUME NEW r \in Runners, RunTypeOK
    PROVE  /\ console[r] \in {"silent", "exit", "state"}
           /\ Has(r, "exit") <=> console[r] # "silent"
           /\ Has(r, "state") <=> console[r] = "state"
<1>1. /\ Sections[1] = "silent" /\ Sections[2] = "exit" /\ Sections[3] = "state"
      /\ 1 .. 3 = {1, 2, 3}
  BY DEF Sections
<1>2. console[r] \in {Sections[i] : i \in 1 .. 3}
  BY DEF RunTypeOK
<1>3. console[r] \in {"silent", "exit", "state"}
  BY <1>1, <1>2
<1>4. QED
  BY <1>1, <1>3 DEF Has

\* Nothing is none of the images, and has revision 0.
LEMMA NothingIsNone ==
    /\ Nothing.image = "none" /\ Nothing.revision = 0
    /\ \A d \in Described : d # Nothing /\ d.image \in Images /\ d.revision \in Revisions
  BY DEF Nothing, Described, Images

-----------------------------------------------------------------------------
(* Initial states.                                                         *)

LEMMA InitIInv == RunInit => IInv
<1> SUFFICES ASSUME Init, RunInit PROVE IInv
  BY DEF RunInit
<1> USE BundleAssumption, NothingIsNone
<1>1. /\ head = 0 /\ bundle.revision = 0 /\ meta.revision = 0 /\ 0 \in Revisions
      /\ bundle.image \in {"none", "minimal", "complete"} /\ meta.image = bundle.image
      /\ bundle \in Described \cup {Nothing} /\ meta \in Described \cup {Nothing}
  BY DEF Init, Revisions, Mixed, Described, Images
<1>2. TypeOK
  <2>1. bundle \in Described \cup {Nothing, [image |-> "partial", revision |-> 0]}
    BY <1>1
  <2>2. /\ pc \in [Procs -> {"start", "pack", "packing", "bundle", "home", "copying", "build",
                            "building", "stamp", "label", "boot"} \cup Over]
        /\ expected \in [Procs -> Described \cup {Nothing}]
        /\ label \in [Runners -> 0 .. MaxMoves]
        /\ booted \in [Runners -> Described \cup {Nothing, [image |-> "partial", revision |-> 0]}]
    BY DEF Init
  <2>3. /\ initramfs \in {"absent", "complete"} /\ home \in {"absent", "whole"}
        /\ packLock = Nobody /\ bundleLock = Nobody /\ container = Nothing
        /\ head \in 0 .. MaxMoves /\ kills \in 0 .. MaxKills
    BY DEF Init
  <2>4. firstUse \in BOOLEAN /\ moved \in BOOLEAN /\ stamp \in BOOLEAN
    BY Zenon DEF Init
  <2>5. QED
    BY <1>1, <2>1, <2>2, <2>3, <2>4 DEF TypeOK
<1>3. RunTypeOK
  <2>1. "silent" \in {Sections[i] : i \in 1 .. 3}
    BY DEF Sections
  <2>2. QED
    BY <1>2, <2>1 DEF RunInit, RunTypeOK
<1>4. LockInv
  BY DEF Init, LockInv, Locked, Procs
<1>5. MinimalInv
  BY <1>1 DEF Init, MinimalInv, Locked, AtVm, Procs
<1>6. PackedInv
  BY <1>1 DEF Init, PackedInv, Locked, AtVm, Procs, PackedOnceBootsOwnPackage, BootsOwnPackage
<1>7. RevisionInv
  BY <1>1 DEF Init, RevisionInv, AtVm, Procs, LabelNamesTheKernel, Images
<1>8. HomeInv
  BY DEF Init, HomeInv, Procs
<1>9. ConsoleInv
  BY DEF Init, RunInit, ConsoleInv, Procs
<1>10. QED
  BY <1>3, <1>4, <1>5, <1>6, <1>7, <1>8, <1>9 DEF IInv

-----------------------------------------------------------------------------
(* Steps.                                                                  *)

files == <<checkout, home, packed, built, bundleLock, expected, label, booted, pc>>

Watches(r) ==
    \/ Look(r) \/ Check(r) \/ Overdue(r) \/ Finish(r) \/ Late(r)
    \/ Prints(r) \/ Panics(r) \/ EndsByItself(r) \/ KillWatcher(r)

\* Neither a runner at its VM nor its guest touches the shared files.
LEMMA WatchingLeavesFiles ==
    ASSUME NEW r \in Runners, RunTypeOK, Watches(r)
    PROVE  UNCHANGED files /\ kills' \in 0 .. MaxKills /\ kills <= kills'
<1> USE DEF files, vars, checkout, packed, built
<1>1. kills \in Nat /\ MaxKills \in Nat /\ kills \in 0 .. MaxKills
  BY BundleAssumption DEF RunTypeOK, TypeOK
<1>2. CASE KillWatcher(r)
  BY <1>1, <1>2 DEF KillWatcher
<1>3. CASE ~KillWatcher(r)
  <2>1. UNCHANGED vars
    BY <1>3 DEF Watches, Look, Check, Overdue, Finish, Late, Prints, Panics, EndsByItself
  <2>2. QED
    BY <1>1, <2>1
<1>4. QED
  BY <1>2, <1>3

\* A synchronisation moves the checkout by one at most, and what is being built with it.
LEMMA SyncMoves ==
    ASSUME RunTypeOK, Sync
    PROVE  /\ head' \in 0 .. MaxMoves /\ head' \in {head, head + 1} /\ moved' \in BOOLEAN
           /\ MixedIfMoved(container) \in Described \cup {Nothing}
           /\ MixedIfMoved(container) = Nothing <=> container = Nothing
           /\ MixedIfMoved(container).image = container.image
           /\ head' = head => MixedIfMoved(container) = container
           /\ ~moved' => ~moved /\ (head' = head \/ expected[Scheduler] = Nothing)
<1>1. head' \in 0 .. MaxMoves /\ head' \in {head, head + 1}
  BY DEF Sync
<1>2. moved' \in BOOLEAN /\ (~moved' => ~moved /\ (head' = head \/ expected[Scheduler] = Nothing))
  BY DEF Sync, RunTypeOK, TypeOK
<1>3. container \in Described \cup {Nothing}
  BY DEF RunTypeOK, TypeOK
<1>4. Mixed \in Revisions
  BY BundleAssumption DEF Mixed, Revisions
<1>5. CASE head' # head /\ container # Nothing
  <2>1. MixedIfMoved(container) = [container EXCEPT !.revision = Mixed]
    BY <1>5 DEF MixedIfMoved
  <2>2. container \in Described
    BY <1>3, <1>5
  <2>3. MixedIfMoved(container) \in Described /\ MixedIfMoved(container).image = container.image
    BY <1>4, <2>1, <2>2 DEF Described
  <2>4. QED
    BY <1>1, <1>2, <1>5, <2>3, NothingIsNone
<1>6. CASE ~(head' # head /\ container # Nothing)
  <2>1. MixedIfMoved(container) = container
    BY <1>6 DEF MixedIfMoved
  <2>2. QED
    BY <1>1, <1>2, <1>3, <2>1
<1>7. QED
  BY <1>5, <1>6

\* A runner that asks for a bundle has an initramfs to ask for.
LEMMA WantedIsImage ==
    ASSUME NEW p \in Procs, RunTypeOK, LockInv, pc[p] \in {"bundle"} \cup Locked
    PROVE  Wanted(p) \in Images
<1>1. CASE p = Scheduler
  BY <1>1 DEF Wanted, Images
<1>2. CASE p # Scheduler
  <2>1. p \in Runners /\ initramfs # "absent"
    BY <1>2 DEF Procs, LockInv
  <2>2. QED
    BY <1>2, <2>1 DEF Wanted, Images, RunTypeOK, TypeOK
<1>3. QED
  BY <1>1, <1>2

-----------------------------------------------------------------------------
(* Types.                                                                  *)

LEMMA FilesTypePreserved ==
    ASSUME IInv, Next
    PROVE  TypeOK'
<1> USE DEF IInv, RunTypeOK, TypeOK, Goto, packed, built, checkout, Over
<1>0. /\ BundleAssumption /\ RunTypeOK /\ LockInv
      /\ head \in Revisions /\ Nothing \in Described \cup {Nothing}
  BY BundleAssumption DEF Revisions, Mixed
<1>1. ASSUME NEW p \in Procs, Ensure(p) PROVE TypeOK'
  <2> DEFINE wanted == [image |-> Wanted(p), revision |-> head']
  <2>1. pc[p] = "bundle" /\ Sync
    BY <1>1 DEF Ensure
  <2>2. wanted \in Described
    BY <1>0, <2>1, WantedIsImage, SyncMoves DEF Described, Revisions, Mixed
  <2>3. Served(p) \in {"ended", "label"}
    BY DEF Served
  <2>4. /\ container' = MixedIfMoved(container)
        /\ expected' = [expected EXCEPT ![p] = wanted]
        /\ \/ Goto(p, Served(p)) /\ UNCHANGED <<bundleLock, meta, stamp>>
           \/ /\ bundleLock' = p /\ stamp' = FALSE /\ meta' = Nothing
              /\ Goto(p, "home")
           \/ Goto(p, "raised") /\ UNCHANGED <<bundleLock, meta, stamp>>
        /\ UNCHANGED <<packed, home, bundle, label, booted, kills>>
    BY <1>1 DEF Ensure
  <2> HIDE DEF wanted
  <2>5. expected' \in [Procs -> Described \cup {Nothing}]
    BY <2>2, <2>4
  <2>6. /\ head' \in 0 .. MaxMoves /\ moved' \in BOOLEAN
        /\ container' \in Described \cup {Nothing}
    BY <1>0, <2>1, <2>4, SyncMoves
  <2>7. bundleLock' \in Procs \cup {Nobody} /\ meta' \in Described \cup {Nothing}
    BY <1>0, <2>4
  <2>8. stamp' \in BOOLEAN
    BY <2>4
  <2>9. pc' \in [Procs -> {"start", "pack", "packing", "bundle", "home", "copying", "build",
                           "building", "stamp", "label", "boot"} \cup Over]
    BY <2>3, <2>4
  <2>10. QED
    BY <2>4, <2>5, <2>6, <2>7, <2>8, <2>9
<1>2. ASSUME NEW p \in Procs, TakeHome(p) \/ CopyHome(p) PROVE TypeOK'
  BY <1>2 DEF TakeHome, CopyHome
<1>3. ASSUME NEW p \in Procs, BeginBuild(p) PROVE TypeOK'
  <2>1. [image |-> Wanted(p), revision |-> head] \in Described
    BY <1>0, <1>3, WantedIsImage DEF BeginBuild, Described, Locked
  <2>2. QED
    BY <1>3, <2>1 DEF BeginBuild
<1>4. ASSUME NEW p \in Procs, EndBuild(p) PROVE TypeOK'
  BY <1>4 DEF EndBuild
<1>5. ASSUME NEW p \in Procs, WriteStamp(p) PROVE TypeOK'
  BY <1>5 DEF WriteStamp, Served
<1>6. ASSUME NEW r \in Runners, SelectInitramfs(r) \/ BeginPack(r) \/ EndPack(r) PROVE TypeOK'
  BY <1>6 DEF SelectInitramfs, BeginPack, EndPack, Procs
<1>7. ASSUME NEW r \in Runners, Label(r) PROVE TypeOK'
  <2>1. Sync
    BY <1>7 DEF Label
  <2>2. QED
    BY <1>0, <1>7, <2>1, SyncMoves DEF Label
<1>8. ASSUME NEW r \in Runners, Kill(r) PROVE TypeOK'
  <2>1. r \in Procs /\ packLock' \in Procs \cup {Nobody} /\ bundleLock' \in Procs \cup {Nobody}
    BY <1>8 DEF Kill, LockAfterDeath, Procs
  <2>2. kills' \in 0 .. MaxKills
    BY <1>0, <1>8 DEF Kill
  <2>3. QED
    BY <1>8, <2>1, <2>2 DEF Kill
<1>9. CASE ContainerEnds
  BY <1>9 DEF ContainerEnds
<1>10. CASE OthersSync
  <2>1. Sync
    BY <1>10 DEF OthersSync
  <2>2. QED
    BY <1>0, <1>10, <2>1, SyncMoves DEF OthersSync
<1>11. QED
  BY <1>1, <1>2, <1>3, <1>4, <1>5, <1>6, <1>7, <1>8, <1>9, <1>10 DEF Next, Step, Prepares

LEMMA TypePreserved == IInv /\ [RunNext]_allVars => RunTypeOK'
<1> SUFFICES ASSUME IInv, [RunNext]_allVars PROVE RunTypeOK'
  OBVIOUS
<1> USE DEF IInv, RunTypeOK
<1>1. CASE UNCHANGED allVars
  BY <1>1 DEF allVars, runVars, vars, TypeOK
<1>2. CASE Next /\ UNCHANGED runVars
  BY <1>2, FilesTypePreserved DEF runVars
<1>3. ASSUME NEW r \in Runners, StartVm(r) PROVE RunTypeOK'
  <2>1. TypeOK'
    BY <1>3 DEF StartVm, Boot, Goto, TypeOK, checkout, packed, built, Over, Procs
  <2>2. QED
    BY <1>3, <2>1 DEF StartVm, Set
<1>4. ASSUME NEW r \in Runners, Watches(r) PROVE RunTypeOK'
  <2>1. TypeOK'
    BY <1>4, WatchingLeavesFiles DEF TypeOK, files, checkout, packed, built
  <2>2. CASE Look(r) \/ Check(r) \/ Overdue(r)
    BY <2>1, <2>2 DEF Look, Check, Overdue, Stopped, Set, Reports
  <2>3. CASE Finish(r) \/ Late(r)
    BY <2>1, <2>3 DEF Finish, Late, WithoutMarkers, Set, Reports
  <2>4. CASE Prints(r)
    <3>1. PICK i \in 1 .. 2 : console' = Set(console, r, Sections[i + 1])
      BY <2>4 DEF Prints
    <3>2. i + 1 \in 1 .. 3
      BY <3>1
    <3>3. console' \in [Runners -> {Sections[k] : k \in 1 .. 3}]
      BY <3>1, <3>2 DEF Set
    <3>4. QED
      BY <2>1, <2>4, <3>3 DEF Prints
  <2>5. CASE Panics(r) \/ EndsByItself(r) \/ KillWatcher(r)
    BY <2>1, <2>5 DEF Panics, EndsByItself, KillWatcher, Set
  <2>6. QED
    BY <1>4, <2>2, <2>3, <2>4, <2>5 DEF Watches
<1>5. QED
  BY <1>1, <1>2, <1>3, <1>4 DEF RunNext, Watcher, Watches

-----------------------------------------------------------------------------
(* The lock.                                                               *)

LEMMA LockPreserved == IInv /\ [RunNext]_allVars => LockInv'
<1> SUFFICES ASSUME IInv, [RunNext]_allVars PROVE LockInv'
  OBVIOUS
<1> USE DEF IInv, RunTypeOK, TypeOK, LockInv, Locked, Goto, checkout, packed, built
<1>0. BundleAssumption /\ RunTypeOK /\ Runners \subseteq Procs /\ Scheduler \in Procs
  BY BundleAssumption DEF Procs
<1>1. CASE UNCHANGED allVars
  BY <1>1 DEF allVars, vars
<1>2. CASE Next /\ UNCHANGED runVars
  <2>1. ASSUME NEW p \in Procs, Ensure(p) PROVE LockInv'
    <3> DEFINE wanted == [image |-> Wanted(p), revision |-> head']
    <3>1. Sync /\ pc[p] = "bundle" /\ BundleLockFree
      BY <2>1 DEF Ensure
    <3>2. /\ container' = MixedIfMoved(container)
          /\ expected' = [expected EXCEPT ![p] = wanted]
          /\ \/ Goto(p, Served(p)) /\ UNCHANGED <<bundleLock, meta, stamp>>
             \/ /\ bundleLock' = p /\ stamp' = FALSE /\ meta' = Nothing
                /\ Goto(p, "home")
             \/ Goto(p, "raised") /\ UNCHANGED <<bundleLock, meta, stamp>>
          /\ UNCHANGED initramfs
      BY <2>1 DEF Ensure
    <3>3. wanted # Nothing
      BY <1>0, <3>1, WantedIsImage DEF Nothing, Images
    <3>4. container' = Nothing <=> container = Nothing
      BY <1>0, <3>1, <3>2, SyncMoves
    <3> HIDE DEF wanted
    <3>5. Served(p) = IF p = Scheduler THEN "ended" ELSE "label"
      BY DEF Served
    <3>6. QED
      BY <1>0, <3>1, <3>2, <3>3, <3>4, <3>5 DEF BundleLockFree, Procs
  <2>2. ASSUME NEW p \in Procs, TakeHome(p) PROVE LockInv'
    BY <1>0, <2>2 DEF TakeHome, Procs
  <2>3. ASSUME NEW p \in Procs, CopyHome(p) PROVE LockInv'
    BY <1>0, <2>3 DEF CopyHome, Procs
  <2>4. ASSUME NEW p \in Procs, BeginBuild(p) PROVE LockInv'
    BY <1>0, <2>4 DEF BeginBuild, Procs
  <2>5. ASSUME NEW p \in Procs, EndBuild(p) PROVE LockInv'
    BY <1>0, <2>5 DEF EndBuild, Procs
  <2>6. ASSUME NEW p \in Procs, WriteStamp(p) PROVE LockInv'
    BY <1>0, <2>6 DEF WriteStamp, Served, Procs
  <2>7. ASSUME NEW r \in Runners, SelectInitramfs(r) \/ BeginPack(r) \/ EndPack(r) PROVE LockInv'
    BY <1>0, <2>7 DEF SelectInitramfs, BeginPack, EndPack, Procs
  <2>8. ASSUME NEW r \in Runners, Label(r) PROVE LockInv'
    <3>1. container' = Nothing <=> container = Nothing
      BY <1>0, <2>8, SyncMoves DEF Label
    <3>2. QED
      BY <1>0, <2>8, <3>1 DEF Label, Procs
  <2>9. ASSUME NEW r \in Runners, Kill(r) PROVE LockInv'
    BY <1>0, <2>9 DEF Kill, LockAfterDeath, Procs, Over
  <2>10. CASE ContainerEnds
    BY <1>0, <2>10 DEF ContainerEnds
  <2>11. CASE OthersSync
    <3>1. container' = Nothing <=> container = Nothing
      BY <1>0, <2>11, SyncMoves DEF OthersSync
    <3>2. QED
      BY <1>0, <2>11, <3>1 DEF OthersSync
  <2>12. QED
    BY <1>2, <2>1, <2>2, <2>3, <2>4, <2>5, <2>6, <2>7, <2>8, <2>9, <2>10, <2>11
    DEF Next, Step, Prepares
<1>3. ASSUME NEW r \in Runners, StartVm(r) PROVE LockInv'
  BY <1>0, <1>3 DEF StartVm, Boot, Procs
<1>4. ASSUME NEW r \in Runners, Watches(r) PROVE LockInv'
  BY <1>0, <1>4, WatchingLeavesFiles DEF files
<1>5. QED
  BY <1>1, <1>2, <1>3, <1>4 DEF RunNext, Watcher, Watches

-----------------------------------------------------------------------------
(* The cargo home and the warm-up's bundle.                                *)

LEMMA HomePreserved == IInv /\ [RunNext]_allVars => HomeInv'
<1> SUFFICES ASSUME IInv, [RunNext]_allVars PROVE HomeInv'
  OBVIOUS
<1> USE DEF IInv, RunTypeOK, TypeOK, HomeInv, Goto, checkout, packed, built
<1>0. /\ BundleAssumption /\ RunTypeOK /\ Runners \subseteq Procs /\ Scheduler \in Procs
      /\ kills \in Nat
  BY BundleAssumption DEF Procs
<1>1. CASE UNCHANGED allVars
  BY <1>1 DEF allVars, vars
<1>2. CASE Next /\ UNCHANGED runVars
  <2>1. ASSUME NEW p \in Procs, Ensure(p) PROVE HomeInv'
    BY <1>0, <2>1 DEF Ensure, Served
  <2>2. ASSUME NEW p \in Procs, TakeHome(p) \/ CopyHome(p) PROVE HomeInv'
    BY <1>0, <2>2 DEF TakeHome, CopyHome, HomeDone
  <2>3. ASSUME NEW p \in Procs, BeginBuild(p) \/ EndBuild(p) PROVE HomeInv'
    BY <1>0, <2>3 DEF BeginBuild, EndBuild
  <2>4. ASSUME NEW p \in Procs, WriteStamp(p) PROVE HomeInv'
    BY <1>0, <2>4 DEF WriteStamp, Served
  <2>5. ASSUME NEW r \in Runners, SelectInitramfs(r) \/ BeginPack(r) \/ EndPack(r) \/ Label(r)
        PROVE HomeInv'
    BY <1>0, <2>5 DEF SelectInitramfs, BeginPack, EndPack, Label
  <2>6. ASSUME NEW r \in Runners, Kill(r) PROVE HomeInv'
    BY <1>0, <2>6 DEF Kill
  <2>7. CASE ContainerEnds \/ OthersSync
    BY <2>7 DEF ContainerEnds, OthersSync
  <2>8. QED
    BY <1>2, <2>1, <2>2, <2>3, <2>4, <2>5, <2>6, <2>7 DEF Next, Step, Prepares
<1>3. ASSUME NEW r \in Runners, StartVm(r) PROVE HomeInv'
  BY <1>0, <1>3 DEF StartVm, Boot
<1>4. ASSUME NEW r \in Runners, Watches(r) PROVE HomeInv'
  <2>1. UNCHANGED <<home, pc>> /\ kills' \in Nat /\ kills <= kills'
    BY <1>0, <1>4, WatchingLeavesFiles DEF files
  <2>2. QED
    BY <1>0, <2>1
<1>5. QED
  BY <1>1, <1>2, <1>3, <1>4 DEF RunNext, Watcher, Watches

LEMMA MinimalPreserved == IInv /\ [RunNext]_allVars => MinimalInv'
<1> SUFFICES ASSUME IInv, [RunNext]_allVars PROVE MinimalInv'
  OBVIOUS
<1> USE DEF IInv, RunTypeOK, TypeOK, LockInv, MinimalInv, Locked, AtVm, Goto, checkout, packed, built
<1>0. /\ BundleAssumption /\ RunTypeOK /\ LockInv /\ Runners \subseteq Procs
      /\ Scheduler \in Procs /\ Scheduler \notin Runners /\ Nothing.image = "none"
  BY BundleAssumption, NothingIsNone DEF Procs
<1>1. CASE UNCHANGED allVars
  BY <1>1 DEF allVars, vars
<1>2. CASE Next /\ UNCHANGED runVars
  <2>1. ASSUME NEW p \in Procs, Ensure(p) PROVE MinimalInv'
    <3> DEFINE wanted == [image |-> Wanted(p), revision |-> head']
    <3>1. Sync /\ pc[p] = "bundle"
      BY <2>1 DEF Ensure
    <3>2. /\ container' = MixedIfMoved(container)
          /\ expected' = [expected EXCEPT ![p] = wanted]
          /\ \/ Ready(wanted) /\ Goto(p, Served(p)) /\ UNCHANGED <<bundleLock, meta, stamp>>
             \/ /\ stamp' = FALSE /\ meta' = Nothing
                /\ Goto(p, "home")
             \/ Goto(p, "raised") /\ UNCHANGED <<bundleLock, meta, stamp>>
          /\ UNCHANGED <<bundle, booted>>
      BY <2>1 DEF Ensure
    <3>3. wanted.image = IF p = Scheduler THEN "minimal" ELSE initramfs
      BY DEF Wanted
    <3>4. Ready(wanted) => stamp /\ meta = wanted
      BY DEF Ready
    <3>5. container'.image = container.image
      BY <1>0, <3>1, <3>2, SyncMoves
    <3> HIDE DEF wanted
    <3>6. Served(p) = IF p = Scheduler THEN "ended" ELSE "label"
      BY DEF Served
    <3>7. QED
      BY <1>0, <3>1, <3>2, <3>3, <3>4, <3>5, <3>6 DEF Procs
  <2>2. ASSUME NEW p \in Procs, TakeHome(p) \/ CopyHome(p) PROVE MinimalInv'
    BY <1>0, <2>2 DEF TakeHome, CopyHome
  <2>3. ASSUME NEW p \in Procs, BeginBuild(p) PROVE MinimalInv'
    <3>1. Wanted(p) = IF p = Scheduler THEN "minimal" ELSE initramfs
      BY DEF Wanted
    <3>2. container'.image = Wanted(p) /\ bundle'.image = "partial"
      BY <2>3 DEF BeginBuild
    <3>3. QED
      BY <1>0, <2>3, <3>1, <3>2 DEF BeginBuild, Procs
  <2>4. ASSUME NEW p \in Procs, EndBuild(p) PROVE MinimalInv'
    <3>1. p \in Runners => container.image # "minimal"
      BY <1>0, <2>4 DEF EndBuild
    <3>2. QED
      BY <1>0, <2>4, <3>1 DEF EndBuild, Procs
  <2>5. ASSUME NEW p \in Procs, WriteStamp(p) PROVE MinimalInv'
    BY <1>0, <2>5 DEF WriteStamp, Served, Procs
  <2>6. ASSUME NEW r \in Runners, SelectInitramfs(r) \/ BeginPack(r) \/ EndPack(r)
        PROVE MinimalInv'
    BY <1>0, <2>6 DEF SelectInitramfs, BeginPack, EndPack
  <2>7. ASSUME NEW r \in Runners, Label(r) PROVE MinimalInv'
    <3>1. container'.image = container.image
      BY <1>0, <2>7, SyncMoves DEF Label
    <3>2. QED
      BY <1>0, <2>7, <3>1 DEF Label
  <2>8. ASSUME NEW r \in Runners, Kill(r) PROVE MinimalInv'
    BY <1>0, <2>8 DEF Kill
  <2>9. CASE ContainerEnds
    BY <1>0, <2>9 DEF ContainerEnds
  <2>10. CASE OthersSync
    <3>1. container'.image = container.image
      BY <1>0, <2>10, SyncMoves DEF OthersSync
    <3>2. QED
      BY <1>0, <2>10, <3>1 DEF OthersSync
  <2>11. QED
    BY <1>2, <2>1, <2>2, <2>3, <2>4, <2>5, <2>6, <2>7, <2>8, <2>9, <2>10 DEF Next, Step, Prepares
<1>3. ASSUME NEW r \in Runners, StartVm(r) PROVE MinimalInv'
  BY <1>0, <1>3 DEF StartVm, Boot
<1>4. ASSUME NEW r \in Runners, Watches(r) PROVE MinimalInv'
  BY <1>0, <1>4, WatchingLeavesFiles DEF files
<1>5. QED
  BY <1>1, <1>2, <1>3, <1>4 DEF RunNext, Watcher, Watches

-----------------------------------------------------------------------------
(* What was built, and for what revision.                                  *)

LEMMA PackedPreserved == IInv /\ [RunNext]_allVars => PackedInv'
<1> SUFFICES ASSUME IInv, [RunNext]_allVars PROVE PackedInv'
  OBVIOUS
<1> USE DEF IInv, RunTypeOK, TypeOK, LockInv, PackedInv, Locked, AtVm, Goto, checkout, packed,
            built, PackedOnceBootsOwnPackage, BootsOwnPackage, Wanted
<1>0. /\ BundleAssumption /\ RunTypeOK /\ LockInv /\ Runners \subseteq Procs
      /\ Scheduler \in Procs /\ Scheduler \notin Runners /\ Nothing.image = "none"
      /\ Nothing.revision = 0
  BY BundleAssumption, NothingIsNone DEF Procs
<1>1. CASE UNCHANGED allVars
  BY <1>1 DEF allVars, vars
<1>2. CASE Next /\ UNCHANGED runVars
  <2>1. ASSUME NEW p \in Procs, Ensure(p) PROVE PackedInv'
    <3> DEFINE wanted == [image |-> Wanted(p), revision |-> head']
    <3>1. Sync /\ pc[p] = "bundle"
      BY <2>1 DEF Ensure
    <3>2. /\ expected' = [expected EXCEPT ![p] = wanted]
          /\ \/ Ready(wanted) /\ Goto(p, Served(p)) /\ UNCHANGED <<bundleLock, meta, stamp>>
             \/ /\ ~Ready(wanted) /\ stamp' = FALSE /\ meta' = Nothing
                /\ Goto(p, "home")
             \/ Goto(p, "raised") /\ UNCHANGED <<bundleLock, meta, stamp>>
          /\ UNCHANGED <<firstUse, initramfs, bundle, booted>>
          /\ container' = MixedIfMoved(container)
      BY <2>1 DEF Ensure
    <3>3. /\ wanted.image = IF p = Scheduler THEN "minimal" ELSE initramfs
          /\ wanted.revision = head'
      BY DEF Wanted
    <3>4. Ready(wanted) <=> stamp /\ bundle # Nothing /\ meta = wanted
      BY DEF Ready
    <3>5. /\ container'.image = container.image
          /\ container' = Nothing <=> container = Nothing
          /\ ~moved' => ~moved /\ (head' = head \/ expected[Scheduler] = Nothing)
      BY <1>0, <3>1, <3>2, SyncMoves
    <3>6. Served(p) = IF p = Scheduler THEN "ended" ELSE "label"
      BY DEF Served
    <3> HIDE DEF wanted
    <3>7. \A q \in Procs : q # p => pc'[q] = pc[q] /\ expected'[q] = expected[q]
      BY <3>2
    <3>8. pc'[p] \in {"ended", "label", "home", "raised"} /\ expected'[p] = wanted
      BY <3>2, <3>6
    <3>9. ASSUME ~firstUse
          PROVE  /\ \A q \in Procs : pc'[q] = "building" =>
                       (IF container' = Nothing THEN bundle' ELSE container').image = Wanted(q)'
                 /\ \A q \in Procs : pc'[q] \in Locked => expected'[q].image = Wanted(q)'
                 /\ \A q \in Procs : pc'[q] = "stamp" =>
                       bundle'.image = Wanted(q)' /\ meta' = expected'[q]
                 /\ stamp' => bundle'.image = meta'.image
      <4>1. \A q \in Procs : pc'[q] = "stamp" => stamp' = stamp /\ meta' = meta
        BY <1>0, <3>1, <3>2, <3>7, <3>8, <2>1 DEF Ensure, BundleLockFree
      <4>2. QED
        BY <1>0, <3>2, <3>3, <3>5, <3>7, <3>8, <3>9, <4>1
    <3>10. ASSUME ~firstUse, ~moved', NEW r \in Runners
           PROVE  /\ pc'[r] \in Locked => expected'[r].revision = head'
                  /\ pc'[r] \in AtVm =>
                        /\ stamp' /\ bundle'.image = "complete"
                        /\ meta'.image = "complete" /\ meta'.revision = head'
      <4>1. CASE p = Scheduler
        BY <1>0, <3>1, <3>7, <3>10, <4>1
      <4>2. CASE p # Scheduler
        <5>1. p \in Runners /\ expected[Scheduler] # Nothing
          BY <1>0, <3>1, <4>2 DEF Procs
        <5>2. head' = head /\ ~moved
          BY <3>5, <3>10, <5>1
        <5>3. wanted.image = "complete" /\ wanted.revision = head
          BY <3>3, <3>10, <4>2, <5>2
        <5>4. CASE r = p
          BY <3>2, <3>3, <3>4, <3>8, <3>10, <5>2, <5>3, <5>4
        <5>5. CASE r # p
          <6>1. pc'[r] = pc[r] /\ expected'[r] = expected[r]
            BY <1>0, <3>7, <5>5
          <6>2. CASE pc[r] \in AtVm
            <7>1. stamp /\ bundle.image = "complete" /\ meta.image = "complete" /\ meta.revision = head
              BY <3>10, <5>2, <6>2
            <7>2. bundle # Nothing
              BY <1>0, <7>1
            <7>3. meta = wanted
              <8>1. meta \in Described
                BY <1>0, <7>1
              <8>2. meta = [image |-> meta.image, revision |-> meta.revision]
                BY <8>1 DEF Described
              <8>3. QED
                BY <4>2, <5>2, <5>3, <7>1, <8>2, <3>10 DEF wanted
            <7>4. Ready(wanted)
              BY <3>4, <7>1, <7>2, <7>3
            <7>5. UNCHANGED <<meta, stamp, bundle>>
              BY <3>2, <7>4
            <7>6. QED
              BY <5>2, <6>1, <6>2, <7>1, <7>5
          <6>3. CASE pc[r] \notin AtVm
            BY <3>10, <5>2, <6>1, <6>3
          <6>4. QED
            BY <6>2, <6>3
        <5>6. QED
          BY <5>4, <5>5
      <4>3. QED
        BY <4>1, <4>2
    <3>11. (~firstUse /\ ~moved => BootsOwnPackage)'
      BY <3>2, <3>5
    <3>12. QED
      BY <3>2, <3>9, <3>10, <3>11
  <2>2. ASSUME NEW p \in Procs, TakeHome(p) \/ CopyHome(p) PROVE PackedInv'
    BY <1>0, <2>2 DEF TakeHome, CopyHome
  <2>3. ASSUME NEW p \in Procs, BeginBuild(p) PROVE PackedInv'
    <3>1. /\ container'.image = Wanted(p) /\ container' # Nothing
          /\ pc[p] = "build" /\ pc' = [pc EXCEPT ![p] = "building"]
          /\ UNCHANGED <<head, moved, firstUse, initramfs, meta, stamp, expected, booted>>
      <4>1. Wanted(p) \in Images
        BY <1>0, <2>3, WantedIsImage DEF BeginBuild
      <4>2. QED
        BY <1>0, <2>3, <4>1 DEF BeginBuild, Images
    <3>2. ~stamp /\ \A q \in Procs : q # p => pc[q] \notin Locked
      BY <1>0, <3>1
    <3>3. QED
      BY <1>0, <3>1, <3>2
  <2>4. ASSUME NEW p \in Procs, EndBuild(p) PROVE PackedInv'
    <3>1. \A q \in Procs : q # p => pc[q] \notin Locked
      BY <1>0, <2>4 DEF EndBuild
    <3>2. ~stamp
      BY <1>0, <2>4 DEF EndBuild
    <3>3. QED
      BY <1>0, <2>4, <3>1, <3>2 DEF EndBuild
  <2>5. ASSUME NEW p \in Procs, WriteStamp(p) PROVE PackedInv'
    <3>1. \A q \in Procs : q # p => pc[q] \notin Locked
      BY <1>0, <2>5 DEF WriteStamp
    <3>2. ~firstUse => bundle.image = meta.image
      BY <1>0, <2>5 DEF WriteStamp
    <3>3. QED
      BY <1>0, <2>5, <3>1, <3>2 DEF WriteStamp, Served
  <2>6. ASSUME NEW r \in Runners, SelectInitramfs(r) \/ BeginPack(r) \/ EndPack(r)
        PROVE PackedInv'
    BY <1>0, <2>6 DEF SelectInitramfs, BeginPack, EndPack
  <2>7. ASSUME NEW r \in Runners, Label(r) PROVE PackedInv'
    <3>1. /\ container'.image = container.image /\ (container' = Nothing <=> container = Nothing)
          /\ ~moved' => ~moved /\ (head' = head \/ expected[Scheduler] = Nothing)
      BY <1>0, <2>7, SyncMoves DEF Label
    <3>2. expected[Scheduler] # Nothing
      BY <1>0, <2>7 DEF Label
    <3>3. QED
      BY <1>0, <2>7, <3>1, <3>2 DEF Label
  <2>8. ASSUME NEW r \in Runners, Kill(r) PROVE PackedInv'
    BY <1>0, <2>8 DEF Kill
  <2>9. CASE ContainerEnds
    BY <1>0, <2>9 DEF ContainerEnds
  <2>10. CASE OthersSync
    <3>1. /\ container'.image = container.image /\ (container' = Nothing <=> container = Nothing)
          /\ ~moved' => ~moved /\ (head' = head \/ expected[Scheduler] = Nothing)
      BY <1>0, <2>10, SyncMoves DEF OthersSync
    <3>2. expected[Scheduler] = Nothing => \A r \in Runners : pc[r] = "start"
      BY <1>0
    <3>3. QED
      BY <1>0, <2>10, <3>1, <3>2 DEF OthersSync
  <2>11. QED
    BY <1>2, <2>1, <2>2, <2>3, <2>4, <2>5, <2>6, <2>7, <2>8, <2>9, <2>10 DEF Next, Step, Prepares
<1>3. ASSUME NEW r \in Runners, StartVm(r) PROVE PackedInv'
  BY <1>0, <1>3 DEF StartVm, Boot
<1>4. ASSUME NEW r \in Runners, Watches(r) PROVE PackedInv'
  BY <1>0, <1>4, WatchingLeavesFiles DEF files
<1>5. QED
  BY <1>1, <1>2, <1>3, <1>4 DEF RunNext, Watcher, Watches

LEMMA RevisionPreserved == IInv /\ [RunNext]_allVars => RevisionInv'
<1> SUFFICES ASSUME IInv, [RunNext]_allVars PROVE RevisionInv'
  OBVIOUS
<1> USE DEF IInv, RunTypeOK, TypeOK, LockInv, RevisionInv, Locked, AtVm, Goto, checkout, packed,
            built, LabelNamesTheKernel
<1>0. /\ BundleAssumption /\ RunTypeOK /\ LockInv /\ Runners \subseteq Procs
      /\ Scheduler \in Procs /\ Scheduler \notin Runners /\ Nothing.image \notin Images
      /\ Nothing.revision = 0 /\ head \in Nat /\ \A p \in Procs : expected[p].revision \in Nat
      /\ \A r \in Runners : label[r] \in Nat
      /\ meta.revision \in Nat
  <2>1. Revisions \subseteq Nat /\ 0 .. MaxMoves \subseteq Nat
    BY BundleAssumption DEF Revisions, Mixed
  <2>2. Nothing.image \notin Images /\ Nothing.revision = 0
    BY NothingIsNone DEF Images
  <2>3. \A d \in Described \cup {Nothing} : d.revision \in Nat
    <3>1. ASSUME NEW d \in Described PROVE d.revision \in Nat
      BY <2>1, NothingIsNone
    <3>2. QED
      BY <2>2, <3>1
  <2>4. head \in Nat /\ \A r \in Runners : label[r] \in Nat
    BY <2>1
  <2>5. meta.revision \in Nat /\ \A p \in Procs : expected[p].revision \in Nat
    BY <2>3
  <2>6. QED
    BY <2>2, <2>4, <2>5, BundleAssumption DEF Procs
<1>1. CASE UNCHANGED allVars
  BY <1>1 DEF allVars, vars
<1>2. CASE Next /\ UNCHANGED runVars
  <2>1. ASSUME NEW p \in Procs, Ensure(p) PROVE RevisionInv'
    <3> DEFINE wanted == [image |-> Wanted(p), revision |-> head']
    <3>1. Sync /\ pc[p] = "bundle"
      BY <2>1 DEF Ensure
    <3>2. /\ expected' = [expected EXCEPT ![p] = wanted]
          /\ \/ Ready(wanted) /\ Goto(p, Served(p)) /\ UNCHANGED <<bundleLock, meta, stamp>>
             \/ /\ bundleLock = Nobody /\ stamp' = FALSE /\ meta' = Nothing
                /\ Goto(p, "home")
             \/ Goto(p, "raised") /\ UNCHANGED <<bundleLock, meta, stamp>>
          /\ UNCHANGED <<bundle, booted, label>>
          /\ container' = MixedIfMoved(container)
      BY <2>1 DEF Ensure, BundleLockFree
    <3>3. wanted.revision = head'
      OBVIOUS
    <3>4. Ready(wanted) => stamp /\ meta = wanted
      BY DEF Ready
    <3>5. /\ head' \in {head, head + 1}
          /\ container' = Nothing <=> container = Nothing
          /\ head' = head => container' = container
      BY <1>0, <3>1, <3>2, SyncMoves
    <3>6. Served(p) = IF p = Scheduler THEN "ended" ELSE "label"
      BY DEF Served
    <3> HIDE DEF wanted
    <3>7. \A q \in Procs : q # p => pc'[q] = pc[q] /\ expected'[q] = expected[q]
      BY <3>2
    <3>8. /\ pc'[p] \in {"ended", "label", "home", "raised"} /\ expected'[p] = wanted
          /\ p \in Runners => pc'[p] # "ended" /\ pc[p] # "ended"
      BY <1>0, <3>1, <3>2, <3>6
    <3>9. Ready(wanted) => head' = head /\ bundle.revision = head /\ container = Nothing
      BY <1>0, <3>3, <3>4, <3>5
    <3>10. meta'.revision <= head' /\ \A q \in Procs : expected'[q].revision <= head'
      BY <1>0, <3>2, <3>3, <3>5, <3>7, <3>8
    <3>11. \A q \in Procs : pc'[q] = "building" =>
             \/ expected'[q].revision < head'
             \/ (IF container' = Nothing THEN bundle' ELSE container').revision = head'
      BY <1>0, <3>2, <3>5, <3>7, <3>8
    <3>12. \A q \in Procs : pc'[q] = "stamp" =>
             meta' = expected'[q] /\ (expected'[q].revision < head' \/ bundle'.revision = head')
      <4>1. \A q \in Procs : pc'[q] = "stamp" => q # p /\ pc[q] = "stamp" /\ meta' = meta
        BY <1>0, <3>2, <3>7, <3>8
      <4>2. QED
        BY <1>0, <3>2, <3>5, <3>7, <4>1
    <3>13. stamp' => meta'.revision < head' \/ bundle'.revision = head'
      <4>1. stamp' => stamp /\ meta' = meta
        BY <3>2
      <4>2. meta.revision <= head /\ head <= head'
        BY <1>0, <3>5
      <4>3. QED
        BY <1>0, <3>2, <3>5, <4>1, <4>2
    <3>14. \A r \in Runners : pc'[r] \in AtVm /\ expected'[r].revision = head' =>
             /\ container' # Nothing => container'.revision = head'
             /\ bundle'.image \in Images => bundle'.revision = head'
      <4> SUFFICES ASSUME NEW r \in Runners, pc'[r] \in AtVm, expected'[r].revision = head'
                   PROVE  /\ container' # Nothing => container'.revision = head'
                          /\ bundle'.image \in Images => bundle'.revision = head'
        OBVIOUS
      <4>1. CASE r = p
        <5>1. Ready(wanted)
          BY <3>2, <4>1
        <5>2. QED
          BY <3>2, <3>5, <3>9, <5>1
      <4>2. CASE r # p
        <5>1. pc[r] \in AtVm /\ expected[r].revision = head /\ head' = head
          BY <1>0, <3>5, <3>7, <4>2
        <5>2. QED
          BY <3>2, <3>5, <5>1
      <4>3. QED
        BY <4>1, <4>2
    <3>15. \A r \in Runners : pc'[r] \in {"boot", "ended"} =>
             expected'[r].revision <= label'[r] /\ label'[r] <= head'
      BY <1>0, <3>2, <3>5, <3>7, <3>8
    <3>16. \A r \in Runners : booted'[r].image \in Images =>
             /\ pc'[r] = "ended"
             /\ head' = expected'[r].revision => booted'[r].revision = label'[r]
      BY <1>0, <3>2, <3>5, <3>7, <3>8
    <3>17. QED
      BY <3>10, <3>11, <3>12, <3>13, <3>14, <3>15, <3>16
  <2>2. ASSUME NEW p \in Procs, TakeHome(p) \/ CopyHome(p) PROVE RevisionInv'
    BY <1>0, <2>2 DEF TakeHome, CopyHome
  <2>3. ASSUME NEW p \in Procs, BeginBuild(p) PROVE RevisionInv'
    <3>1. /\ container'.revision = head /\ container' # Nothing
          /\ bundle'.image \notin Images
          /\ pc[p] = "build" /\ pc' = [pc EXCEPT ![p] = "building"]
          /\ UNCHANGED <<head, meta, stamp, expected, label, booted>>
      <4>1. Wanted(p) \in Images
        BY <1>0, <2>3, WantedIsImage DEF BeginBuild
      <4>2. QED
        BY <1>0, <2>3, <4>1 DEF BeginBuild, Images
    <3>2. ~stamp
      BY <1>0, <3>1
    <3>3. QED
      BY <1>0, <3>1, <3>2
  <2>4. ASSUME NEW p \in Procs, EndBuild(p) PROVE RevisionInv'
    <3>1. ~stamp /\ \A q \in Procs : q # p => pc[q] \notin Locked
      BY <1>0, <2>4 DEF EndBuild
    <3>2. QED
      BY <1>0, <2>4, <3>1 DEF EndBuild
  <2>5. ASSUME NEW p \in Procs, WriteStamp(p) PROVE RevisionInv'
    <3>1. container = Nothing /\ meta = expected[p]
          /\ (expected[p].revision < head \/ bundle.revision = head)
      BY <1>0, <2>5 DEF WriteStamp
    <3>2. QED
      BY <1>0, <2>5, <3>1 DEF WriteStamp, Served
  <2>6. ASSUME NEW r \in Runners, SelectInitramfs(r) \/ BeginPack(r) \/ EndPack(r)
        PROVE RevisionInv'
    BY <1>0, <2>6 DEF SelectInitramfs, BeginPack, EndPack
  <2>7. ASSUME NEW r \in Runners, Label(r) PROVE RevisionInv'
    <3>1. /\ head' \in {head, head + 1} /\ (container' = Nothing <=> container = Nothing)
          /\ head' = head => container' = container
      BY <1>0, <2>7, SyncMoves DEF Label
    <3>2. QED
      BY <1>0, <2>7, <3>1 DEF Label
  <2>8. ASSUME NEW r \in Runners, Kill(r) PROVE RevisionInv'
    BY <1>0, <2>8 DEF Kill, Over
  <2>9. CASE ContainerEnds
    BY <1>0, <2>9 DEF ContainerEnds
  <2>10. CASE OthersSync
    <3>1. /\ head' \in {head, head + 1} /\ (container' = Nothing <=> container = Nothing)
          /\ head' = head => container' = container
      BY <1>0, <2>10, SyncMoves DEF OthersSync
    <3>2. QED
      BY <1>0, <2>10, <3>1 DEF OthersSync
  <2>11. QED
    BY <1>2, <2>1, <2>2, <2>3, <2>4, <2>5, <2>6, <2>7, <2>8, <2>9, <2>10 DEF Next, Step, Prepares
<1>3. ASSUME NEW r \in Runners, StartVm(r) PROVE RevisionInv'
  <2>1. /\ pc[r] = "boot" /\ pc' = [pc EXCEPT ![r] = "ended"]
        /\ booted' = [booted EXCEPT ![r] = bundle]
        /\ UNCHANGED <<head, bundle, container, meta, stamp, expected, label>>
    BY <1>3 DEF StartVm, Boot
  <2>2. expected[r].revision <= label[r] /\ label[r] <= head
    BY <2>1
  <2>3. bundle.image \in Images /\ head = expected[r].revision => bundle.revision = label[r]
    BY <1>0, <2>1, <2>2
  <2>4. \A q \in Runners : booted'[q].image \in Images =>
          pc'[q] = "ended" /\ (head' = expected'[q].revision => booted'[q].revision = label'[q])
    BY <1>0, <2>1, <2>3
  <2>5. QED
    BY <1>0, <2>1, <2>2, <2>4
<1>4. ASSUME NEW r \in Runners, Watches(r) PROVE RevisionInv'
  BY <1>0, <1>4, WatchingLeavesFiles DEF files
<1>5. QED
  BY <1>1, <1>2, <1>3, <1>4 DEF RunNext, Watcher, Watches

-----------------------------------------------------------------------------
(* The console.                                                            *)

\* Of a file's step the console sees at most that a runner is not yet at its VM.
LEMMA FilesBeforeVm ==
    ASSUME IInv, Next
    PROVE  booted' = booted /\ \A r \in Runners : pc'[r] # "ended" => pc[r] # "ended"
<1> USE DEF IInv, RunTypeOK, TypeOK, Goto, Procs
<1>1. ASSUME NEW p \in Procs, Step(p)
      PROVE  booted' = booted /\ \A r \in Runners : pc'[r] # "ended" => pc[r] # "ended"
  BY <1>1 DEF Step, Ensure, TakeHome, CopyHome, BeginBuild, EndBuild, WriteStamp
<1>2. ASSUME NEW q \in Runners, Prepares(q) \/ Kill(q)
      PROVE  booted' = booted /\ \A r \in Runners : pc'[r] # "ended" => pc[r] # "ended"
  BY <1>2 DEF Prepares, SelectInitramfs, BeginPack, EndPack, Label, Kill, Over
<1>3. CASE ContainerEnds \/ OthersSync
  BY <1>3 DEF ContainerEnds, OthersSync
<1>4. QED
  BY <1>1, <1>2, <1>3 DEF Next

LEMMA ConsolePreserved == IInv /\ [RunNext]_allVars => ConsoleInv'
<1> SUFFICES ASSUME IInv, [RunNext]_allVars PROVE ConsoleInv'
  OBVIOUS
<1> USE DEF IInv, RunTypeOK, ConsoleInv, Set
<1>0. RunTypeOK
  OBVIOUS
<1>1. CASE UNCHANGED allVars
  BY <1>1 DEF allVars, vars, runVars
<1>2. CASE Next /\ UNCHANGED runVars
  BY <1>2, FilesBeforeVm DEF runVars
<1>3. ASSUME NEW r \in Runners, StartVm(r) PROVE ConsoleInv'
  BY <1>3 DEF StartVm, Boot, Goto, TypeOK, Procs
<1>4. ASSUME NEW r \in Runners, Watches(r) PROVE ConsoleInv'
  <2>0. UNCHANGED <<pc, booted>>
    BY <1>0, <1>4, WatchingLeavesFiles DEF files
  <2>1. CASE Look(r)
    BY <1>0, <2>0, <2>1, HasByLast DEF Look, Reports, CrashShown, MarkersComplete, Stopped
  <2>2. CASE Check(r) \/ Overdue(r)
    BY <1>0, <2>0, <2>2, HasByLast DEF Check, Overdue, Stopped
  <2>3. CASE Finish(r) \/ Late(r)
    BY <1>0, <2>0, <2>3, HasByLast DEF Finish, Late, Reports, WithoutMarkers, CrashShown
  <2>4. CASE Prints(r)
    <3>1. /\ vm[r] = "up" /\ phase[r] # "over" /\ phase[r] # "waiting"
          /\ booted[r].image \in {"minimal", "complete"}
          /\ \E section : console' = [console EXCEPT ![r] = section]
          /\ UNCHANGED <<vm, panicked, phase, report>>
      BY <2>4 DEF Prints, Watched
    <3>2. booted[r].image = "complete"
      BY <3>1 DEF MinimalInv
    <3>3. QED
      BY <2>0, <3>1, <3>2
  <2>5. CASE Panics(r) \/ EndsByItself(r)
    BY <1>0, <2>0, <2>5 DEF Panics, EndsByItself, Watched
  <2>6. CASE KillWatcher(r)
    BY <1>0, <2>0, <2>6 DEF KillWatcher
  <2>7. QED
    BY <1>4, <2>1, <2>2, <2>3, <2>4, <2>5, <2>6 DEF Watches
<1>5. QED
  BY <1>1, <1>2, <1>3, <1>4 DEF RunNext, Watcher, Watches

-----------------------------------------------------------------------------
\* Every step of a process, a guest, a container and the outer tool keeps the parts above.
THEOREM Invariance == RunSpec => []IInv
<1>1. RunInit => IInv
  BY InitIInv
<1>2. IInv /\ [RunNext]_allVars => IInv'
  BY TypePreserved, LockPreserved, MinimalPreserved, PackedPreserved, RevisionPreserved,
     HomePreserved, ConsolePreserved DEF IInv
<1>3. QED
  BY <1>1, <1>2, PTL DEF RunSpec

\* The shared files, locks and metadata, the VMs and the results keep their types.
THEOREM TypeCorrect == RunSpec => []RunTypeOK
<1>1. IInv => RunTypeOK
  BY DEF IInv
<1>2. QED
  BY <1>1, Invariance, PTL

\* A package that was packed before boots from its own bundle while the checkout stays:
\* the warm-up's bundle, killed builders and containers that outlive them notwithstanding.
THEOREM BootsWhatWasPacked == RunSpec => []PackedOnceBootsOwnPackage
<1>1. IInv => PackedOnceBootsOwnPackage
  BY DEF IInv, PackedInv
<1>2. QED
  BY <1>1, Invariance, PTL

\* The revision in a result is the one of the kernel that ran, while the checkout does not
\* move between the runner's own look and its boot.
THEOREM LabelIsTheKernel == RunSpec => []LabelNamesTheKernel
<1>1. IInv => LabelNamesTheKernel
  BY DEF IInv, RevisionInv
<1>2. QED
  BY <1>1, Invariance, PTL

\* Builds start from a whole cargo home, unless somebody died or failed while copying it.
THEOREM HomeWhole == RunSpec => []HomeIsWhole
<1>1. IInv => HomeIsWhole
  <2> SUFFICES ASSUME IInv, NEW p \in Procs, pc[p] = "build", home # "whole"
               PROVE  kills > 0 \/ \E q \in Procs \ {p} : pc[q] = "raised"
    BY DEF HomeIsWhole
  <2>1. home = "partial"
    BY DEF IInv, RunTypeOK, TypeOK, HomeInv
  <2>2. kills > 0 \/ \E q \in Procs : pc[q] \in {"raised", "copying"}
    BY <2>1 DEF IInv, HomeInv
  <2>3. \A q \in Procs : pc[q] # "copying"
    BY DEF IInv, LockInv, Locked
  <2>4. QED
    BY <2>2, <2>3
<1>2. QED
  BY <1>1, Invariance, PTL

\* What a result says is what the console had shown when the VM ended, whatever the guest
\* printed, however it ended, and whoever was first, the deadline or the guest.
THEOREM VerdictOfTheConsole == RunSpec => []VerdictIsOfTheConsole
<1>1. IInv => VerdictIsOfTheConsole
  <2> SUFFICES ASSUME IInv, NEW r \in Runners
               PROVE  /\ report[r] = "exited" =>
                            /\ Has(r, "exit") /\ booted[r].image = "complete"
                            /\ vm[r] = "stopped" => Has(r, "state")
                      /\ report[r] = "crash" => panicked[r]
                      /\ report[r] = "infra_error" =>
                            vm[r] = "down" /\ ~panicked[r] /\ ~Has(r, "exit")
                      /\ report[r] = "timeout" => vm[r] = "stopped"
    BY DEF VerdictIsOfTheConsole
  <2>1. QED
    BY HasByLast DEF IInv, ConsoleInv
<1>2. QED
  BY <1>1, Invariance, PTL
=============================================================================
