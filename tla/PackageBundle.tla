---------------------------- MODULE PackageBundle ----------------------------
(***************************************************************************)
(* The files that the runners of one Asterinas package share: the packaged *)
(* initramfs (initramfs.py: ensure_packaged_initramfs), the bootable       *)
(* bundle made from it (cache_support.py: ensure_packaged_docker_bundle),  *)
(* cargo's home for that build, and, with everybody else, the checkout of  *)
(* Asterinas (build.py: ensure_revision).  The first process that needs a  *)
(* file makes it, under a file lock.  The scheduler warms the bundle up    *)
(* before the runners start; a runner may be killed at its timeout at any  *)
(* point.                                                                  *)
(***************************************************************************)
EXTENDS Integers, FiniteSets

CONSTANTS
    Runners,     \* runner processes of the package
    Scheduler,   \* the process that warms the bundle up
    MaxKills,    \* bound: runners that are killed
    MaxMoves     \* bound: revisions that the checkout moves on; 0 when one is pinned

Procs == Runners \cup {Scheduler}

Nobody == "nobody"

ASSUME BundleAssumption ==
    /\ Scheduler \notin Runners /\ Nobody \notin Procs
    /\ MaxKills \in Nat /\ MaxMoves \in Nat

\* What a bundle may have been made from.  The scheduler's environment does not name
\* the package, so that it packs the first case alone ("minimal").
Images == {"minimal", "torn", "complete"}

Mixed == MaxMoves + 1      \* what was built while the checkout moved
Revisions == 0 .. Mixed

\* Metadata are [image, revision].
Described == [image : Images, revision : Revisions]
Nothing == [image |-> "none", revision |-> 0]

VARIABLES
    head,        \* revision that is checked out
    moved,       \* it changed after the warm-up had looked
    home,        \* shared-cargo-home: "absent", "partial" or "whole"
    firstUse,    \* the package directory was new when the campaign reached it
    initramfs,   \* asterinas-packaged-initramfs.cpio.gz
    packLock,    \* holder of .build.lock
    bundleLock,  \* holder of .osdk-build.lock
    bundle,      \* what bundle_dir holds: [image, revision]
    container,   \* what the build container works on
    meta,        \* .osdk-build.meta.json
    stamp,       \* .osdk-build.ready exists
    expected,    \* expected[p]: expected_metadata
    label,       \* label[r]: the revision that r reports
    booted,      \* booted[r]: the bundle that r's VM was started from
    kills,
    pc

vars == <<head, moved, home, firstUse, initramfs, packLock, bundleLock, bundle, container,
          meta, stamp, expected, label, booted, kills, pc>>

packed == <<firstUse, initramfs, packLock>>
built == <<bundle, container, meta, stamp>>
checkout == <<head, moved>>

Init ==
    /\ head = 0 /\ moved = FALSE
    /\ packLock = Nobody /\ bundleLock = Nobody
    /\ container = Nothing
    /\ firstUse \in BOOLEAN
    /\ \/ /\ initramfs = IF firstUse THEN "absent" ELSE "complete"
          /\ bundle = Nothing /\ meta = Nothing /\ stamp = FALSE
          /\ home = "absent"
       \/ /\ ~firstUse
          /\ initramfs = "complete"
          /\ bundle \in [image : {"minimal", "complete"}, revision : {0}]
          /\ meta = bundle /\ stamp = TRUE
          /\ home = "whole"
    /\ expected = [p \in Procs |-> Nothing]
    /\ label = [r \in Runners |-> 0]
    /\ booted = [r \in Runners |-> Nothing]
    /\ kills = 0
    /\ pc = [p \in Procs |-> IF p = Scheduler THEN "bundle" ELSE "start"]

Goto(p, step) == pc' = [pc EXCEPT ![p] = step]

-----------------------------------------------------------------------------
(* ensure_revision                                                         *)

\* sync_asterinas_branch, with its lock: unless the last synchronisation is recent, the
\* checkout is reset to what the branch has become; what is being built there is of both.
Sync ==
    /\ head' \in {head, head + 1} \cap (0 .. MaxMoves)
    /\ moved' = (moved \/ (head' # head /\ expected[Scheduler] # Nothing))

MixedIfMoved(c) == IF head' # head /\ c # Nothing THEN [c EXCEPT !.revision = Mixed] ELSE c

\* The runner of another package or workflow does the same.
OthersSync ==
    /\ Sync /\ head' # head
    /\ container' = MixedIfMoved(container)
    /\ UNCHANGED <<packed, home, bundleLock, bundle, meta, stamp, expected, label, booted, kills, pc>>

-----------------------------------------------------------------------------
(* ensure_packaged_initramfs                                               *)

\* The check without the lock.  Runners start once the scheduler has returned.
SelectInitramfs(r) ==
    /\ pc[r] = "start"
    /\ pc[Scheduler] = "ended"
    /\ Goto(r, IF initramfs = "absent" THEN "pack" ELSE "bundle")
    /\ UNCHANGED <<checkout, home, packed, built, bundleLock, expected, label, booted, kills>>

\* With the lock, the check again; repack_initramfs writes the file in place.
BeginPack(r) ==
    /\ pc[r] = "pack"
    /\ packLock = Nobody
    /\ IF initramfs = "absent"
       THEN /\ initramfs' = "torn"
            /\ packLock' = r
            /\ Goto(r, "packing")
       ELSE Goto(r, "bundle") /\ UNCHANGED <<initramfs, packLock>>
    /\ UNCHANGED <<checkout, home, firstUse, built, bundleLock, expected, label, booted, kills>>

\* The pipeline ended, or failed and leaves what it has written.
EndPack(r) ==
    /\ pc[r] = "packing"
    /\ \/ initramfs' = "complete" /\ Goto(r, "bundle")
       \/ UNCHANGED initramfs /\ Goto(r, "raised")
    /\ packLock' = Nobody
    /\ UNCHANGED <<checkout, home, firstUse, built, bundleLock, expected, label, booted, kills>>

-----------------------------------------------------------------------------
(* ensure_packaged_docker_bundle                                           *)

\* Mutant: the warm-up asks for the package's initramfs, which nobody has made yet.
WantedByAll(p) == initramfs

\* The initramfs that process p asks for, as it is now.
Wanted(p) == IF p = Scheduler THEN "minimal" ELSE initramfs

BundleLockFree == bundleLock = Nobody

\* Mutant: any finished bundle will do.
ReadyForAnyone(wanted) == stamp

\* Mutant: the revision is not looked at.
ReadyOfAnyRevision(wanted) == stamp /\ meta.image = wanted.image

\* The stamp, the bundle and matching metadata.
Ready(wanted) == stamp /\ bundle # Nothing /\ meta = wanted

\* Where p goes once there is a bundle.
Served(p) == IF p = Scheduler THEN "ended" ELSE "label"

\* With the lock: a matching bundle is used; otherwise the stamp and the metadata are
\* removed.  The synchronisation may fail, and nothing catches its error.
Ensure(p) ==
    /\ pc[p] = "bundle"
    /\ BundleLockFree
    /\ Sync
    /\ container' = MixedIfMoved(container)
    /\ LET wanted == [image |-> Wanted(p), revision |-> head'] IN
         /\ expected' = [expected EXCEPT ![p] = wanted]
         /\ \/ Ready(wanted) /\ Goto(p, Served(p)) /\ UNCHANGED <<bundleLock, meta, stamp>>
            \/ /\ ~Ready(wanted)
               /\ bundleLock' = p /\ stamp' = FALSE /\ meta' = Nothing
               /\ Goto(p, "home")
            \/ head' = head /\ Goto(p, "raised") /\ UNCHANGED <<bundleLock, meta, stamp>>
    /\ UNCHANGED <<packed, home, bundle, label, booted, kills>>

\* ensure_shared_package_cargo_home: a directory that is there counts as complete.
HomeDone == home # "absent"

\* Before that cargo's cache is primed and cargo-osdk installed, which may fail.
TakeHome(p) ==
    /\ pc[p] = "home"
    /\ \/ HomeDone /\ Goto(p, "build") /\ UNCHANGED <<home, bundleLock>>
       \/ ~HomeDone /\ home' = "partial" /\ Goto(p, "copying") /\ UNCHANGED bundleLock
       \/ Goto(p, "raised") /\ bundleLock' = Nobody /\ UNCHANGED home
    /\ UNCHANGED <<checkout, packed, built, expected, label, booted, kills>>

\* Mutant: a copy that fails is not noticed.
CopyUnnoticed(p) ==
    /\ pc[p] = "copying"
    /\ home' \in {"partial", "whole"} /\ Goto(p, "build")
    /\ UNCHANGED <<checkout, packed, built, bundleLock, expected, label, booted, kills>>

\* The copy ends or fails.
CopyHome(p) ==
    /\ pc[p] = "copying"
    /\ \/ home' = "whole" /\ Goto(p, "build") /\ UNCHANGED bundleLock
       \/ Goto(p, "raised") /\ bundleLock' = Nobody /\ UNCHANGED home
    /\ UNCHANGED <<checkout, packed, built, expected, label, booted, kills>>

\* A container that an earlier builder left behind is stopped.  docker run: the build
\* reads the checkout and the initramfs and writes the bundle in place.
BeginBuild(p) ==
    /\ pc[p] = "build"
    /\ container' = [image |-> Wanted(p), revision |-> head]
    /\ bundle' = [image |-> "partial", revision |-> 0]
    /\ Goto(p, "building")
    /\ UNCHANGED <<checkout, home, packed, bundleLock, meta, stamp, expected, label, booted, kills>>

\* The container is run by the Docker daemon: it ends whether or not the process that
\* started it is still there.
ContainerEnds ==
    /\ container # Nothing
    /\ bundle' = container
    /\ container' = Nothing
    /\ UNCHANGED <<checkout, home, packed, bundleLock, meta, stamp, expected, label, booted, kills, pc>>

EndBuild(p) ==
    /\ pc[p] = "building"
    /\ \/ /\ container = Nothing /\ UNCHANGED container
          /\ meta' = expected[p]
          /\ Goto(p, "stamp") /\ UNCHANGED bundleLock
       \/ container' = Nothing /\ bundleLock' = Nobody /\ Goto(p, "raised") /\ UNCHANGED meta
    /\ UNCHANGED <<checkout, home, packed, bundle, stamp, expected, label, booted, kills>>

WriteStamp(p) ==
    /\ pc[p] = "stamp"
    /\ stamp' = TRUE
    /\ bundleLock' = Nobody
    /\ Goto(p, Served(p))
    /\ UNCHANGED <<checkout, home, packed, bundle, container, meta, expected, label, booted, kills>>

\* The revision that r reports is the one of the checkout, asked for once more.
Label(r) ==
    /\ pc[r] = "label"
    /\ Sync
    /\ container' = MixedIfMoved(container)
    /\ label' = [label EXCEPT ![r] = head']
    /\ \/ Goto(r, "boot")
       \/ head' = head /\ Goto(r, "raised")
    /\ UNCHANGED <<home, packed, bundleLock, bundle, meta, stamp, expected, booted, kills>>

\* The VM is started from bundle_dir, without a lock.
Boot(r) ==
    /\ pc[r] = "boot"
    /\ booted' = [booted EXCEPT ![r] = bundle]
    /\ Goto(r, "ended")
    /\ UNCHANGED <<checkout, home, packed, built, bundleLock, expected, label, kills>>

-----------------------------------------------------------------------------
Over == {"ended", "raised", "killed"}

\* Mutant: a lock outlives its holder.
KeptLock(holder, r) == holder

\* flock is released when its holder dies.
LockAfterDeath(holder, r) == IF holder = r THEN Nobody ELSE holder

\* The timeout of the run: the runner's process group is killed; the container goes on.
Kill(r) ==
    /\ pc[r] \notin Over \cup {"start"}
    /\ kills < MaxKills
    /\ kills' = kills + 1
    /\ packLock' = LockAfterDeath(packLock, r)
    /\ bundleLock' = LockAfterDeath(bundleLock, r)
    /\ Goto(r, "killed")
    /\ UNCHANGED <<checkout, home, firstUse, initramfs, built, expected, label, booted>>

Step(p) ==
    \/ Ensure(p) \/ TakeHome(p) \/ CopyHome(p)
    \/ BeginBuild(p) \/ EndBuild(p) \/ WriteStamp(p)

Prepares(r) == SelectInitramfs(r) \/ BeginPack(r) \/ EndPack(r) \/ Label(r)

\* Everything up to the start of a VM; AsterinasRun takes Boot and goes on from there.
Next ==
    \/ \E p \in Procs : Step(p)
    \/ \E r \in Runners : Prepares(r) \/ Kill(r)
    \/ ContainerEnds \/ OthersSync

-----------------------------------------------------------------------------
TypeOK ==
    /\ firstUse \in BOOLEAN
    /\ initramfs \in {"absent", "torn", "complete"}
    /\ packLock \in Procs \cup {Nobody} /\ bundleLock \in Procs \cup {Nobody}
    /\ head \in 0 .. MaxMoves /\ moved \in BOOLEAN
    /\ home \in {"absent", "partial", "whole"}
    /\ bundle \in Described \cup {Nothing, [image |-> "partial", revision |-> 0]}
    /\ container \in Described \cup {Nothing} /\ meta \in Described \cup {Nothing}
    /\ stamp \in BOOLEAN
    /\ expected \in [Procs -> Described \cup {Nothing}]
    /\ label \in [Runners -> 0 .. MaxMoves]
    /\ booted \in [Runners -> Described \cup {Nothing, [image |-> "partial", revision |-> 0]}]
    /\ kills \in 0 .. MaxKills
    /\ pc \in [Procs -> {"start", "pack", "packing", "bundle", "home", "copying", "build",
                         "building", "stamp", "label", "boot"} \cup Over]

\* A VM is started from a bundle that holds the whole package, not from the one that the
\* warm-up made of the first case, a half-written one or one made of a torn initramfs.
BootsOwnPackage == \A r \in Runners : booted[r].image \in {"none", "complete"}

\* The same of a package whose initramfs was there before its first runner: neither the
\* warm-up's bundle, nor builders that are killed or fail, nor containers that outlive
\* them reach a VM.  When the checkout moves on after the warm-up this does not hold: a
\* runner rebuilds the bundle in place while another, already served, boots from it.
PackedOnceBootsOwnPackage == ~firstUse /\ ~moved => BootsOwnPackage

\* A VM that has a kernel to boot runs the one of the revision that its report names,
\* although the warm-up, another runner or an earlier campaign made the bundle from another
\* one, as long as the checkout does not move between r's own look and its boot.
LabelNamesTheKernel ==
    \A r \in Runners : booted[r].image \in Images /\ head = expected[r].revision =>
        booted[r].revision = label[r]

\* A build starts from a complete copy of cargo's home, as long as no runner was killed and
\* no builder failed while it made the copy.
HomeIsWhole ==
    \A p \in Procs : pc[p] = "build" /\ home # "whole" =>
        kills > 0 \/ \E q \in Procs \ {p} : pc[q] = "raised"
=============================================================================
