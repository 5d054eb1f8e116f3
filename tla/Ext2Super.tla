------------------------------ MODULE Ext2Super ------------------------------
(***************************************************************************)
(* The super block of ext2-lite (super.c): loading the module, mounting    *)
(* with every way it can fail, remounting, syncing and unmounting, and the *)
(* reporting of errors, which runs beside all of them.  What matters is    *)
(* what the disk says of the file system when power is lost: "valid" and   *)
(* "has errors" are two bits of s_state, kept in three places.             *)
(***************************************************************************)
EXTENDS Integers

CONSTANT db_count   \* blocks of group descriptors

ASSUME SuperAssumption == db_count \in Nat \ {0}

VARIABLES
  op,             \* what the VFS runs: it holds s_umount
  step,           \* the step it comes to next, "end" when none is left
  held,           \* what has been acquired and not released
  group_desc,     \* descriptor blocks read
  rdonly,         \* SB_RDONLY of the super block in memory
  want,           \* SB_RDONLY as the remount asks for it
  s_mount_opt,    \* what to do on an error
  new_opt,        \* the same as the remount asks for it
  es,             \* the super block in its buffer
  s_mount_state,  \* the state found at mount time, with the errors since
  disk,           \* the super block on the disk
  dirty,          \* the buffer waits to be written
  epc,            \* where ext2_error stands
  rev,            \* whether s_rev_level is supported
  nfree,          \* the free blocks of all groups together
  touched,        \* history: changes that are not all on the disk
  damaged,        \* history: power was lost with such changes
  errored,        \* history: an error was recorded
  unclean,        \* history: there is a reason to check the file system
  excused         \* history: the disk could not be told (see ValidMeansSynced)

vfs == <<op, step, want, new_opt>>
resources == <<held, group_desc>>
memory == <<rdonly, s_mount_opt, es, s_mount_state, dirty>>
history == <<touched, damaged, errored, unclean, excused>>
vars == <<vfs, resources, memory, disk, epc, rev, nfree, history>>

ErrorsOpt == {"ERRORS_CONT", "ERRORS_PANIC", "ERRORS_RO"}
Super == [valid : BOOLEAN, error : BOOLEAN, nfree : 0..1]
State == [valid : BOOLEAN, error : BOOLEAN]
Blank == [valid |-> FALSE, error |-> FALSE, nfree |-> 0]
StateOf(s) == [valid |-> s.valid, error |-> s.error]

Module == {"inode_cachep", "registered"}
Counters == {"freeblocks", "freeinodes", "dirs"}
Mounted == "dentry" \in held
InUse == Mounted /\ op # "mount"

-----------------------------------------------------------------------------
(* What each operation does, step by step *)

\* The step that follows one that succeeds: init_ext2_fs, ext2_fill_super,
\* ext2_write_super, sync_filesystem (sync_fs without waiting, the data, sync_fs
\* again), ext2_remount with its caller, and ext2_put_super.
Order ==
  [inode_cachep |-> "registered", registered |-> "end",
   sbi |-> "blockgroup_lock", blockgroup_lock |-> "blocksize", blocksize |-> "sbh",
   sbh |-> "options", options |-> "reread", reread |-> "geometry", geometry |-> "array",
   array |-> "descriptor", descriptors |-> "freeblocks", freeblocks |-> "freeinodes",
   freeinodes |-> "dirs", dirs |-> "root", root |-> "dentry", dentry |-> "check_super",
   check_super |-> "write_super", ws_valid |-> "ws_super",
   sync_valid |-> "sync_mark", sync_mark |-> "writeout", writeout |-> "wait_valid",
   wait_valid |-> "wait_super",
   ro_super |-> "set_opt", set_opt |-> "vfs_flags", vfs_flags |-> "end",
   put_state |-> "put_sync", put_sync |-> "put_super"]

\* Where ext2_write_super and sync_filesystem return to.
Return ==
  [write_super |-> [mount |-> "end", remount |-> "set_opt"],
   wait_super |-> [sync |-> "end", remount |-> "remount", umount |-> "put_state"]]

\* Where a step that fails goes to.
Label ==
  [sbi |-> "failed", blockgroup_lock |-> "kfree_sbi", blocksize |-> "failed_sbi",
   sbh |-> "failed_sbi", options |-> "failed_mount", geometry |-> "failed_mount",
   array |-> "failed_mount", descriptor |-> "failed_mount_group_desc",
   descriptors |-> "failed_mount2", freeblocks |-> "failed_mount3",
   freeinodes |-> "failed_mount3", dirs |-> "failed_mount3", root |-> "failed_mount3",
   dentry |-> "failed_mount3", inode_cachep |-> "failed", registered |-> "destroy_inodecache"]

Labels == {Label[s] : s \in DOMAIN Label} \cup {"put_super", "exit_ext2_fs"}

\* Mutant of Released: failed_mount2 falls to failed_mount and forgets the array.
Released_NoArray(label) ==
  LET failed_sbi == {"blockgroup_lock", "sbi"}
      failed_mount == failed_sbi \cup {"sbh"}
  IN CASE label = "failed" -> {}
       [] label = "kfree_sbi" -> {"sbi"}
       [] label = "failed_sbi" -> failed_sbi
       [] label \in {"failed_mount", "failed_mount2"} -> failed_mount
       [] label = "failed_mount_group_desc" -> failed_mount \cup {"array"}
       [] label \in {"failed_mount3", "put_super"} -> failed_mount \cup {"array"} \cup Counters
       [] label = "destroy_inodecache" -> {"inode_cachep"}
       [] label = "exit_ext2_fs" -> Module

\* What a label frees, with what it falls through to.
Released(label) ==
  LET failed_sbi == {"blockgroup_lock", "sbi"}
      failed_mount == failed_sbi \cup {"sbh"}
      failed_mount2 == failed_mount \cup {"array"}
  IN CASE label = "failed" -> {}
       [] label = "kfree_sbi" -> {"sbi"}
       [] label = "failed_sbi" -> failed_sbi
       [] label = "failed_mount" -> failed_mount
       [] label \in {"failed_mount_group_desc", "failed_mount2"} -> failed_mount2
       [] label \in {"failed_mount3", "put_super"} -> failed_mount2 \cup Counters
       [] label = "destroy_inodecache" -> {"inode_cachep"}
       [] label = "exit_ext2_fs" -> Module

ReleasesDescriptors(label) == label \in {"failed_mount2", "failed_mount3", "put_super"}

-----------------------------------------------------------------------------
\* Type invariant.
TypeOK ==
  /\ op \in {"none", "init", "exit", "mount", "remount", "sync", "umount"}
  /\ step \in DOMAIN Order \cup DOMAIN Return \cup Labels
               \cup {"descriptor", "ws_super", "remount", "end"}
  /\ held \subseteq Module \cup Counters \cup {"sbi", "blockgroup_lock", "sbh", "array", "root", "dentry"}
  /\ group_desc \in 0..db_count
  /\ {rdonly, want, dirty, touched, damaged, errored, unclean, excused} \subseteq BOOLEAN
  /\ s_mount_opt \in ErrorsOpt /\ new_opt \in ErrorsOpt \cup {"bad"}
  /\ es \in Super /\ disk \in Super /\ s_mount_state \in State
  /\ epc \in {"none", "test", "set", "sync", "report"}
  /\ rev \in {"good", "high"} /\ nfree \in 0..1

\* Nothing loaded; the disk as mkfs, an earlier crash or an earlier error left it.
Init ==
  /\ op = "none" /\ step = "end" /\ held = {} /\ group_desc = 0
  /\ rdonly = FALSE /\ want = FALSE /\ s_mount_opt = "ERRORS_CONT" /\ new_opt = "ERRORS_CONT"
  /\ es = Blank /\ s_mount_state = StateOf(Blank) /\ dirty = FALSE
  /\ disk \in Super /\ nfree = disk.nfree
  /\ epc = "none" /\ rev \in {"good", "high"}
  /\ touched = FALSE /\ damaged = ~disk.valid
  /\ errored = disk.error /\ unclean = (~disk.valid \/ disk.error) /\ excused = FALSE

-----------------------------------------------------------------------------
(* ext2_sync_super: the counts are brought up to date, the buffer is written *)

\* sync_dirty_buffer.  Nobody looks at its result: a write that fails leaves the
\* disk as it was and the buffer to be marked again by the next one.
WriteSuper ==
  /\ es' = [es EXCEPT !.nfree = nfree]
  /\ dirty' = FALSE
  /\ \/ disk' = es' /\ UNCHANGED <<unclean, excused>>
     \/ UNCHANGED disk /\ unclean' = TRUE /\ excused' = TRUE

MarkSuper ==
  /\ es' = [es EXCEPT !.nfree = nfree]
  /\ dirty' = TRUE

\* The super block in memory, its options and its buffer are gone.
Forget ==
  /\ rdonly' = FALSE /\ s_mount_opt' = "ERRORS_CONT"
  /\ es' = Blank /\ s_mount_state' = StateOf(Blank) /\ dirty' = FALSE

-----------------------------------------------------------------------------
(* Beginning an operation; one runs at a time, under s_umount *)

Start(name, first) == op = "none" /\ op' = name /\ step' = first

LoadModule ==
  /\ held = {} /\ Start("init", "inode_cachep")
  /\ UNCHANGED <<want, new_opt, resources, memory, disk, epc, rev, nfree, history>>

\* The file system type holds the module while something is mounted.
UnloadModule ==
  /\ held = Module /\ Start("exit", "exit_ext2_fs")
  /\ UNCHANGED <<want, new_opt, resources, memory, disk, epc, rev, nfree, history>>

Mount ==
  /\ held = Module /\ Start("mount", "sbi")
  /\ rdonly' \in BOOLEAN
  /\ UNCHANGED <<want, new_opt, resources, s_mount_opt, es, s_mount_state, dirty, disk, epc,
                 rev, nfree, history>>

\* sync_filesystem leaves a read-only file system alone.
Sync ==
  /\ Mounted /\ ~rdonly /\ Start("sync", "sync_valid")
  /\ UNCHANGED <<want, new_opt, resources, memory, disk, epc, rev, nfree, history>>

Remount ==
  /\ Mounted /\ Start("remount", IF rdonly THEN "remount" ELSE "sync_valid")
  /\ want' \in BOOLEAN /\ new_opt' \in ErrorsOpt \cup {"bad"}
  /\ UNCHANGED <<resources, memory, disk, epc, rev, nfree, history>>

\* No file is in use any more, and the dentries go first.
Umount ==
  /\ Mounted /\ epc = "none"
  /\ Start("umount", IF rdonly THEN "put_super" ELSE "sync_valid")
  /\ held' = held \ {"dentry"}
  /\ UNCHANGED <<want, new_opt, group_desc, memory, disk, epc, rev, nfree, history>>

Finish ==
  /\ op # "none" /\ step = "end"
  /\ op' = "none" /\ want' = FALSE /\ new_opt' = "ERRORS_CONT"
  /\ UNCHANGED <<step, resources, memory, disk, epc, rev, nfree, history>>

-----------------------------------------------------------------------------
(* The steps *)

Succeed == step' = Order[step]
Fail == step' = Label[step]

\* Something is acquired or tested; or it fails.
Acquire ==
  /\ step \in DOMAIN Label \ {"sbh", "geometry", "options", "descriptor", "descriptors", "dentry"}
  /\ \/ Succeed /\ held' = IF step = "blocksize" THEN held ELSE held \cup {step}
     \/ Fail /\ UNCHANGED held
  /\ UNCHANGED <<op, want, new_opt, group_desc, memory, disk, epc, rev, nfree, history>>

ReadSuper ==
  /\ step = "sbh"
  /\ \/ Succeed /\ held' = held \cup {"sbh"} /\ es' = disk
     \/ Fail /\ UNCHANGED <<held, es>>
  /\ UNCHANGED <<op, want, new_opt, group_desc, rdonly, s_mount_opt, s_mount_state, dirty,
                 disk, epc, rev, nfree, history>>

\* The magic number, then the options, on top of those the disk asks for, then the
\* features.
Options ==
  /\ step = "options"
  /\ \/ Succeed /\ s_mount_opt' \in ErrorsOpt
     \/ Fail /\ UNCHANGED s_mount_opt
  /\ UNCHANGED <<op, want, new_opt, resources, rdonly, es, s_mount_state, dirty, disk, epc,
                 rev, nfree, history>>

\* With another block size the buffer is given back and read again: fine or not
\* needed, the block size is refused or the read fails, or no magic number in it.
Reread ==
  /\ step = "reread"
  /\ \/ Succeed /\ UNCHANGED held
     \/ step' = "failed_sbi" /\ held' = held \ {"sbh"}
     \/ step' = "failed_mount" /\ UNCHANGED held
  /\ UNCHANGED <<op, want, new_opt, group_desc, memory, disk, epc, rev, nfree, history>>

Geometry ==
  /\ step = "geometry"
  /\ s_mount_state' = StateOf(es)
  /\ Succeed \/ Fail
  /\ UNCHANGED <<op, want, new_opt, resources, rdonly, s_mount_opt, es, dirty, disk, epc,
                 rev, nfree, history>>

Descriptor ==
  /\ step = "descriptor"
  /\ \/ /\ group_desc' = group_desc + 1
        /\ step' = IF group_desc' < db_count THEN "descriptor" ELSE "descriptors"
     \/ Fail /\ group_desc' = 0
  /\ UNCHANGED <<op, want, new_opt, held, memory, disk, epc, rev, nfree, history>>

\* ext2_check_descriptors reports what it finds wrong through ext2_error.
Descriptors ==
  /\ step = "descriptors"
  /\ \/ Succeed /\ UNCHANGED epc
     \/ Fail /\ epc' = "test"
  /\ UNCHANGED <<op, want, new_opt, resources, memory, disk, rev, nfree, history>>

\* d_make_root takes the root inode over, or puts it.
Dentry ==
  /\ step = "dentry"
  /\ \/ Succeed /\ held' = (held \ {"root"}) \cup {"dentry"}
     \/ Fail /\ held' = held \ {"root"}
  /\ UNCHANGED <<op, want, new_opt, group_desc, memory, disk, epc, rev, nfree, history>>

\* ext2_check_super: too high a revision makes the mount read-only.
CheckSuper ==
  /\ step = "check_super"
  /\ rdonly' = (rdonly \/ rev = "high")
  /\ Succeed
  /\ UNCHANGED <<op, want, new_opt, resources, s_mount_opt, es, s_mount_state, dirty, disk,
                 epc, rev, nfree, history>>

\* Mutant of WriteSuperOp: the mount does not write.
WriteSuperOp_Skip ==
  /\ step = "write_super"
  /\ step' = Return[step][op]
  /\ UNCHANGED <<op, want, new_opt, resources, memory, disk, epc, rev, nfree, history>>

\* ext2_write_super.  A remount to read-write finds the file system read-only here
\* when the revision is too high, or when ext2_error came in between, and the VFS
\* makes it read-write all the same.
WriteSuperOp ==
  /\ step = "write_super"
  /\ step' = IF rdonly THEN Return[step][op] ELSE "ws_valid"
  /\ excused' = (excused \/ (op = "remount" /\ rdonly))
  /\ UNCHANGED <<op, want, new_opt, resources, memory, disk, epc, rev, nfree, touched, damaged,
                 errored, unclean>>

ClearValid ==
  /\ step \in {"ws_valid", "sync_valid", "wait_valid"}
  /\ es' = [es EXCEPT !.valid = FALSE]
  /\ Succeed
  /\ UNCHANGED <<op, want, new_opt, resources, rdonly, s_mount_opt, s_mount_state, dirty, disk,
                 epc, rev, nfree, history>>

MarkSuperOp ==
  /\ step = "sync_mark" /\ MarkSuper
  /\ Succeed
  /\ UNCHANGED <<op, want, new_opt, resources, rdonly, s_mount_opt, s_mount_state, disk, epc,
                 rev, nfree, history>>

SyncSuper ==
  /\ step \in {"ws_super", "wait_super", "ro_super", "put_sync"} /\ WriteSuper
  /\ step' = CASE step = "ws_super" -> Return["write_super"][op]
              [] step = "wait_super" -> Return["wait_super"][op]
              [] OTHER -> Order[step]
  /\ UNCHANGED <<op, want, new_opt, resources, rdonly, s_mount_opt, s_mount_state, epc, rev,
                 nfree, touched, damaged, errored>>

\* The VFS writes all inodes and data.  Nobody looks at the result.
Writeout ==
  /\ step = "writeout"
  /\ \/ touched' = FALSE /\ UNCHANGED excused
     \/ touched /\ excused' = TRUE /\ UNCHANGED touched
  /\ Succeed
  /\ UNCHANGED <<op, want, new_opt, resources, memory, disk, epc, rev, nfree, damaged, errored,
                 unclean>>

\* Mutant of PutState: the state found at mount time is not put back.
PutState_Keep ==
  /\ step = "put_state"
  /\ Succeed
  /\ UNCHANGED <<op, want, new_opt, resources, memory, disk, epc, rev, nfree, history>>

PutState ==
  /\ step = "put_state"
  /\ es' = [es EXCEPT !.valid = s_mount_state.valid, !.error = s_mount_state.error]
  /\ Succeed
  /\ UNCHANGED <<op, want, new_opt, resources, rdonly, s_mount_opt, s_mount_state, dirty, disk,
                 epc, rev, nfree, history>>

\* The labels of ext2_fill_super and init_ext2_fs, and the ends of ext2_put_super
\* and exit_ext2_fs.
Release ==
  /\ step \in Labels /\ epc = "none"
  /\ held' = held \ Released(step)
  /\ group_desc' = IF ReleasesDescriptors(step) THEN 0 ELSE group_desc
  /\ step' = "end"
  /\ Forget
  /\ UNCHANGED <<op, want, new_opt, disk, epc, rev, nfree, history>>

\* ext2_remount, up to where it gives up s_lock to write.
RemountOp ==
  /\ step = "remount"
  /\ \/ /\ new_opt = "bad"
        /\ step' = "end" /\ UNCHANGED <<rdonly, es, s_mount_state, s_mount_opt>>
     \/ /\ new_opt # "bad"
        /\ \/ want = rdonly
           \/ want /\ ~rdonly /\ (es.valid \/ ~s_mount_state.valid)
        /\ step' = "vfs_flags" /\ s_mount_opt' = new_opt
        /\ UNCHANGED <<rdonly, es, s_mount_state>>
     \/ /\ new_opt # "bad"
        /\ want /\ ~rdonly /\ ~es.valid /\ s_mount_state.valid
        /\ es' = [es EXCEPT !.valid = TRUE, !.error = s_mount_state.error]
        /\ step' = "ro_super"
        /\ UNCHANGED <<rdonly, s_mount_state, s_mount_opt>>
     \/ /\ new_opt # "bad"
        /\ ~want /\ rdonly
        /\ s_mount_state' = StateOf(es)
        /\ rdonly' = (rev = "high")
        /\ step' = "write_super"
        /\ UNCHANGED <<es, s_mount_opt>>
  /\ UNCHANGED <<op, want, new_opt, resources, dirty, disk, epc, rev, nfree, history>>

SetOpt ==
  /\ step = "set_opt"
  /\ s_mount_opt' = new_opt
  /\ Succeed
  /\ UNCHANGED <<op, want, new_opt, resources, rdonly, es, s_mount_state, dirty, disk, epc, rev,
                 nfree, history>>

\* When ext2_remount succeeds the VFS sets the flag as it was asked to.
VfsFlags ==
  /\ step = "vfs_flags"
  /\ rdonly' = want
  /\ Succeed
  /\ UNCHANGED <<op, want, new_opt, resources, s_mount_opt, es, s_mount_state, dirty, disk, epc,
                 rev, nfree, history>>

Step ==
  \/ Acquire \/ ReadSuper \/ Options \/ Reread \/ Geometry \/ Descriptor \/ Descriptors
  \/ Dentry \/ CheckSuper \/ WriteSuperOp \/ ClearValid \/ MarkSuperOp \/ SyncSuper \/ Writeout
  \/ PutState \/ Release \/ RemountOp \/ SetOpt \/ VfsFlags

-----------------------------------------------------------------------------
(* ext2_error *)

Crash ==
  /\ op' = "none" /\ step' = "end" /\ want' = FALSE /\ new_opt' = "ERRORS_CONT"
  /\ held' = {} /\ group_desc' = 0 /\ Forget /\ epc' = "none"
  /\ damaged' = (damaged \/ touched) /\ touched' = FALSE
  /\ errored' = (errored /\ disk.error)
  /\ unclean' = (unclean \/ held \ Module # {})
  /\ UNCHANGED <<disk, rev, nfree, excused>>

\* An operation on the mounted file system finds something wrong.
Error ==
  /\ InUse /\ epc = "none"
  /\ epc' = "test"
  /\ UNCHANGED <<vfs, resources, memory, disk, rev, nfree, history>>

\* The flag is tested without the lock.
ErrorTest ==
  /\ epc = "test"
  /\ epc' = IF rdonly THEN "report" ELSE "set"
  /\ unclean' = TRUE
  /\ UNCHANGED <<vfs, resources, memory, disk, rev, nfree, touched, damaged, errored, excused>>

\* Mutant of ErrorSet: the bit is set in the buffer alone.
ErrorSet_BufferOnly ==
  /\ epc = "set"
  /\ es' = [es EXCEPT !.error = TRUE]
  /\ errored' = TRUE
  /\ epc' = "sync"
  /\ UNCHANGED <<vfs, resources, rdonly, s_mount_opt, s_mount_state, dirty, disk, rev, nfree,
                 touched, damaged, unclean, excused>>

ErrorSet ==
  /\ epc = "set"
  /\ s_mount_state' = [s_mount_state EXCEPT !.error = TRUE]
  /\ es' = [es EXCEPT !.error = TRUE]
  /\ errored' = TRUE
  /\ epc' = "sync"
  /\ UNCHANGED <<vfs, resources, rdonly, s_mount_opt, dirty, disk, rev, nfree, touched, damaged,
                 unclean, excused>>

ErrorSync ==
  /\ epc = "sync" /\ WriteSuper
  /\ epc' = "report"
  /\ UNCHANGED <<vfs, resources, rdonly, s_mount_opt, s_mount_state, rev, nfree, touched, damaged,
                 errored>>

\* errors=panic, errors=remount-ro or errors=continue.
ErrorReport ==
  /\ epc = "report"
  /\ \/ s_mount_opt = "ERRORS_PANIC" /\ Crash
     \/ /\ s_mount_opt # "ERRORS_PANIC"
        /\ rdonly' = (rdonly \/ s_mount_opt = "ERRORS_RO")
        /\ epc' = "none"
        /\ UNCHANGED <<vfs, resources, s_mount_opt, es, s_mount_state, dirty, disk, rev, nfree,
                       history>>

ErrorStep == Error \/ ErrorTest \/ ErrorSet \/ ErrorSync \/ ErrorReport

-----------------------------------------------------------------------------
(* The rest of the system *)

\* A remount to read-only keeps writers out before it begins.  A remount to
\* read-write lets them in when the flag of the super block goes, through another
\* mount of it.
Writable == InUse /\ ~rdonly /\ ~(op = "remount" /\ want)

\* Files change; in a remount that may be before it has written the super block.
Touch ==
  /\ Writable
  /\ touched' = TRUE /\ nfree' \in 0..1
  /\ excused' = (excused \/ op = "remount")
  /\ UNCHANGED <<vfs, resources, memory, disk, epc, rev, damaged, errored, unclean>>

\* statfs brings the counts in the buffer up to date.
Statfs ==
  /\ InUse
  /\ es' = [es EXCEPT !.nfree = nfree]
  /\ UNCHANGED <<vfs, resources, rdonly, s_mount_opt, s_mount_state, dirty, disk, epc, rev, nfree,
                 history>>

\* The kernel writes a buffer that is dirty when it likes.
WriteBack ==
  /\ dirty /\ dirty' = FALSE
  /\ \/ disk' = es /\ UNCHANGED <<unclean, excused>>
     \/ UNCHANGED disk /\ unclean' = TRUE /\ excused' = TRUE
  /\ UNCHANGED <<vfs, resources, rdonly, s_mount_opt, es, s_mount_state, epc, rev, nfree, touched,
                 damaged, errored>>

\* e2fsck, on a file system that is not mounted, or mounted read-only: then it
\* writes through the same buffer.
Fsck ==
  /\ op = "none" /\ epc = "none" /\ (Mounted => rdonly) /\ ~touched
  /\ disk' = [valid |-> TRUE, error |-> FALSE, nfree |-> nfree]
  /\ es' = IF Mounted THEN disk' ELSE es
  /\ dirty' = FALSE
  /\ touched' = FALSE /\ damaged' = FALSE /\ errored' = FALSE /\ unclean' = FALSE /\ excused' = FALSE
  /\ UNCHANGED <<vfs, resources, rdonly, s_mount_opt, s_mount_state, epc, rev, nfree>>

Next ==
  \/ LoadModule \/ UnloadModule \/ Mount \/ Sync \/ Remount \/ Umount \/ Finish
  \/ Step \/ ErrorStep
  \/ Crash \/ Touch \/ Statfs \/ WriteBack \/ Fsck

Spec == Init /\ [][Next]_vars

-----------------------------------------------------------------------------
(* Properties *)

\* A mount that fails, at whatever step, and an unmount give back exactly what was
\* acquired: nothing is freed twice and nothing is kept (super.c:299-309,
\* 723-743, 770-773).  A percpu counter that was never set up may be destroyed.
UnwindExact ==
  /\ TypeOK
  /\ step \in Labels =>
       /\ Released(step) \ Counters \subseteq held
       /\ held \ Released(step) = IF op \in {"init", "exit"} THEN {} ELSE Module
       /\ group_desc = IF ReleasesDescriptors(step) THEN db_count ELSE 0

\* Whenever power is lost, a file system the disk calls valid has no change that
\* did not reach the disk, in this life or in an earlier one, and the right count
\* of free blocks; unless a write of the super block or of the data failed (the
\* result of sync_filesystem at super.c:403 is ignored), or for one of the reasons
\* at Touch and WriteSuperOp (super.c:291-298, 327-333, 416-441, 717-719).
ValidMeansSynced ==
  disk.valid /\ ~excused => ~touched /\ ~damaged /\ disk.nfree = nfree

\* An error that ext2_error recorded stays on the disk until it is checked, over
\* any sequence of syncs, remounts and unmounts; unless a write failed
\* (super.c:33-36, 295, 425, 436).
ErrorRecorded == errored /\ epc # "sync" => disk.error \/ excused

\* A file system that was valid, is unmounted in order and had no error is valid
\* again: e2fsck is asked for with a reason only.
CleanUnmount == op = "none" /\ ~Mounted /\ ~disk.valid => unclean
=============================================================================
