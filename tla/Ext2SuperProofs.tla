--------------------------- MODULE Ext2SuperProofs ---------------------------
(***************************************************************************)
(* Proofs about the super block of ext2-lite: what a mount acquires it     *)
(* gives back whatever fails, the disk is called valid only when it is, a  *)
(* recorded error stays on the disk, and an unmount in order leaves the    *)
(* disk valid.  Each for any number of blocks of group descriptors.        *)
(***************************************************************************)
EXTENDS Ext2Super, TLAPS

-----------------------------------------------------------------------------
(* What is held at each step *)

Locks == {"sbi", "blockgroup_lock"}
Buffer == Module \cup Locks \cup {"sbh"}
Table == Buffer \cup {"array"}
Full == Table \cup Counters \cup {"dentry"}

InitSteps == {"inode_cachep", "registered", "destroy_inodecache"}
MountSteps ==
  {"sbi", "blockgroup_lock", "blocksize", "sbh", "options", "reread", "geometry", "array",
   "descriptor", "descriptors", "freeblocks", "freeinodes", "dirs", "root", "dentry",
   "check_super", "kfree_sbi", "failed_sbi", "failed_mount", "failed_mount_group_desc",
   "failed_mount2", "failed_mount3"}
SyncSteps == {"sync_valid", "sync_mark", "writeout", "wait_valid", "wait_super"}
WriteSteps == {"write_super", "ws_valid", "ws_super"}

AllSteps ==
  InitSteps \cup MountSteps \cup SyncSteps \cup WriteSteps
  \cup {"failed", "exit_ext2_fs", "remount", "ro_super", "set_opt", "vfs_flags", "put_state",
        "put_sync", "put_super", "end"}

\* Which operation is at which step.
Stage ==
  /\ op = "none" => step = "end"
  /\ step \in InitSteps => op = "init"
  /\ step = "exit_ext2_fs" => op = "exit"
  /\ step = "failed" => op \in {"init", "mount"}
  /\ step \in MountSteps => op = "mount"
  /\ step \in WriteSteps => op \in {"mount", "remount"}
  /\ step \in SyncSteps => op \in {"sync", "remount", "umount"}
  /\ step \in {"remount", "ro_super", "set_opt", "vfs_flags"} => op = "remount"
  /\ step \in {"put_state", "put_sync", "put_super"} => op = "umount"
  /\ op = "remount" /\ step \in {"ro_super", "set_opt", "vfs_flags"} \cup WriteSteps => new_opt # "bad"
  /\ op = "remount" /\ step \in WriteSteps => ~want
  /\ step = "ro_super" => want

Own(have, count) == held = have /\ group_desc = count

\* What has been acquired by the time a step comes.
Inventory ==
  /\ step = "inode_cachep" => Own({}, 0)
  /\ step \in {"registered", "destroy_inodecache"} => Own({"inode_cachep"}, 0)
  /\ step \in {"exit_ext2_fs", "sbi"} => Own(Module, 0)
  /\ step = "failed" => Own(IF op = "init" THEN {} ELSE Module, 0)
  /\ step \in {"blockgroup_lock", "kfree_sbi"} => Own(Module \cup {"sbi"}, 0)
  /\ step \in {"blocksize", "sbh", "failed_sbi"} => Own(Module \cup Locks, 0)
  /\ step \in {"options", "reread", "geometry", "array", "failed_mount"} => Own(Buffer, 0)
  /\ step = "descriptor" => held = Table /\ group_desc < db_count
  /\ step = "failed_mount_group_desc" => Own(Table, 0)
  /\ step \in {"descriptors", "failed_mount2", "freeblocks"} => Own(Table, db_count)
  /\ step = "freeinodes" => Own(Table \cup {"freeblocks"}, db_count)
  /\ step = "dirs" => Own(Table \cup {"freeblocks", "freeinodes"}, db_count)
  /\ step = "root" => Own(Table \cup Counters, db_count)
  /\ step = "dentry" => Own(Table \cup Counters \cup {"root"}, db_count)
  /\ step = "failed_mount3" => held \ Counters = Table /\ group_desc = db_count
  /\ step \in {"check_super", "remount", "ro_super", "set_opt", "vfs_flags"} \cup WriteSteps =>
       Own(Full, db_count)
  /\ step \in SyncSteps =>
       Own(IF op = "umount" THEN Table \cup Counters ELSE Full, db_count)
  /\ step \in {"put_state", "put_sync", "put_super"} => Own(Table \cup Counters, db_count)

\* What an operation that is through leaves behind.
Leaves ==
  step = "end" =>
    /\ op \in {"none", "init", "exit", "mount"} => Own({}, 0) \/ Own(Module, 0) \/ Own(Full, db_count)
    /\ op \in {"init", "exit"} => held # Full
    /\ op = "mount" => held # {}
    /\ op = "umount" => Own(Module, 0)
    /\ op \in {"remount", "sync"} => Own(Full, db_count)

\* ext2_error runs on a file system in use, or ends a mount.
Reporting == epc # "none" => InUse \/ step = "failed_mount2"

Waiting == dirty => step \in {"writeout", "wait_valid", "wait_super"}

\* The types, part by part.
Control ==
  /\ op \in {"none", "init", "exit", "mount", "remount", "sync", "umount"}
  /\ step \in AllSteps
  /\ group_desc \in 0..db_count
  /\ epc \in {"none", "test", "set", "sync", "report"}
Flags ==
  /\ rdonly \in BOOLEAN /\ want \in BOOLEAN /\ dirty \in BOOLEAN
  /\ touched \in BOOLEAN /\ damaged \in BOOLEAN /\ errored \in BOOLEAN
  /\ unclean \in BOOLEAN /\ excused \in BOOLEAN
Records ==
  /\ s_mount_opt \in ErrorsOpt /\ new_opt \in ErrorsOpt \cup {"bad"}
  /\ es \in Super /\ disk \in Super /\ s_mount_state \in State
  /\ rev \in {"good", "high"} /\ nfree \in 0..1

Resources ==
  /\ Control /\ Flags /\ Records
  /\ Stage /\ Inventory /\ Leaves /\ Reporting /\ Waiting

-----------------------------------------------------------------------------
(* Errors *)

Loaded == "sbh" \in held

\* The super block was read and its state taken over.
Known == Loaded /\ step \notin {"options", "reread", "geometry", "failed_mount"}

ErrorInv ==
  /\ ErrorRecorded
  /\ Loaded /\ errored /\ ~excused => es.error
  /\ Known /\ errored /\ ~excused => s_mount_state.error

-----------------------------------------------------------------------------
(* Validity *)

\* A file system in use is not called valid, in the buffer or on the disk.
Serving ==
  \/ op \in {"none", "sync", "mount", "remount"} /\ step = "end" /\ ~rdonly
  \/ op \in {"sync", "remount"} /\ step \in SyncSteps \cup {"remount"} /\ ~rdonly
  \/ step \in {"set_opt", "vfs_flags"} /\ ~want

\* A writer can no longer come in.
Closing == op = "umount" \/ (op = "remount" /\ want)

SyncInv ==
  /\ ValidMeansSynced
  /\ Loaded /\ es.valid /\ ~excused => ~touched /\ ~damaged /\ es.nfree = nfree
  /\ Known /\ s_mount_state.valid /\ ~excused => ~damaged
  /\ Mounted /\ Serving /\ ~excused => ~es.valid /\ ~disk.valid
  /\ Closing /\ (step \in {"wait_valid", "wait_super", "put_state"} \/ (step = "remount" /\ ~rdonly))
       => ~touched \/ excused
  /\ step = "ws_super" => ~es.valid
  /\ Closing /\ (step = "put_state" \/ (step = "remount" /\ ~rdonly)) => es.nfree = nfree

-----------------------------------------------------------------------------
(* A clean unmount *)

\* Nothing has happened that calls for a check.
Trusted ==
  /\ ~Mounted /\ (op # "umount" \/ step \in {"put_super", "end"}) => disk.valid
  /\ op = "mount" /\ step \notin {"ws_super", "end"} =>
       disk.valid /\ (Loaded => step = "ws_valid" \/ es.valid)
  /\ Mounted /\ rdonly /\ step \in {"end", "remount"} => es.valid /\ disk.valid
  /\ step \in SyncSteps \cup {"put_state", "ws_valid", "ws_super"} => ~rdonly
  /\ op = "remount" /\ step \in {"write_super", "ws_valid"} => es.valid /\ disk.valid
  /\ want /\ step \in {"set_opt", "vfs_flags"} => es.valid /\ disk.valid
  /\ step = "put_sync" => es.valid
  /\ Known /\ (op = "mount" \/ ~rdonly \/ step \in WriteSteps
               \/ (~want /\ step \in {"set_opt", "vfs_flags"}))
       => s_mount_state.valid

CleanInv ==
  /\ epc \in {"set", "sync", "report"} => unclean
  /\ step = "wait_super" \/ (step = "remount" /\ ~rdonly) => ~es.valid
  /\ step = "ro_super" => es.valid
  /\ ~unclean => Trusted

-----------------------------------------------------------------------------
(* The order of the steps *)

\* The labels are these.
LEMMA LabelSet ==
  Labels = {"failed", "kfree_sbi", "failed_sbi", "failed_mount", "failed_mount_group_desc",
            "failed_mount2", "failed_mount3", "destroy_inodecache", "put_super", "exit_ext2_fs"}
<1>1. DOMAIN Label =
        {"sbi", "blockgroup_lock", "blocksize", "sbh", "options", "geometry", "array",
         "descriptor", "descriptors", "freeblocks", "freeinodes", "dirs", "root", "dentry",
         "inode_cachep", "registered"}
  BY DEF Label
<1>2. {Label[s] : s \in DOMAIN Label} =
        {"failed", "kfree_sbi", "failed_sbi", "failed_mount", "failed_mount_group_desc",
         "failed_mount2", "failed_mount3", "destroy_inodecache"}
  BY <1>1 DEF Label
<1> QED
  BY <1>2 DEF Labels

\* And the steps these.
LEMMA StepSet ==
  DOMAIN Order \cup DOMAIN Return \cup Labels \cup {"descriptor", "ws_super", "remount", "end"}
    = AllSteps
BY LabelSet DEF Order, Return, AllSteps, InitSteps, MountSteps, SyncSteps, WriteSteps

\* The step after a step that succeeds.
LEMMA OrderIs ==
  /\ Order["inode_cachep"] = "registered"
  /\ Order["registered"] = "end"
  /\ Order["sbi"] = "blockgroup_lock"
  /\ Order["blockgroup_lock"] = "blocksize"
  /\ Order["blocksize"] = "sbh"
  /\ Order["sbh"] = "options"
  /\ Order["options"] = "reread"
  /\ Order["reread"] = "geometry"
  /\ Order["geometry"] = "array"
  /\ Order["array"] = "descriptor"
  /\ Order["descriptors"] = "freeblocks"
  /\ Order["freeblocks"] = "freeinodes"
  /\ Order["freeinodes"] = "dirs"
  /\ Order["dirs"] = "root"
  /\ Order["root"] = "dentry"
  /\ Order["dentry"] = "check_super"
  /\ Order["check_super"] = "write_super"
  /\ Order["ws_valid"] = "ws_super"
  /\ Order["sync_valid"] = "sync_mark"
  /\ Order["sync_mark"] = "writeout"
  /\ Order["writeout"] = "wait_valid"
  /\ Order["wait_valid"] = "wait_super"
  /\ Order["ro_super"] = "set_opt"
  /\ Order["set_opt"] = "vfs_flags"
  /\ Order["vfs_flags"] = "end"
  /\ Order["put_state"] = "put_sync"
  /\ Order["put_sync"] = "put_super"
BY DEF Order

\* Where a step that fails goes to.
LEMMA LabelIs ==
  /\ Label["sbi"] = "failed"
  /\ Label["blockgroup_lock"] = "kfree_sbi"
  /\ Label["blocksize"] = "failed_sbi"
  /\ Label["sbh"] = "failed_sbi"
  /\ Label["options"] = "failed_mount"
  /\ Label["geometry"] = "failed_mount"
  /\ Label["array"] = "failed_mount"
  /\ Label["descriptor"] = "failed_mount_group_desc"
  /\ Label["descriptors"] = "failed_mount2"
  /\ Label["freeblocks"] = "failed_mount3"
  /\ Label["freeinodes"] = "failed_mount3"
  /\ Label["dirs"] = "failed_mount3"
  /\ Label["root"] = "failed_mount3"
  /\ Label["dentry"] = "failed_mount3"
  /\ Label["inode_cachep"] = "failed"
  /\ Label["registered"] = "destroy_inodecache"
BY DEF Label

\* Where a routine that is shared goes on.
LEMMA ReturnIs ==
  /\ Return["write_super"]["mount"] = "end"
  /\ Return["write_super"]["remount"] = "set_opt"
  /\ Return["wait_super"]["sync"] = "end"
  /\ Return["wait_super"]["remount"] = "remount"
  /\ Return["wait_super"]["umount"] = "put_state"
BY DEF Return

\* The steps at which something is acquired or tested, and no more.
LEMMA AcquireSet ==
  DOMAIN Label \ {"sbh", "geometry", "options", "descriptor", "descriptors", "dentry"} =
    {"sbi", "blockgroup_lock", "blocksize", "array", "freeblocks", "freeinodes", "dirs", "root",
     "inode_cachep", "registered"}
BY DEF Label

-----------------------------------------------------------------------------
(* The types and what is held: every action *)

\* The operation, the step and the number of descriptor blocks keep their types.
LEMMA ControlNext ==
  ASSUME Resources, Next
  PROVE  Control'
<1>1. CASE LoadModule
  BY <1>1 DEF Resources, Control, LoadModule, Start, resources, InitSteps, AllSteps
<1>2. CASE UnloadModule
  BY <1>2 DEF Resources, Control, UnloadModule, Start, resources, AllSteps
<1>3. CASE Mount
  BY <1>3 DEF Resources, Control, Mount, Start, resources, MountSteps, AllSteps
<1>4. CASE Sync
  BY <1>4 DEF Resources, Control, Sync, Start, resources, SyncSteps, AllSteps
<1>5. CASE Remount
  BY <1>5 DEF Resources, Control, Remount, Start, resources, SyncSteps, AllSteps
<1>6. CASE Umount
  BY <1>6 DEF Resources, Control, Umount, Start, SyncSteps, AllSteps
<1>7. CASE Finish
  BY <1>7 DEF Resources, Control, Finish, resources
<1>8. CASE Acquire
  BY <1>8, OrderIs, LabelIs, AcquireSet DEF Resources, Control, Acquire, Succeed, Fail,
     InitSteps, MountSteps, AllSteps
<1>9. CASE ReadSuper
  BY <1>9, OrderIs, LabelIs DEF Resources, Control, ReadSuper, Succeed, Fail, MountSteps,
     AllSteps
<1>10. CASE Options
  BY <1>10, OrderIs, LabelIs DEF Resources, Control, Options, Succeed, Fail, resources,
     MountSteps, AllSteps
<1>11. CASE Reread
  BY <1>11, OrderIs DEF Resources, Control, Reread, Succeed, MountSteps, AllSteps
<1>12. CASE Geometry
  BY <1>12, OrderIs, LabelIs DEF Resources, Control, Geometry, Succeed, Fail, resources,
     MountSteps, AllSteps
<1>13. CASE Descriptor
  BY <1>13, SuperAssumption, LabelIs DEF Resources, Control, Inventory, Descriptor, Fail,
     MountSteps, AllSteps
<1>14. CASE Descriptors
  BY <1>14, OrderIs, LabelIs DEF Resources, Control, Descriptors, Succeed, Fail, resources,
     MountSteps, AllSteps
<1>15. CASE Dentry
  BY <1>15, OrderIs, LabelIs DEF Resources, Control, Dentry, Succeed, Fail, MountSteps,
     AllSteps
<1>16. CASE CheckSuper
  BY <1>16, OrderIs DEF Resources, Control, CheckSuper, Succeed, resources, WriteSteps,
     AllSteps
<1>17. CASE WriteSuperOp
  BY <1>17, ReturnIs DEF Resources, Control, Stage, WriteSuperOp, resources, WriteSteps,
     AllSteps
<1>18. CASE ClearValid
  BY <1>18, OrderIs DEF Resources, Control, ClearValid, Succeed, resources, SyncSteps,
     WriteSteps, AllSteps
<1>19. CASE MarkSuperOp
  BY <1>19, OrderIs DEF Resources, Control, MarkSuperOp, Succeed, resources, SyncSteps,
     AllSteps
<1>20. CASE SyncSuper
  BY <1>20, OrderIs, ReturnIs DEF Resources, Control, Stage, SyncSuper, WriteSuper,
     resources, SyncSteps, WriteSteps, AllSteps
<1>21. CASE Writeout
  BY <1>21, OrderIs DEF Resources, Control, Writeout, Succeed, resources, SyncSteps,
     AllSteps
<1>22. CASE PutState
  BY <1>22, OrderIs DEF Resources, Control, PutState, Succeed, resources, AllSteps
<1>23. CASE Release
  BY <1>23, SuperAssumption DEF Resources, Control, Release, AllSteps
<1>24. CASE RemountOp
  BY <1>24 DEF Resources, Control, RemountOp, resources, WriteSteps, AllSteps
<1>25. CASE SetOpt
  BY <1>25, OrderIs DEF Resources, Control, SetOpt, Succeed, resources, AllSteps
<1>26. CASE VfsFlags
  BY <1>26, OrderIs DEF Resources, Control, VfsFlags, Succeed, resources, AllSteps
<1>27. CASE Crash
  BY <1>27, SuperAssumption DEF Resources, Control, Crash, AllSteps
<1>28. CASE Error
  BY <1>28 DEF Resources, Control, Error, vfs, resources
<1>29. CASE ErrorTest
  BY <1>29 DEF Resources, Control, ErrorTest, vfs, resources
<1>30. CASE ErrorSet
  BY <1>30 DEF Resources, Control, ErrorSet, vfs, resources
<1>31. CASE ErrorSync
  BY <1>31 DEF Resources, Control, ErrorSync, WriteSuper, vfs, resources
<1>32. CASE ErrorReport
  BY <1>32, SuperAssumption DEF Resources, Control, ErrorReport, Crash, vfs, resources,
     AllSteps
<1>33. CASE Touch
  BY <1>33 DEF Resources, Control, Touch, vfs, resources
<1>34. CASE Statfs
  BY <1>34 DEF Resources, Control, Statfs, vfs, resources
<1>35. CASE WriteBack
  BY <1>35 DEF Resources, Control, WriteBack, vfs, resources
<1>36. CASE Fsck
  BY <1>36 DEF Resources, Control, Fsck, vfs, resources
<1> QED
  BY <1>1, <1>2, <1>3, <1>4, <1>5, <1>6, <1>7, <1>8, <1>9, <1>10, <1>11, <1>12, <1>13,
     <1>14, <1>15, <1>16, <1>17, <1>18, <1>19, <1>20, <1>21, <1>22, <1>23, <1>24, <1>25,
     <1>26, <1>27, <1>28, <1>29, <1>30, <1>31, <1>32, <1>33, <1>34, <1>35, <1>36 DEF Next,
     Step, ErrorStep

\* So do the flags ...
LEMMA FlagsNext ==
  ASSUME Resources, Next
  PROVE  Flags'
<1>1. CASE LoadModule
  BY <1>1 DEF Resources, Flags, LoadModule, memory, history
<1>2. CASE UnloadModule
  BY <1>2 DEF Resources, Flags, UnloadModule, memory, history
<1>3. CASE Mount
  BY <1>3 DEF Resources, Flags, Mount, history
<1>4. CASE Sync
  BY <1>4 DEF Resources, Flags, Sync, memory, history
<1>5. CASE Remount
  BY <1>5 DEF Resources, Flags, Remount, memory, history
<1>6. CASE Umount
  BY <1>6 DEF Resources, Flags, Umount, memory, history
<1>7. CASE Finish
  BY <1>7 DEF Resources, Flags, Finish, memory, history
<1>8. CASE Acquire
  BY <1>8 DEF Resources, Flags, Acquire, memory, history
<1>9. CASE ReadSuper
  BY <1>9 DEF Resources, Flags, ReadSuper, history
<1>10. CASE Options
  BY <1>10 DEF Resources, Flags, Options, history
<1>11. CASE Reread
  BY <1>11 DEF Resources, Flags, Reread, memory, history
<1>12. CASE Geometry
  BY <1>12 DEF Resources, Flags, Geometry, history
<1>13. CASE Descriptor
  BY <1>13 DEF Resources, Flags, Descriptor, memory, history
<1>14. CASE Descriptors
  BY <1>14 DEF Resources, Flags, Descriptors, memory, history
<1>15. CASE Dentry
  BY <1>15 DEF Resources, Flags, Dentry, memory, history
<1>16. CASE CheckSuper
  BY <1>16 DEF Resources, Flags, CheckSuper, history
<1>17. CASE WriteSuperOp
  BY <1>17 DEF Resources, Flags, WriteSuperOp, memory
<1>18. CASE ClearValid
  BY <1>18 DEF Resources, Flags, ClearValid, history
<1>19. CASE MarkSuperOp
  BY <1>19 DEF Resources, Flags, MarkSuperOp, MarkSuper, history
<1>20. CASE SyncSuper
  BY <1>20 DEF Resources, Flags, SyncSuper, WriteSuper
<1>21. CASE Writeout
  BY <1>21 DEF Resources, Flags, Writeout, memory
<1>22. CASE PutState
  BY <1>22 DEF Resources, Flags, PutState, history
<1>23. CASE Release
  BY <1>23 DEF Resources, Flags, Release, Forget, history
<1>24. CASE RemountOp
  BY <1>24 DEF Resources, Flags, RemountOp, history
<1>25. CASE SetOpt
  BY <1>25 DEF Resources, Flags, SetOpt, history
<1>26. CASE VfsFlags
  BY <1>26 DEF Resources, Flags, VfsFlags, history
<1>27. CASE Crash
  BY <1>27 DEF Resources, Flags, Crash, Forget
<1>28. CASE Error
  BY <1>28 DEF Resources, Flags, Error, vfs, memory, history
<1>29. CASE ErrorTest
  BY <1>29 DEF Resources, Flags, ErrorTest, vfs, memory
<1>30. CASE ErrorSet
  BY <1>30 DEF Resources, Flags, ErrorSet, vfs
<1>31. CASE ErrorSync
  BY <1>31 DEF Resources, Flags, ErrorSync, WriteSuper, vfs
<1>32. CASE ErrorReport
  BY <1>32 DEF Resources, Flags, ErrorReport, Crash, Forget, vfs, history
<1>33. CASE Touch
  BY <1>33 DEF Resources, Flags, Touch, vfs, memory
<1>34. CASE Statfs
  BY <1>34 DEF Resources, Flags, Statfs, vfs, history
<1>35. CASE WriteBack
  BY <1>35 DEF Resources, Flags, WriteBack, vfs
<1>36. CASE Fsck
  BY <1>36 DEF Resources, Flags, Fsck, vfs
<1> QED
  BY <1>1, <1>2, <1>3, <1>4, <1>5, <1>6, <1>7, <1>8, <1>9, <1>10, <1>11, <1>12, <1>13,
     <1>14, <1>15, <1>16, <1>17, <1>18, <1>19, <1>20, <1>21, <1>22, <1>23, <1>24, <1>25,
     <1>26, <1>27, <1>28, <1>29, <1>30, <1>31, <1>32, <1>33, <1>34, <1>35, <1>36 DEF Next,
     Step, ErrorStep

\* ... and the copies of the super block.
LEMMA RecordsNext ==
  ASSUME Resources, Next
  PROVE  Records'
<1>1. CASE LoadModule
  BY <1>1 DEF Resources, Records, LoadModule, memory
<1>2. CASE UnloadModule
  BY <1>2 DEF Resources, Records, UnloadModule, memory
<1>3. CASE Mount
  BY <1>3 DEF Resources, Records, Mount
<1>4. CASE Sync
  BY <1>4 DEF Resources, Records, Sync, memory
<1>5. CASE Remount
  BY <1>5 DEF Resources, Records, Remount, memory
<1>6. CASE Umount
  BY <1>6 DEF Resources, Records, Umount, memory
<1>7. CASE Finish
  BY <1>7 DEF Resources, Records, Finish, memory, ErrorsOpt
<1>8. CASE Acquire
  BY <1>8 DEF Resources, Records, Acquire, memory
<1>9. CASE ReadSuper
  BY <1>9 DEF Resources, Records, ReadSuper
<1>10. CASE Options
  BY <1>10 DEF Resources, Records, Options
<1>11. CASE Reread
  BY <1>11 DEF Resources, Records, Reread, memory
<1>12. CASE Geometry
  BY <1>12 DEF Resources, Records, Geometry, Super, State, StateOf
<1>13. CASE Descriptor
  BY <1>13 DEF Resources, Records, Descriptor, memory
<1>14. CASE Descriptors
  BY <1>14 DEF Resources, Records, Descriptors, memory
<1>15. CASE Dentry
  BY <1>15 DEF Resources, Records, Dentry, memory
<1>16. CASE CheckSuper
  BY <1>16 DEF Resources, Records, CheckSuper
<1>17. CASE WriteSuperOp
  BY <1>17 DEF Resources, Records, WriteSuperOp, memory
<1>18. CASE ClearValid
  BY <1>18 DEF Resources, Records, ClearValid, Super
<1>19. CASE MarkSuperOp
  BY <1>19 DEF Resources, Records, MarkSuperOp, MarkSuper, Super
<1>20. CASE SyncSuper
  BY <1>20 DEF Resources, Records, SyncSuper, WriteSuper, Super
<1>21. CASE Writeout
  BY <1>21 DEF Resources, Records, Writeout, memory
<1>22. CASE PutState
  BY <1>22 DEF Resources, Records, PutState, Super, State
<1>23. CASE Release
  BY <1>23 DEF Resources, Records, Release, Forget, Super, State, Blank, StateOf, ErrorsOpt
<1>24. CASE RemountOp
  <2>1. s_mount_state' = s_mount_state \/ s_mount_state' = StateOf(es)
    BY <1>24 DEF RemountOp
  <2>2. StateOf(es) \in State
    BY DEF Resources, Records, StateOf, Super, State
  <2>3. \/ es' = es
        \/ es' = [es EXCEPT !.valid = TRUE, !.error = s_mount_state.error]
    BY <1>24 DEF RemountOp
  <2>4. [es EXCEPT !.valid = TRUE, !.error = s_mount_state.error] \in Super
    BY DEF Resources, Records, Super, State
  <2>5. s_mount_opt' \in ErrorsOpt
    BY <1>24 DEF RemountOp, Resources, Records
  <2> QED
    BY <1>24, <2>1, <2>2, <2>3, <2>4, <2>5 DEF RemountOp, Resources, Records
<1>25. CASE SetOpt
  BY <1>25 DEF Resources, Records, SetOpt, Stage
<1>26. CASE VfsFlags
  BY <1>26 DEF Resources, Records, VfsFlags
<1>27. CASE Crash
  BY <1>27 DEF Resources, Records, Crash, Forget, Super, State, Blank, StateOf, ErrorsOpt
<1>28. CASE Error
  BY <1>28 DEF Resources, Records, Error, vfs, memory
<1>29. CASE ErrorTest
  BY <1>29 DEF Resources, Records, ErrorTest, vfs, memory
<1>30. CASE ErrorSet
  BY <1>30 DEF Resources, Records, ErrorSet, vfs, Super, State
<1>31. CASE ErrorSync
  BY <1>31 DEF Resources, Records, ErrorSync, WriteSuper, vfs, Super
<1>32. CASE ErrorReport
  <2>1. CASE Crash
    BY <1>32, <2>1 DEF Resources, Records, ErrorReport, Crash, Forget, Super, State, Blank,
       StateOf, ErrorsOpt
  <2>2. CASE s_mount_opt # "ERRORS_PANIC"
    BY <1>32, <2>2 DEF Resources, Records, ErrorReport, vfs
  <2> QED
    BY <1>32, <2>1, <2>2 DEF ErrorReport
<1>33. CASE Touch
  BY <1>33 DEF Resources, Records, Touch, vfs, memory
<1>34. CASE Statfs
  BY <1>34 DEF Resources, Records, Statfs, vfs, Super
<1>35. CASE WriteBack
  BY <1>35 DEF Resources, Records, WriteBack, vfs
<1>36. CASE Fsck
  BY <1>36 DEF Resources, Records, Fsck, vfs, Super
<1> QED
  BY <1>1, <1>2, <1>3, <1>4, <1>5, <1>6, <1>7, <1>8, <1>9, <1>10, <1>11, <1>12, <1>13,
     <1>14, <1>15, <1>16, <1>17, <1>18, <1>19, <1>20, <1>21, <1>22, <1>23, <1>24, <1>25,
     <1>26, <1>27, <1>28, <1>29, <1>30, <1>31, <1>32, <1>33, <1>34, <1>35, <1>36 DEF Next,
     Step, ErrorStep

\* Each step finds what it expects to be held and leaves what the next one expects.
LEMMA HeldNext ==
  ASSUME Resources, Next
  PROVE  Stage' /\ Inventory' /\ Leaves' /\ Reporting' /\ Waiting'
<1>1. CASE LoadModule
  BY <1>1 DEF Resources, Stage, Inventory, Leaves, Reporting, Waiting, LoadModule, Start,
     resources, memory, MountSteps, SyncSteps, WriteSteps, Own, Full, InUse, Mounted
<1>2. CASE UnloadModule
  BY <1>2 DEF Resources, Stage, Inventory, Leaves, Reporting, Waiting, UnloadModule, Start,
     resources, memory, Module, InitSteps, MountSteps, SyncSteps, WriteSteps, Own, Full,
     InUse, Mounted
<1>3. CASE Mount
  BY <1>3 DEF Resources, Stage, Inventory, Leaves, Reporting, Waiting, Mount, Start,
     resources, Module, InitSteps, SyncSteps, WriteSteps, Own, Full, InUse, Mounted
<1>4. CASE Sync
  BY <1>4 DEF Resources, Stage, Inventory, Leaves, Reporting, Waiting, Sync, Start,
     resources, memory, Mounted, InitSteps, MountSteps, WriteSteps, Own, Module, InUse
<1>5. CASE Remount
  BY <1>5 DEF Resources, Stage, Inventory, Leaves, Reporting, Waiting, Remount, Start,
     resources, memory, Mounted, InitSteps, MountSteps, WriteSteps, Own, Module, InUse
<1>6. CASE Umount
  BY <1>6 DEF Resources, Stage, Inventory, Leaves, Reporting, Waiting, Umount, Start,
     memory, Mounted, InitSteps, MountSteps, WriteSteps, Own, Locks, Buffer, Table, Full,
     Module, Counters
<1>7. CASE Finish
  BY <1>7 DEF Resources, Control, Stage, Inventory, Leaves, Reporting, Waiting, Finish,
     resources, memory, InitSteps, MountSteps, SyncSteps, WriteSteps, Own, InUse, Mounted
<1>8. CASE Acquire
  BY <1>8, SuperAssumption, OrderIs, LabelIs, AcquireSet DEF Resources, Stage, Inventory,
     Leaves, Reporting, Waiting, Acquire, Succeed, Fail, memory, InitSteps, MountSteps,
     SyncSteps, WriteSteps, Own, Locks, Buffer, Table, Full, Module, Counters, InUse,
     Mounted
<1>9. CASE ReadSuper
  BY <1>9, OrderIs, LabelIs DEF Resources, Stage, Inventory, Leaves, Reporting, Waiting,
     ReadSuper, Succeed, Fail, InitSteps, MountSteps, SyncSteps, WriteSteps, Own, Locks,
     Buffer, Table, InUse
<1>10. CASE Options
  BY <1>10, OrderIs, LabelIs DEF Resources, Stage, Inventory, Leaves, Reporting, Waiting,
     Options, Succeed, Fail, resources, InitSteps, MountSteps, SyncSteps, WriteSteps, Own,
     InUse
<1>11. CASE Reread
  BY <1>11, OrderIs DEF Resources, Stage, Inventory, Leaves, Reporting, Waiting, Reread,
     Succeed, memory, InitSteps, MountSteps, SyncSteps, WriteSteps, Own, Locks, Buffer,
     Table, Module, InUse
<1>12. CASE Geometry
  BY <1>12, OrderIs, LabelIs DEF Resources, Stage, Inventory, Leaves, Reporting, Waiting,
     Geometry, Succeed, Fail, resources, InitSteps, MountSteps, SyncSteps, WriteSteps, Own,
     InUse
<1>13. CASE Descriptor
  BY <1>13, SuperAssumption, LabelIs DEF Resources, Control, Stage, Inventory, Leaves,
     Reporting, Waiting, Descriptor, Fail, memory, InitSteps, MountSteps, SyncSteps,
     WriteSteps, Own, InUse
<1>14. CASE Descriptors
  BY <1>14, OrderIs, LabelIs DEF Resources, Stage, Inventory, Leaves, Reporting, Waiting,
     Descriptors, Succeed, Fail, resources, memory, InitSteps, MountSteps, SyncSteps,
     WriteSteps, Own, InUse
<1>15. CASE Dentry
  BY <1>15, OrderIs, LabelIs DEF Resources, Stage, Inventory, Leaves, Reporting, Waiting,
     Dentry, Succeed, Fail, memory, InitSteps, MountSteps, SyncSteps, WriteSteps, Own,
     Locks, Buffer, Table, Full, Module, Counters, InUse
<1>16. CASE CheckSuper
  BY <1>16, OrderIs DEF Resources, Stage, Inventory, Leaves, Reporting, Waiting, CheckSuper,
     Succeed, resources, InitSteps, MountSteps, SyncSteps, Own, InUse
<1>17. CASE WriteSuperOp
  BY <1>17, ReturnIs DEF Resources, Stage, Inventory, Leaves, Reporting, Waiting,
     WriteSuperOp, resources, memory, InitSteps, MountSteps, SyncSteps, WriteSteps, Own,
     Full, InUse, Mounted
<1>18. CASE ClearValid
  BY <1>18, OrderIs DEF Resources, Stage, Inventory, Leaves, Reporting, Waiting, ClearValid,
     Succeed, resources, InitSteps, MountSteps, SyncSteps, WriteSteps, Own, InUse, Mounted
<1>19. CASE MarkSuperOp
  BY <1>19, OrderIs DEF Resources, Stage, Inventory, Leaves, Reporting, Waiting,
     MarkSuperOp, Succeed, resources, InitSteps, MountSteps, SyncSteps, WriteSteps, Own,
     InUse, Mounted
<1>20. CASE SyncSuper
  BY <1>20, OrderIs, ReturnIs DEF Resources, Stage, Inventory, Leaves, Reporting, Waiting,
     SyncSuper, WriteSuper, resources, InitSteps, MountSteps, SyncSteps, WriteSteps, Own,
     Full, InUse, Mounted
<1>21. CASE Writeout
  BY <1>21, OrderIs DEF Resources, Stage, Inventory, Leaves, Reporting, Waiting, Writeout,
     Succeed, resources, InitSteps, MountSteps, SyncSteps, WriteSteps, Own, InUse, Mounted
<1>22. CASE PutState
  BY <1>22, OrderIs DEF Resources, Stage, Inventory, Leaves, Reporting, Waiting, PutState,
     Succeed, resources, InitSteps, MountSteps, WriteSteps, Own, InUse, Mounted
<1>23. CASE Release
  BY <1>23, LabelSet DEF Resources, Stage, Inventory, Leaves, Reporting, Waiting, Release,
     Forget, Released, Module, Counters, ReleasesDescriptors, InitSteps, MountSteps,
     SyncSteps, WriteSteps, Own, Locks, Buffer, Table, Full
<1>24. CASE RemountOp
  BY <1>24 DEF Resources, Stage, Inventory, Leaves, Reporting, Waiting, RemountOp,
     resources, InitSteps, MountSteps, WriteSteps, Own, InUse, Mounted
<1>25. CASE SetOpt
  BY <1>25, OrderIs DEF Resources, Stage, Inventory, Leaves, Reporting, Waiting, SetOpt,
     Succeed, resources, InitSteps, MountSteps, WriteSteps, Own, InUse, Mounted
<1>26. CASE VfsFlags
  BY <1>26, OrderIs DEF Resources, Stage, Inventory, Leaves, Reporting, Waiting, VfsFlags,
     Succeed, resources, InitSteps, MountSteps, WriteSteps, Own, InUse, Mounted
<1>27. CASE Crash
  BY <1>27 DEF Resources, Stage, Inventory, Leaves, Reporting, Waiting, Crash, Forget,
     InitSteps, MountSteps, SyncSteps, WriteSteps, Own
<1>28. CASE Error
  BY <1>28 DEF Resources, Stage, Inventory, Leaves, Reporting, Waiting, Error, vfs,
     resources, memory, InUse, Mounted, Own
<1>29. CASE ErrorTest
  BY <1>29 DEF Resources, Stage, Inventory, Leaves, Reporting, Waiting, ErrorTest, vfs,
     resources, memory, Own, InUse, Mounted
<1>30. CASE ErrorSet
  BY <1>30 DEF Resources, Stage, Inventory, Leaves, Reporting, Waiting, ErrorSet, vfs,
     resources, Own, InUse, Mounted
<1>31. CASE ErrorSync
  BY <1>31 DEF Resources, Stage, Inventory, Leaves, Reporting, Waiting, ErrorSync,
     WriteSuper, vfs, resources, Own, InUse, Mounted
<1>32. CASE ErrorReport
  BY <1>32 DEF Resources, Stage, Inventory, Leaves, Reporting, Waiting, ErrorReport, Crash,
     Forget, vfs, resources, InitSteps, MountSteps, SyncSteps, WriteSteps, Own
<1>33. CASE Touch
  BY <1>33 DEF Resources, Stage, Inventory, Leaves, Reporting, Waiting, Touch, vfs,
     resources, memory, InUse, Mounted, Own
<1>34. CASE Statfs
  BY <1>34 DEF Resources, Stage, Inventory, Leaves, Reporting, Waiting, Statfs, vfs,
     resources, InUse, Mounted, Own
<1>35. CASE WriteBack
  BY <1>35 DEF Resources, Stage, Inventory, Leaves, Reporting, Waiting, WriteBack, vfs,
     resources, Own, InUse, Mounted
<1>36. CASE Fsck
  BY <1>36 DEF Resources, Stage, Inventory, Leaves, Reporting, Waiting, Fsck, vfs,
     resources, Own
<1> QED
  BY <1>1, <1>2, <1>3, <1>4, <1>5, <1>6, <1>7, <1>8, <1>9, <1>10, <1>11, <1>12, <1>13,
     <1>14, <1>15, <1>16, <1>17, <1>18, <1>19, <1>20, <1>21, <1>22, <1>23, <1>24, <1>25,
     <1>26, <1>27, <1>28, <1>29, <1>30, <1>31, <1>32, <1>33, <1>34, <1>35, <1>36 DEF Next,
     Step, ErrorStep

\* What ext2_remount does, branch by branch.
LEMMA RemountEffect ==
  ASSUME Resources, RemountOp
  PROVE  /\ step = "remount"
         /\ UNCHANGED <<op, want, new_opt, held, group_desc, dirty, disk, epc, rev, nfree, touched,
                       damaged, errored, unclean, excused>>
         /\ \/ step' = "end" /\ UNCHANGED <<rdonly, es, s_mount_state>>
            \/ /\ step' = "vfs_flags" /\ UNCHANGED <<rdonly, es, s_mount_state>>
               /\ rdonly => want
               /\ want => rdonly \/ es.valid \/ ~s_mount_state.valid
            \/ /\ step' = "ro_super" /\ UNCHANGED <<rdonly, s_mount_state>>
               /\ want /\ ~rdonly /\ s_mount_state.valid
               /\ es'.valid /\ es'.nfree = es.nfree /\ es'.error = s_mount_state.error
            \/ /\ step' = "write_super" /\ UNCHANGED es
               /\ ~want /\ rdonly
               /\ s_mount_state'.valid = es.valid /\ s_mount_state'.error = es.error
<1>1. CASE new_opt = "bad"
  BY <1>1 DEF RemountOp, resources, history
<1>2. CASE /\ new_opt # "bad"
           /\ want = rdonly \/ (want /\ ~rdonly /\ (es.valid \/ ~s_mount_state.valid))
  BY <1>2 DEF RemountOp, resources, history, Resources, Flags
<1>3. CASE new_opt # "bad" /\ want /\ ~rdonly /\ ~es.valid /\ s_mount_state.valid
  BY <1>3 DEF RemountOp, resources, history, Resources, Flags, Records, Super, State
<1>4. CASE new_opt # "bad" /\ ~want /\ rdonly
  <2>1. want # rdonly
    BY <1>4, Zenon
  <2>2. s_mount_state' = StateOf(es) /\ step' = "write_super" /\ UNCHANGED es
    BY <1>4, <2>1, Zenon DEF RemountOp
  <2>3. s_mount_state'.valid = es.valid /\ s_mount_state'.error = es.error
    BY <2>2 DEF StateOf
  <2> QED
    BY <1>4, <2>2, <2>3 DEF RemountOp, resources, history
<1> QED
  BY <1>1, <1>2, <1>3, <1>4 DEF RemountOp

\* What writing the super block does to it, and what putting the state back does.
LEMMA WriteEffect ==
  ASSUME Resources, WriteSuper
  PROVE  /\ (es'.valid <=> es.valid) /\ (es'.error <=> es.error) /\ es'.nfree = nfree /\ ~dirty'
         /\ \/ disk' = es' /\ UNCHANGED <<unclean, excused>>
            \/ UNCHANGED disk /\ unclean' /\ excused'
BY DEF WriteSuper, Resources, Records, Super

\* ext2_put_super gives the buffer the state the mount found, and no other count.
LEMMA PutEffect ==
  ASSUME Resources, PutState
  PROVE  (es'.valid <=> s_mount_state.valid) /\ (es'.error <=> s_mount_state.error) /\ es'.nfree = es.nfree
BY DEF PutState, Resources, Records, Super

\* A step keeps the error in every copy of the state that outlives it.
LEMMA ErrorNext ==
  ASSUME Resources, ErrorInv, Next
  PROVE  ErrorInv'
<1>1. CASE LoadModule
  BY <1>1 DEF Resources, ErrorInv, ErrorRecorded, Loaded, Known, LoadModule, resources,
     history
<1>2. CASE UnloadModule
  BY <1>2 DEF Resources, ErrorInv, ErrorRecorded, Loaded, Known, UnloadModule, resources,
     history, Module
<1>3. CASE Mount
  BY <1>3 DEF Resources, ErrorInv, ErrorRecorded, Loaded, Known, Mount, resources, history,
     Module
<1>4. CASE Sync
  BY <1>4 DEF Resources, Stage, ErrorInv, ErrorRecorded, Loaded, Known, Sync, Start,
     resources, memory, history
<1>5. CASE Remount
  BY <1>5 DEF Resources, Stage, ErrorInv, ErrorRecorded, Loaded, Known, Remount, Start,
     resources, memory, history
<1>6. CASE Umount
  BY <1>6 DEF Resources, Stage, ErrorInv, ErrorRecorded, Loaded, Known, Umount, Start,
     memory, history
<1>7. CASE Finish
  BY <1>7 DEF Resources, ErrorInv, ErrorRecorded, Loaded, Known, Finish, resources, memory,
     history
<1>8. CASE Acquire
  BY <1>8, AcquireSet DEF Resources, ErrorInv, ErrorRecorded, Loaded, Known, Acquire,
     memory, history
<1>9. CASE ReadSuper
  BY <1>9, OrderIs DEF Resources, Stage, Reporting, ErrorInv, ErrorRecorded, Loaded, Known,
     ReadSuper, Succeed, history, MountSteps, InUse
<1>10. CASE Options
  BY <1>10, OrderIs, LabelIs DEF Resources, ErrorInv, ErrorRecorded, Loaded, Known, Options,
     Succeed, Fail, resources, history
<1>11. CASE Reread
  BY <1>11, OrderIs DEF Resources, ErrorInv, ErrorRecorded, Loaded, Known, Reread, Succeed,
     memory, history
<1>12. CASE Geometry
  BY <1>12 DEF Resources, ErrorInv, ErrorRecorded, Loaded, Known, Geometry, resources,
     history, StateOf
<1>13. CASE Descriptor
  BY <1>13 DEF Resources, ErrorInv, ErrorRecorded, Loaded, Known, Descriptor, memory,
     history
<1>14. CASE Descriptors
  BY <1>14 DEF Resources, Stage, Reporting, ErrorInv, ErrorRecorded, Loaded, Known,
     Descriptors, resources, memory, history, MountSteps, InUse
<1>15. CASE Dentry
  BY <1>15 DEF Resources, ErrorInv, ErrorRecorded, Loaded, Known, Dentry, memory, history
<1>16. CASE CheckSuper
  BY <1>16 DEF Resources, ErrorInv, ErrorRecorded, Loaded, Known, CheckSuper, resources,
     history
<1>17. CASE WriteSuperOp
  BY <1>17 DEF Resources, ErrorInv, ErrorRecorded, Loaded, Known, WriteSuperOp, resources,
     memory
<1>18. CASE ClearValid
  BY <1>18 DEF Resources, ErrorInv, ErrorRecorded, Loaded, Known, ClearValid, resources,
     history
<1>19. CASE MarkSuperOp
  BY <1>19 DEF Resources, ErrorInv, ErrorRecorded, Loaded, Known, MarkSuperOp, MarkSuper,
     resources, history
<1>20. CASE SyncSuper
  <2>1. WriteSuper
    BY <1>20 DEF SyncSuper
  <2>2. CASE step = "ws_super"
    BY <1>20, <2>1, <2>2, WriteEffect DEF Resources, Inventory, ErrorInv, ErrorRecorded,
       Loaded, Known, SyncSuper, WriteSteps, Own, Locks, Buffer, Table, Full
  <2>3. CASE step = "wait_super"
    BY <1>20, <2>1, <2>3, WriteEffect DEF Resources, Inventory, ErrorInv, ErrorRecorded,
       Loaded, Known, SyncSuper, SyncSteps, Own, Locks, Buffer, Table, Full
  <2>4. CASE step = "ro_super"
    BY <1>20, <2>1, <2>4, WriteEffect DEF Resources, Inventory, ErrorInv, ErrorRecorded,
       Loaded, Known, SyncSuper, Own, Locks, Buffer, Table, Full
  <2>5. CASE step = "put_sync"
    BY <1>20, <2>1, <2>5, WriteEffect DEF Resources, Inventory, ErrorInv, ErrorRecorded,
       Loaded, Known, SyncSuper, Own, Locks, Buffer, Table
  <2> QED
    BY <1>20, <2>2, <2>3, <2>4, <2>5 DEF SyncSuper
<1>21. CASE Writeout
  BY <1>21 DEF Resources, ErrorInv, ErrorRecorded, Loaded, Known, Writeout, resources,
     memory
<1>22. CASE PutState
  BY <1>22, PutEffect DEF Resources, ErrorInv, ErrorRecorded, Loaded, Known, PutState,
     resources, history
<1>23. CASE Release
  BY <1>23, LabelSet DEF Resources, Inventory, ErrorInv, ErrorRecorded, Loaded, Known,
     Release, history, Released, Module, Own, Locks, Buffer, Table
<1>24. CASE RemountOp
  BY <1>24, RemountEffect DEF Resources, ErrorInv, ErrorRecorded, Loaded, Known
<1>25. CASE SetOpt
  BY <1>25 DEF Resources, ErrorInv, ErrorRecorded, Loaded, Known, SetOpt, resources, history
<1>26. CASE VfsFlags
  BY <1>26 DEF Resources, ErrorInv, ErrorRecorded, Loaded, Known, VfsFlags, resources,
     history
<1>27. CASE Crash
  BY <1>27 DEF Resources, ErrorInv, ErrorRecorded, Loaded, Known, Crash
<1>28. CASE Error
  BY <1>28 DEF Resources, ErrorInv, ErrorRecorded, Loaded, Known, Error, vfs, resources,
     memory, history
<1>29. CASE ErrorTest
  BY <1>29 DEF Resources, ErrorInv, ErrorRecorded, Loaded, Known, ErrorTest, vfs, resources,
     memory
<1>30. CASE ErrorSet
  BY <1>30 DEF Resources, ErrorInv, ErrorRecorded, ErrorSet
<1>31. CASE ErrorSync
  <2>1. WriteSuper
    BY <1>31, Zenon DEF ErrorSync
  <2> QED
    BY <1>31, <2>1, WriteEffect DEF Resources, Control, Stage, Inventory, Leaves, Reporting,
       ErrorInv, ErrorRecorded, Loaded, Known, ErrorSync, InitSteps, AllSteps, Own, Locks,
       Buffer, Table, Full, Module, InUse, Mounted
<1>32. CASE ErrorReport
  BY <1>32 DEF Resources, Flags, ErrorInv, ErrorRecorded, Loaded, Known, ErrorReport, Crash,
     vfs, resources, history
<1>33. CASE Touch
  BY <1>33 DEF Resources, ErrorInv, ErrorRecorded, Loaded, Known, Touch, vfs, resources,
     memory
<1>34. CASE Statfs
  BY <1>34 DEF Resources, ErrorInv, ErrorRecorded, Loaded, Known, Statfs, vfs, resources,
     history
<1>35. CASE WriteBack
  BY <1>35 DEF Resources, Inventory, Waiting, ErrorInv, ErrorRecorded, Loaded, Known,
     WriteBack, SyncSteps, Own, Locks, Buffer, Table, Full
<1>36. CASE Fsck
  BY <1>36 DEF Resources, ErrorInv, ErrorRecorded, Fsck
<1> QED
  BY <1>1, <1>2, <1>3, <1>4, <1>5, <1>6, <1>7, <1>8, <1>9, <1>10, <1>11, <1>12, <1>13,
     <1>14, <1>15, <1>16, <1>17, <1>18, <1>19, <1>20, <1>21, <1>22, <1>23, <1>24, <1>25,
     <1>26, <1>27, <1>28, <1>29, <1>30, <1>31, <1>32, <1>33, <1>34, <1>35, <1>36 DEF Next,
     Step, ErrorStep

\* A step that makes a copy valid comes after the sync, with no writer left.
LEMMA SyncNext ==
  ASSUME Resources, SyncInv, Next
  PROVE  SyncInv'
<1>1. CASE LoadModule
  BY <1>1 DEF Resources, SyncInv, ValidMeansSynced, Loaded, Known, Serving, LoadModule,
     Start, resources, history
<1>2. CASE UnloadModule
  BY <1>2 DEF Resources, SyncInv, ValidMeansSynced, Loaded, Known, Serving, UnloadModule,
     Start, resources, history, Module
<1>3. CASE Mount
  BY <1>3 DEF Resources, SyncInv, ValidMeansSynced, Loaded, Known, Serving, Mount, Start,
     resources, history, Module
<1>4. CASE Sync
  BY <1>4 DEF Resources, Stage, SyncInv, ValidMeansSynced, Loaded, Known, Serving, Sync,
     Start, resources, memory, history
<1>5. CASE Remount
  BY <1>5 DEF Resources, Stage, SyncInv, ValidMeansSynced, Loaded, Known, Serving, Remount,
     Start, resources, memory, history
<1>6. CASE Umount
  BY <1>6 DEF Resources, Stage, SyncInv, ValidMeansSynced, Loaded, Known, Serving, Umount,
     Start, memory, history
<1>7. CASE Finish
  BY <1>7 DEF Resources, Control, Leaves, SyncInv, ValidMeansSynced, Loaded, Known, Serving,
     Finish, resources, memory, history, Own, Module, Mounted
<1>8. CASE Acquire
  BY <1>8, OrderIs, LabelIs, AcquireSet DEF Resources, Stage, SyncInv, ValidMeansSynced,
     Loaded, Known, Serving, Acquire, Succeed, Fail, memory, history, SyncSteps, InitSteps
<1>9. CASE ReadSuper
  BY <1>9, OrderIs, LabelIs DEF Resources, SyncInv, ValidMeansSynced, Loaded, Known,
     Serving, ReadSuper, Succeed, Fail, history, SyncSteps
<1>10. CASE Options
  BY <1>10, OrderIs, LabelIs DEF Resources, SyncInv, ValidMeansSynced, Loaded, Known,
     Serving, Options, Succeed, Fail, resources, history, SyncSteps
<1>11. CASE Reread
  BY <1>11, OrderIs DEF Resources, SyncInv, ValidMeansSynced, Loaded, Known, Serving,
     Reread, Succeed, memory, history, SyncSteps
<1>12. CASE Geometry
  BY <1>12, OrderIs, LabelIs DEF Resources, SyncInv, ValidMeansSynced, Loaded, Known,
     Serving, Geometry, Succeed, Fail, resources, history, SyncSteps, StateOf
<1>13. CASE Descriptor
  BY <1>13, LabelIs DEF Resources, SyncInv, ValidMeansSynced, Loaded, Known, Serving,
     Descriptor, Fail, memory, history, SyncSteps
<1>14. CASE Descriptors
  BY <1>14, OrderIs, LabelIs DEF Resources, SyncInv, ValidMeansSynced, Loaded, Known,
     Serving, Descriptors, Succeed, Fail, resources, memory, history, SyncSteps
<1>15. CASE Dentry
  BY <1>15, OrderIs, LabelIs DEF Resources, SyncInv, ValidMeansSynced, Loaded, Known,
     Serving, Dentry, Succeed, Fail, memory, history, SyncSteps
<1>16. CASE CheckSuper
  BY <1>16, OrderIs DEF Resources, SyncInv, ValidMeansSynced, Loaded, Known, Serving,
     CheckSuper, Succeed, resources, history, SyncSteps
<1>17. CASE WriteSuperOp
  BY <1>17, ReturnIs DEF Resources, Stage, SyncInv, ValidMeansSynced, Loaded, Known,
     Serving, WriteSuperOp, resources, memory, SyncSteps, WriteSteps
<1>18. CASE ClearValid
  BY <1>18, OrderIs DEF Resources, SyncInv, ValidMeansSynced, Loaded, Known, Serving,
     Closing, ClearValid, Succeed, resources, history, SyncSteps, Mounted
<1>19. CASE MarkSuperOp
  BY <1>19, OrderIs DEF Resources, SyncInv, ValidMeansSynced, Loaded, Known, Serving,
     MarkSuperOp, Succeed, MarkSuper, resources, history, SyncSteps, Mounted
<1>20. CASE SyncSuper
  <2>1. WriteSuper
    BY <1>20 DEF SyncSuper
  <2>2. CASE step = "ws_super"
    BY <1>20, <2>1, <2>2, WriteEffect DEF Resources, Stage, SyncInv, ValidMeansSynced,
       Loaded, Known, Closing, SyncSuper, resources, WriteSteps
  <2>3. CASE step = "wait_super"
    BY <1>20, <2>1, <2>3, WriteEffect, ReturnIs DEF Resources, Stage, Inventory, SyncInv,
       ValidMeansSynced, Loaded, Known, Serving, Closing, SyncSuper, SyncSteps, Own, Locks,
       Buffer, Table, Full, Mounted
  <2>4. CASE step = "ro_super"
    BY <1>20, <2>1, <2>4, WriteEffect, OrderIs DEF Resources, Stage, Inventory, SyncInv,
       ValidMeansSynced, Loaded, Known, Serving, SyncSuper, SyncSteps, Own, Locks, Buffer,
       Table, Full
  <2>5. CASE step = "put_sync"
    BY <1>20, <2>1, <2>5, WriteEffect, OrderIs DEF Resources, Inventory, SyncInv,
       ValidMeansSynced, Loaded, Known, SyncSuper, resources, Own, Locks, Buffer, Table,
       Module, Counters, Mounted
  <2> QED
    BY <1>20, <2>2, <2>3, <2>4, <2>5 DEF SyncSuper
<1>21. CASE Writeout
  BY <1>21, OrderIs DEF Resources, SyncInv, ValidMeansSynced, Loaded, Known, Serving,
     Writeout, Succeed, resources, memory, SyncSteps, Mounted
<1>22. CASE PutState
  BY <1>22, PutEffect, OrderIs DEF Resources, Stage, SyncInv, ValidMeansSynced, Loaded,
     Known, Serving, Closing, PutState, Succeed, resources, history
<1>23. CASE Release
  BY <1>23, LabelSet DEF Resources, Inventory, SyncInv, ValidMeansSynced, Loaded, Known,
     Release, history, Released, Module, Own, Locks, Buffer, Table, Mounted
<1>24. CASE RemountOp
  BY <1>24, RemountEffect DEF Resources, Stage, SyncInv, ValidMeansSynced, Loaded, Known,
     Serving, Closing, SyncSteps, Mounted
<1>25. CASE SetOpt
  BY <1>25, OrderIs DEF Resources, SyncInv, ValidMeansSynced, Loaded, Known, Serving,
     SetOpt, Succeed, resources, history, SyncSteps, Mounted
<1>26. CASE VfsFlags
  BY <1>26, OrderIs DEF Resources, SyncInv, ValidMeansSynced, Loaded, Known, Serving,
     VfsFlags, Succeed, resources, history, Mounted
<1>27. CASE Crash
  BY <1>27 DEF Resources, SyncInv, ValidMeansSynced, Loaded, Known, Crash, Mounted
<1>28. CASE Error
  BY <1>28 DEF Resources, SyncInv, ValidMeansSynced, Loaded, Known, Serving, Closing, Error,
     vfs, resources, memory, history, Mounted
<1>29. CASE ErrorTest
  BY <1>29 DEF Resources, SyncInv, ValidMeansSynced, Loaded, Known, Serving, Closing,
     ErrorTest, vfs, resources, memory, Mounted
<1>30. CASE ErrorSet
  BY <1>30 DEF Resources, SyncInv, ValidMeansSynced, Loaded, Known, Serving, Closing,
     ErrorSet, vfs, resources, Mounted
<1>31. CASE ErrorSync
  <2>1. WriteSuper
    BY <1>31, Zenon DEF ErrorSync
  <2> QED
    BY <1>31, <2>1, WriteEffect DEF Resources, Control, Stage, Inventory, Leaves, Reporting,
       SyncInv, ValidMeansSynced, Loaded, Known, Serving, Closing, ErrorSync, vfs,
       InitSteps, AllSteps, Own, Locks, Buffer, Table, Full, Module, InUse, Mounted
<1>32. CASE ErrorReport
  BY <1>32 DEF Resources, Flags, SyncInv, ValidMeansSynced, Loaded, Known, Serving, Closing,
     ErrorReport, Crash, vfs, resources, history, Mounted
<1>33. CASE Touch
  BY <1>33 DEF Resources, Control, Flags, Records, Stage, Inventory, Leaves, SyncInv,
     ValidMeansSynced, Loaded, Known, Serving, Closing, Touch, vfs, memory, Writable, InUse,
     Mounted, InitSteps, AllSteps, Own, Locks, Buffer, Table, Full, Module, Counters, Super
<1>34. CASE Statfs
  BY <1>34 DEF Resources, SyncInv, ValidMeansSynced, Loaded, Known, Serving, Closing,
     Statfs, vfs, resources, history, Mounted
<1>35. CASE WriteBack
  BY <1>35 DEF Resources, Inventory, Waiting, SyncInv, ValidMeansSynced, Loaded, Known,
     Serving, Closing, WriteBack, vfs, SyncSteps, Own, Locks, Buffer, Table, Full, Mounted
<1>36. CASE Fsck
  BY <1>36 DEF Resources, Stage, Leaves, SyncInv, ValidMeansSynced, Loaded, Serving, Fsck,
     vfs, resources, Mounted, Own, Full, Module
<1> QED
  BY <1>1, <1>2, <1>3, <1>4, <1>5, <1>6, <1>7, <1>8, <1>9, <1>10, <1>11, <1>12, <1>13,
     <1>14, <1>15, <1>16, <1>17, <1>18, <1>19, <1>20, <1>21, <1>22, <1>23, <1>24, <1>25,
     <1>26, <1>27, <1>28, <1>29, <1>30, <1>31, <1>32, <1>33, <1>34, <1>35, <1>36 DEF Next,
     Step, ErrorStep

\* While nothing has happened that calls for a check, each step finds the copy of
\* the state it takes over valid.
LEMMA CleanNext ==
  ASSUME Resources, CleanInv, Next
  PROVE  CleanInv'
<1>1. CASE LoadModule
  BY <1>1 DEF Resources, CleanInv, Trusted, Loaded, Known, LoadModule, Start, resources,
     history, SyncSteps, Mounted
<1>2. CASE UnloadModule
  BY <1>2 DEF Resources, CleanInv, Trusted, Loaded, Known, UnloadModule, Start, resources,
     history, Module, SyncSteps, Mounted
<1>3. CASE Mount
  BY <1>3 DEF Resources, CleanInv, Trusted, Loaded, Known, Mount, Start, resources, history,
     Module, SyncSteps, Mounted
<1>4. CASE Sync
  BY <1>4 DEF Resources, Stage, CleanInv, Trusted, Loaded, Known, Sync, Start, resources,
     memory, history, Mounted
<1>5. CASE Remount
  BY <1>5 DEF Resources, Stage, CleanInv, Trusted, Loaded, Known, Remount, Start, resources,
     memory, history, Mounted, SyncSteps, WriteSteps
<1>6. CASE Umount
  BY <1>6 DEF Resources, Stage, CleanInv, Trusted, Loaded, Known, Umount, Start, memory,
     history, SyncSteps, WriteSteps
<1>7. CASE Finish
  BY <1>7 DEF Resources, CleanInv, Trusted, Loaded, Known, Finish, resources, memory,
     history, Mounted
<1>8. CASE Acquire
  BY <1>8, OrderIs, LabelIs, AcquireSet DEF Resources, Stage, Inventory, CleanInv, Trusted,
     Loaded, Known, Acquire, Succeed, Fail, memory, history, SyncSteps, WriteSteps,
     InitSteps, Own, Mounted
<1>9. CASE ReadSuper
  BY <1>9, OrderIs, LabelIs DEF Resources, CleanInv, Trusted, Loaded, Known, ReadSuper,
     Succeed, Fail, history, SyncSteps, WriteSteps, Mounted
<1>10. CASE Options
  BY <1>10, OrderIs, LabelIs DEF Resources, CleanInv, Trusted, Loaded, Known, Options,
     Succeed, Fail, resources, history, SyncSteps, Mounted
<1>11. CASE Reread
  BY <1>11, OrderIs DEF Resources, CleanInv, Trusted, Loaded, Known, Reread, Succeed,
     memory, history, SyncSteps, Mounted
<1>12. CASE Geometry
  BY <1>12, OrderIs, LabelIs DEF Resources, Stage, CleanInv, Trusted, Loaded, Known,
     Geometry, Succeed, Fail, resources, history, SyncSteps, MountSteps, StateOf
<1>13. CASE Descriptor
  BY <1>13, LabelIs DEF Resources, CleanInv, Trusted, Loaded, Known, Descriptor, Fail,
     memory, history, SyncSteps, WriteSteps, Mounted
<1>14. CASE Descriptors
  BY <1>14, OrderIs, LabelIs DEF Resources, CleanInv, Trusted, Loaded, Known, Descriptors,
     Succeed, Fail, resources, memory, history, SyncSteps, WriteSteps, Mounted
<1>15. CASE Dentry
  BY <1>15, OrderIs, LabelIs DEF Resources, CleanInv, Trusted, Loaded, Known, Dentry,
     Succeed, Fail, memory, history, SyncSteps, WriteSteps, Mounted
<1>16. CASE CheckSuper
  <2>1. step = "check_super" /\ step' = "write_super" /\ (rdonly => rdonly')
    BY <1>16, OrderIs, Zenon DEF CheckSuper, Succeed
  <2>2. UNCHANGED <<op, want, held, es, s_mount_state, disk, epc, unclean>>
    BY <1>16 DEF CheckSuper, resources, history
  <2> QED
    BY <2>1, <2>2 DEF Resources, Stage, CleanInv, Trusted, Loaded, Known, SyncSteps,
       MountSteps
<1>17. CASE WriteSuperOp
  BY <1>17, ReturnIs DEF Resources, Stage, Inventory, CleanInv, Trusted, Loaded, Known,
     WriteSuperOp, memory, SyncSteps, WriteSteps, Own, Locks, Buffer, Table, Full
<1>18. CASE ClearValid
  BY <1>18, OrderIs DEF Resources, Stage, CleanInv, Trusted, Loaded, Known, ClearValid,
     Succeed, resources, history, SyncSteps, Mounted
<1>19. CASE MarkSuperOp
  BY <1>19, OrderIs DEF Resources, CleanInv, Trusted, Loaded, Known, MarkSuperOp, Succeed,
     MarkSuper, resources, history, SyncSteps, Mounted
<1>20. CASE SyncSuper
  <2>1. WriteSuper
    BY <1>20 DEF SyncSuper
  <2>2. CASE step = "ws_super"
    BY <1>20, <2>1, <2>2, WriteEffect, ReturnIs DEF Resources, Stage, Inventory, CleanInv,
       Trusted, Loaded, Known, SyncSuper, resources, WriteSteps, Own, Full, Mounted
  <2>3. CASE step = "wait_super"
    BY <1>20, <2>1, <2>3, WriteEffect, ReturnIs DEF Resources, Stage, Inventory, CleanInv,
       Trusted, Loaded, Known, SyncSuper, resources, SyncSteps, Own, Full, Mounted
  <2>4. CASE step = "ro_super"
    BY <1>20, <2>1, <2>4, WriteEffect, OrderIs DEF Resources, Stage, CleanInv, Trusted,
       Loaded, Known, SyncSuper, resources, SyncSteps, WriteSteps
  <2>5. CASE step = "put_sync"
    BY <1>20, <2>1, <2>5, WriteEffect, OrderIs DEF Resources, CleanInv, Trusted, Loaded,
       Known, SyncSuper, resources, SyncSteps, WriteSteps
  <2> QED
    BY <1>20, <2>2, <2>3, <2>4, <2>5 DEF SyncSuper
<1>21. CASE Writeout
  BY <1>21, OrderIs DEF Resources, CleanInv, Trusted, Loaded, Known, Writeout, Succeed,
     resources, memory, SyncSteps, Mounted
<1>22. CASE PutState
  BY <1>22, PutEffect, OrderIs DEF Resources, Inventory, CleanInv, Trusted, Loaded, Known,
     PutState, Succeed, resources, history, Own, Locks, Buffer, Table, Mounted
<1>23. CASE Release
  BY <1>23, LabelSet DEF Resources, Stage, Inventory, CleanInv, Trusted, Loaded, Known,
     Release, Forget, history, Released, Module, Counters, MountSteps, InitSteps, Own,
     Locks, Buffer, Table, Mounted
<1>24. CASE RemountOp
  BY <1>24, RemountEffect DEF Resources, Inventory, CleanInv, Trusted, Loaded, Known,
     SyncSteps, WriteSteps, Own, Locks, Buffer, Table, Full, Mounted
<1>25. CASE SetOpt
  BY <1>25, OrderIs DEF Resources, CleanInv, Trusted, Loaded, Known, SetOpt, Succeed,
     resources, history, SyncSteps, WriteSteps, Mounted
<1>26. CASE VfsFlags
  BY <1>26, OrderIs DEF Resources, Stage, CleanInv, Trusted, Loaded, Known, VfsFlags,
     Succeed, resources, history, SyncSteps, WriteSteps, Mounted
<1>27. CASE Crash
  BY <1>27 DEF Resources, Control, Stage, Inventory, CleanInv, Trusted, Loaded, Known,
     Crash, Forget, Module, AllSteps, Own, Locks, Buffer, Table, Mounted, State
<1>28. CASE Error
  BY <1>28 DEF Resources, CleanInv, Trusted, Loaded, Known, Error, vfs, resources, memory,
     history, Mounted
<1>29. CASE ErrorTest
  BY <1>29 DEF Resources, CleanInv, ErrorTest, vfs, memory
<1>30. CASE ErrorSet
  BY <1>30 DEF Resources, CleanInv, ErrorSet, vfs
<1>31. CASE ErrorSync
  <2>1. unclean /\ unclean'
    BY <1>31, WriteEffect DEF ErrorSync, CleanInv
  <2>2. UNCHANGED <<step, rdonly>> /\ (es'.valid <=> es.valid)
    BY <1>31, WriteEffect DEF ErrorSync, vfs
  <2> QED
    BY <2>1, <2>2 DEF CleanInv
<1>32. CASE ErrorReport
  <2>1. CASE Crash
    BY <2>1 DEF Resources, Control, Stage, Inventory, CleanInv, Trusted, Loaded, Known,
       ErrorReport, Crash, Forget, Module, AllSteps, Own, Locks, Buffer, Table, Mounted,
       State
  <2>2. CASE s_mount_opt # "ERRORS_PANIC"
    <3>1. unclean /\ unclean'
      BY <1>32, <2>2 DEF ErrorReport, CleanInv, history
    <3>2. UNCHANGED <<step, es>> /\ (rdonly => rdonly')
      BY <1>32, <2>2, Zenon DEF ErrorReport, vfs
    <3> QED
      BY <3>1, <3>2 DEF CleanInv
  <2> QED
    BY <1>32, <2>1, <2>2 DEF ErrorReport
<1>33. CASE Touch
  BY <1>33 DEF Resources, CleanInv, Trusted, Loaded, Known, Touch, vfs, resources, memory,
     Mounted
<1>34. CASE Statfs
  BY <1>34 DEF Resources, CleanInv, Trusted, Loaded, Known, Statfs, vfs, resources, history,
     Mounted
<1>35. CASE WriteBack
  BY <1>35 DEF Resources, Stage, Inventory, Waiting, CleanInv, Trusted, Loaded, Known,
     WriteBack, vfs, resources, SyncSteps, Own, Full, Mounted
<1>36. CASE Fsck
  BY <1>36 DEF Resources, Stage, Leaves, CleanInv, Trusted, Loaded, Known, Fsck, vfs,
     resources, Mounted, Own, Full, Module
<1> QED
  BY <1>1, <1>2, <1>3, <1>4, <1>5, <1>6, <1>7, <1>8, <1>9, <1>10, <1>11, <1>12, <1>13,
     <1>14, <1>15, <1>16, <1>17, <1>18, <1>19, <1>20, <1>21, <1>22, <1>23, <1>24, <1>25,
     <1>26, <1>27, <1>28, <1>29, <1>30, <1>31, <1>32, <1>33, <1>34, <1>35, <1>36 DEF Next,
     Step, ErrorStep

-----------------------------------------------------------------------------
(* The theorems *)

\* The parts of the types make the type invariant.
LEMMA TypesMean == Resources => TypeOK
<1>1. SUFFICES ASSUME Resources
               PROVE  TypeOK
  OBVIOUS
<1>2. step \in DOMAIN Order \cup DOMAIN Return \cup Labels
               \cup {"descriptor", "ws_super", "remount", "end"}
  BY <1>1, StepSet DEF Resources, Control
<1>3. held \subseteq Module \cup Counters \cup {"sbi", "blockgroup_lock", "sbh", "array", "root", "dentry"}
  BY <1>1 DEF Resources, Control, Inventory, Leaves, Own, Locks, Buffer, Table, Full,
     Module, Counters, AllSteps, InitSteps, MountSteps, SyncSteps, WriteSteps
<1>4. {rdonly, want, dirty, touched, damaged, errored, unclean, excused} \subseteq BOOLEAN
  BY <1>1 DEF Resources, Flags
<1> QED
  BY <1>1, <1>2, <1>3, <1>4 DEF TypeOK, Resources, Control, Records

\* Reaching a label, the inventory is what the label frees.
LEMMA InventoryMeans == Resources => UnwindExact
<1>1. SUFFICES ASSUME Resources, step \in Labels
               PROVE  /\ Released(step) \ Counters \subseteq held
                      /\ held \ Released(step) = IF op \in {"init", "exit"} THEN {} ELSE Module
                      /\ group_desc = IF ReleasesDescriptors(step) THEN db_count ELSE 0
  BY TypesMean DEF UnwindExact
<1> QED
  BY <1>1, LabelSet DEF Resources, Stage, Inventory, Own, Locks, Buffer, Table, Module,
     Counters, Released, ReleasesDescriptors, InitSteps, MountSteps

\* Nothing is held at first, and a step keeps the inventory.
LEMMA ResourcesHold == Spec => []Resources
<1>1. Init => Resources
  <2>1. SUFFICES ASSUME Init
                 PROVE  Resources
    OBVIOUS
  <2>2. Control
    BY <2>1, SuperAssumption DEF Init, Control, AllSteps
  <2>3. Flags
    BY <2>1 DEF Init, Flags, Super
  <2>4. Records
    BY <2>1 DEF Init, Records, Super, State, StateOf, Blank, ErrorsOpt
  <2>5. Stage /\ Inventory /\ Leaves /\ Reporting /\ Waiting
    BY <2>1 DEF Init, Stage, Inventory, Leaves, Reporting, Waiting, Own, Full, InitSteps,
       MountSteps, SyncSteps, WriteSteps
  <2> QED
    BY <2>2, <2>3, <2>4, <2>5 DEF Resources
<1>2. Resources /\ Next => Resources'
  BY ControlNext, FlagsNext, RecordsNext, HeldNext DEF Resources
<1>3. Resources /\ UNCHANGED vars => Resources'
  BY DEF vars, vfs, resources, memory, history, Resources, Control, Flags, Records, Stage,
     Inventory, Leaves, Reporting, Waiting, Own, InUse, Mounted
<1> QED
  BY <1>1, <1>2, <1>3, PTL DEF Spec

\* A mount that fails at any step, and an unmount, give back exactly what was
\* acquired, whatever the number of descriptor blocks (super.c:299-309, 723-743,
\* 770-773).
THEOREM UnwindCorrect == Spec => []UnwindExact
BY ResourcesHold, InventoryMeans, PTL

\* An error that ext2_error recorded stays on the disk over any sequence of syncs,
\* remounts, unmounts and mounts, until it is checked, unless a write failed
\* (super.c:33-36, 295, 425, 436).
THEOREM ErrorsCorrect == Spec => []ErrorRecorded
<1>1. Init => ErrorInv
  BY DEF Init, ErrorInv, ErrorRecorded, Loaded, Known
<1>2. Resources /\ ErrorInv /\ Next => ErrorInv'
  BY ErrorNext
<1>3. ErrorInv /\ UNCHANGED vars => ErrorInv'
  BY DEF vars, vfs, resources, memory, history, ErrorInv, ErrorRecorded, Loaded, Known
<1>4. ErrorInv => ErrorRecorded
  BY DEF ErrorInv
<1> QED
  BY <1>1, <1>2, <1>3, <1>4, ResourcesHold, PTL DEF Spec

\* Whenever power is lost, a file system the disk calls valid has no change that
\* did not reach the disk and the right count of free blocks, but for the excuses
\* the code has (super.c:291-298, 327-333, 416-441, 717-719).
THEOREM ValidCorrect == Spec => []ValidMeansSynced
<1>1. Init => SyncInv
  BY DEF Init, SyncInv, ValidMeansSynced, Loaded, Known, Mounted, Closing
<1>2. Resources /\ SyncInv /\ Next => SyncInv'
  BY SyncNext
<1>3. SyncInv /\ UNCHANGED vars => SyncInv'
  BY DEF vars, vfs, resources, memory, history, SyncInv, ValidMeansSynced, Loaded, Known,
     Mounted, Serving, Closing
<1>4. SyncInv => ValidMeansSynced
  BY DEF SyncInv
<1> QED
  BY <1>1, <1>2, <1>3, <1>4, ResourcesHold, PTL DEF Spec

\* A file system that was valid, had no error and is unmounted in order is valid
\* again: e2fsck is asked for with a reason only (super.c:285-298, 416-427).
THEOREM CleanCorrect == Spec => []CleanUnmount
<1>1. Init => CleanInv
  BY DEF Init, CleanInv, Trusted, Loaded, Known, Mounted, SyncSteps, WriteSteps
<1>2. Resources /\ CleanInv /\ Next => CleanInv'
  BY CleanNext
<1>3. CleanInv /\ UNCHANGED vars => CleanInv'
  BY DEF vars, vfs, resources, memory, history, CleanInv, Trusted, Loaded, Known, Mounted
<1>4. CleanInv => CleanUnmount
  BY DEF CleanInv, Trusted, CleanUnmount
<1> QED
  BY <1>1, <1>2, <1>3, <1>4, ResourcesHold, PTL DEF Spec
=============================================================================
