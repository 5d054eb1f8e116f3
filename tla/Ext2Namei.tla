----------------------------- MODULE Ext2Namei -----------------------------
(***************************************************************************)
(* The system calls on names of ext2-lite (namei.c) over the inode         *)
(* allocator: processes create, link, rename and remove files and          *)
(* directories at once, and any step that writes a directory may fail.     *)
(*                                                                         *)
(* The VFS is external: it holds the locks of the directories and inodes   *)
(* a call changes, calls with a negative entry for a new name, and frees   *)
(* an inode at its last reference.  A directory is the set of its names;   *)
(* Ext2Dir shows that dir.c keeps it as one.  A page of a directory that   *)
(* cannot be read hides its names from ext2_empty_dir: a directory can be  *)
(* removed with names in it, and the links they were stay counted.         *)
(***************************************************************************)
EXTENDS Ext2Ialloc

CONSTANTS
  Names,
  NoName,   \* a call without a name
  NoProc,   \* nobody holds the lock
  MaxOpen,  \* bound on the inodes open at once
  MaxUnread \* bound on the inodes that lose names with a directory

ASSUME NameiAssumption == NoProc \notin Procs /\ NoName \notin Names

VARIABLES
  nlink,    \* i_nlink of each inode
  ent,      \* entries: <<directory, name>> |-> inode
  dotdot,   \* directories with "." and "..": where ".." leads
  lock,     \* who holds the rwsem of each inode
  opened,   \* inodes kept by an open file
  op,       \* the call a process is in
  vanished  \* names of each inode that went with the directory they were in

nameVars == <<nlink, ent, dotdot, lock, opened, op, vanished>>
vars     == <<ivars, nameVars>>

\* A call on inode i, under the name n of directory d
Call(c, d, n, i) == [call |-> c, dir |-> d, name |-> n, ino |-> i, to |-> d, victim |-> {}]
NoOp == Call("none", EXT2_ROOT_INO, NoName, EXT2_ROOT_INO)

Calls == {"none", "create", "mkdir", "link", "unlink", "rmdir", "rename", "close"}

Labels == {"idle", "new", "scan", "set", "count", "desc", "insert", "got", "failed",
           "evict", "clear", "release", "uncount", "freed",
           "add", "undo", "dec", "drop", "delete", "reparent"}

TypeOK ==
  /\ IallocTypeOK
  /\ pc \in [Procs -> Labels]
  /\ nlink \in [Inodes -> Nat]
  /\ DOMAIN ent \subseteq Inodes \X Names
  /\ \A e \in DOMAIN ent : ent[e] \in live
  /\ DOMAIN dotdot \subseteq dirs
  /\ \A d \in DOMAIN dotdot : dotdot[d] \in dirs
  /\ lock \in [Inodes -> Procs \cup {NoProc}]
  /\ opened \subseteq live
  /\ op \in [Procs -> [call : Calls, dir : Inodes, name : Names \cup {NoName}, ino : Inodes,
                       to : Inodes, victim : SUBSET Inodes]]
  /\ vanished \in [Inodes -> Nat]

Init ==
  /\ IallocInit
  /\ nlink = [i \in Inodes |-> IF i = EXT2_ROOT_INO THEN 2 ELSE 0]
  /\ ent = [e \in {} |-> EXT2_ROOT_INO]
  /\ dotdot = [d \in {EXT2_ROOT_INO} |-> EXT2_ROOT_INO]
  /\ lock = [i \in Inodes |-> NoProc]
  /\ opened = {}
  /\ op = [p \in Procs |-> NoOp]
  /\ vanished = [i \in Inodes |-> 0]

---------------------------------------------------------------------------
(* Locks, links and entries.                                               *)

Acquire(p, S) ==
  /\ \A i \in S : lock[i] = NoProc
  /\ lock' = [i \in Inodes |-> IF i \in S THEN p ELSE lock[i]]

Release(p) == lock' = [i \in Inodes |-> IF lock[i] = p THEN NoProc ELSE lock[i]]

\* inode_inc_link_count (k = 1) and inode_dec_link_count (k = -1)
Links(i, k) == nlink' = [nlink EXCEPT ![i] = @ + k]

AddEntry(d, n, i) ==
  ent' = [e \in DOMAIN ent \cup {<<d, n>>} |-> IF e = <<d, n>> THEN i ELSE ent[e]]
DropEntry(d, n) == [e \in DOMAIN ent \ {<<d, n>>} |-> ent[e]]
WithDir(i, d) ==
  dotdot' = [x \in DOMAIN dotdot \cup {i} |-> IF x = i THEN d ELSE dotdot[x]]
WithoutDirs(S) == [d \in DOMAIN dotdot \ S |-> dotdot[d]]

\* The names of the directories S and their ".." are gone.
Bury(S) ==
  /\ ent' = [e \in {f \in DOMAIN ent : f[1] \notin S} |-> ent[e]]
  /\ dotdot' = WithoutDirs(S)
  /\ vanished' = [i \in Inodes |->
                    vanished[i] + Cardinality({e \in DOMAIN ent : e[1] \in S /\ ent[e] = i})]

\* A page that cannot be read is skipped: names in it are not seen.
ext2_empty_dir(i) ==
  \/ \A e \in DOMAIN ent : e[1] # i
  \/ Cardinality({j \in Inodes : vanished[j] > 0}) < MaxUnread

\* The call is over.
Return(p) ==
  /\ Release(p)
  /\ Goto(p, "idle")
  /\ op' = [op EXCEPT ![p] = NoOp]
  /\ cur' = [cur EXCEPT ![p] = NoInode]

\* iput of inode i when its link count becomes k: the last reference evicts it.
Iput(p, i, k) ==
  IF k = 0 /\ i \notin opened
  THEN /\ Goto(p, "evict")
       /\ cur' = [cur EXCEPT ![p].ino = i]
       /\ op' = [op EXCEPT ![p].ino = i]
  ELSE /\ Goto(p, "idle")
       /\ op' = [op EXCEPT ![p] = NoOp]
       /\ cur' = [cur EXCEPT ![p] = NoInode]

Begin(p, o, l) ==
  /\ pc[p] = "idle"
  /\ op' = [op EXCEPT ![p] = o]
  /\ Goto(p, l)

ialloc == <<diskVars, countVars, live, fs_error>>
calm == <<ialloc, vanished>>

---------------------------------------------------------------------------
(* ext2_create, ext2_symlink, ext2_mknod; ext2_mkdir                       *)

Create(p, d, n) ==
  /\ <<d, n>> \notin DOMAIN ent
  /\ Begin(p, Call("create", d, n, d), "new")
  /\ Acquire(p, {d})
  /\ cur' = [cur EXCEPT ![p].dir = FALSE]
  /\ UNCHANGED <<calm, nlink, ent, dotdot, opened>>

\* The link of ".." is counted before there is an inode.
Mkdir(p, d, n) ==
  /\ <<d, n>> \notin DOMAIN ent
  /\ Begin(p, Call("mkdir", d, n, d), "new")
  /\ Acquire(p, {d})
  /\ cur' = [cur EXCEPT ![p].dir = TRUE]
  /\ Links(d, 1)
  /\ UNCHANGED <<calm, ent, dotdot, opened>>

\* Mutant of NewFails: the link of ".." stays.
NewFails_Keep(p) ==
  /\ pc[p] = "failed"
  /\ Return(p)
  /\ UNCHANGED <<calm, nlink, ent, dotdot, opened>>

\* ext2_new_inode has failed (out_dir).
NewFails(p) ==
  /\ pc[p] = "failed"
  /\ Links(op[p].dir, -IsDir(op[p].call = "mkdir"))
  /\ Return(p)
  /\ UNCHANGED <<calm, ent, dotdot, opened>>

\* A new inode has one link.  ext2_add_nondir enters it; if that fails, or the
\* target of a symbolic link cannot be written, the inode is discarded.
AddNondir(p) ==
  /\ pc[p] = "got" /\ op[p].call = "create"
  /\ nlink' = [nlink EXCEPT ![cur[p].ino] = 1]
  /\ AddEntry(op[p].dir, op[p].name, cur[p].ino)
  /\ Return(p)
  /\ UNCHANGED <<calm, dotdot, opened>>

AddNondirFails(p) ==
  /\ pc[p] = "got" /\ op[p].call = "create"
  /\ Goto(p, "evict")
  /\ op' = [op EXCEPT ![p].ino = cur[p].ino]
  /\ UNCHANGED <<calm, cur, nlink, ent, dotdot, lock, opened>>

\* A second link for "."; ext2_make_empty writes "." and "..".
MakeEmpty(p) ==
  /\ pc[p] = "got" /\ op[p].call = "mkdir"
  /\ nlink' = [nlink EXCEPT ![cur[p].ino] = 2]
  /\ op' = [op EXCEPT ![p].ino = cur[p].ino]
  /\ \/ WithDir(cur[p].ino, op[p].dir) /\ Goto(p, "add")
     \/ Goto(p, "undo") /\ UNCHANGED dotdot
  /\ UNCHANGED <<calm, cur, ent, lock, opened>>

AddDir(p) ==
  /\ pc[p] = "add" /\ op[p].call = "mkdir"
  /\ \/ /\ AddEntry(op[p].dir, op[p].name, op[p].ino)
        /\ Return(p)
     \/ Goto(p, "undo") /\ UNCHANGED <<ent, lock, op, cur>>
  /\ UNCHANGED <<calm, nlink, dotdot, opened>>

\* out_fail: both links of the inode are taken back, and it is discarded.
MkdirUndo(p) ==
  /\ pc[p] = "undo"
  /\ Links(op[p].ino, -2)
  /\ dotdot' = WithoutDirs({op[p].ino})
  /\ Goto(p, "evict")
  /\ UNCHANGED <<calm, cur, ent, lock, opened, op>>

\* The inode is gone; mkdir takes back the link of "..".
Freed(p) ==
  /\ pc[p] = "freed"
  /\ Links(op[p].dir, -IsDir(op[p].call = "mkdir"))
  /\ Return(p)
  /\ UNCHANGED <<calm, ent, dotdot, opened>>

---------------------------------------------------------------------------
(* ext2_link                                                               *)

\* Mutant of Link: the link is not counted.
Link_Uncounted(p, i, d, n) ==
  /\ i \notin dirs /\ nlink[i] > 0
  /\ <<d, n>> \notin DOMAIN ent
  /\ Begin(p, Call("link", d, n, i), "add")
  /\ Acquire(p, {d, i})
  /\ UNCHANGED <<calm, cur, nlink, ent, dotdot, opened>>

\* The link is counted before the entry is made.
Link(p, i, d, n) ==
  /\ i \notin dirs /\ nlink[i] > 0
  /\ <<d, n>> \notin DOMAIN ent
  /\ Begin(p, Call("link", d, n, i), "add")
  /\ Acquire(p, {d, i})
  /\ Links(i, 1)
  /\ UNCHANGED <<calm, cur, ent, dotdot, opened>>

AddLink(p) ==
  /\ pc[p] = "add" /\ op[p].call = "link"
  /\ \/ AddEntry(op[p].dir, op[p].name, op[p].ino) /\ UNCHANGED nlink
     \/ Links(op[p].ino, -1) /\ UNCHANGED ent
  /\ Return(p)
  /\ UNCHANGED <<calm, dotdot, opened>>

---------------------------------------------------------------------------
(* ext2_unlink, ext2_rmdir                                                 *)

\* The entry goes first.
Unlink(p, d, n) ==
  /\ <<d, n>> \in DOMAIN ent
  /\ LET i == ent[<<d, n>>]
     IN  /\ i \notin dirs
         /\ Begin(p, Call("unlink", d, n, i), "dec")
         /\ Acquire(p, {d, i})
  /\ ent' = DropEntry(d, n)
  /\ UNCHANGED <<calm, cur, nlink, dotdot, opened>>

\* Then the link; the VFS lets go of the locks before it lets go of the inode.
UnlinkDec(p) ==
  /\ pc[p] = "dec" /\ op[p].call = "unlink"
  /\ Links(op[p].ino, -1)
  /\ Release(p)
  /\ Iput(p, op[p].ino, nlink[op[p].ino] - 1)
  /\ UNCHANGED <<calm, ent, dotdot, opened>>

Rmdir(p, d, n) ==
  /\ <<d, n>> \in DOMAIN ent
  /\ LET i == ent[<<d, n>>]
     IN  /\ i \in dirs /\ ext2_empty_dir(i)
         /\ Begin(p, Call("rmdir", d, n, i), "dec")
         /\ Acquire(p, {d, i})
  /\ ent' = DropEntry(d, n)
  /\ UNCHANGED <<calm, cur, nlink, dotdot, opened>>

\* The link of the entry, "." and ".." (i_size = 0), and the link of ".."
RmdirDec(p) ==
  /\ pc[p] = "dec" /\ op[p].call = "rmdir"
  /\ nlink' = [nlink EXCEPT ![op[p].ino] = @ - 2, ![op[p].dir] = @ - 1]
  /\ Bury({op[p].ino})
  /\ Release(p)
  /\ Iput(p, op[p].ino, nlink[op[p].ino] - 2)
  /\ UNCHANGED <<ialloc, opened>>

---------------------------------------------------------------------------
(* ext2_rename                                                             *)

\* The directory d and those above it, as the VFS knows them
Above(d) ==
  {x \in Inodes : \A S \in SUBSET Inodes :
                    d \in S /\ (\A y \in S \cap DOMAIN dotdot : dotdot[y] \in S) => x \in S}

\* s_vfs_rename_mutex: one rename between directories at a time
RenameMutexFree ==
  ~ \E q \in Procs : op[q].call = "rename" /\ op[q].dir # op[q].to

\* What the VFS has checked and locked when it calls ext2_rename: a directory
\* does not move below itself, and replaces a directory only.
MayRename(p, d, n, to, m) ==
  /\ <<d, n>> \in DOMAIN ent /\ <<d, n>> # <<to, m>>
  /\ LET i == ent[<<d, n>>]
         v == IF <<to, m>> \in DOMAIN ent THEN {ent[<<to, m>>]} ELSE {}
     IN  /\ Begin(p, [Call("rename", d, n, i) EXCEPT !.to = to, !.victim = v],
                  IF v = {} THEN "delete" ELSE "drop")
         /\ Acquire(p, {d, to} \cup v \cup ({i} \ dirs))
         /\ d = to \/ RenameMutexFree
         /\ i \notin v /\ \A j \in v : j \in dirs <=> i \in dirs
         /\ i \notin Above(to) /\ v \cap Above(d) = {}

\* No entry of the new name: one is added, with the link of a directory's "..".
RenameNew(p, d, n, to, m) ==
  /\ <<to, m>> \notin DOMAIN ent
  /\ MayRename(p, d, n, to, m)
  /\ AddEntry(to, m, ent[<<d, n>>])
  /\ Links(to, IsDir(ent[<<d, n>>] \in dirs))
  /\ UNCHANGED <<calm, cur, dotdot, opened>>

\* The entry of the new name is set to the inode; a directory must be empty.
RenameOver(p, d, n, to, m) ==
  /\ <<to, m>> \in DOMAIN ent
  /\ ext2_empty_dir(ent[<<to, m>>])
  /\ MayRename(p, d, n, to, m)
  /\ AddEntry(to, m, ent[<<d, n>>])
  /\ UNCHANGED <<calm, cur, nlink, dotdot, opened>>

\* Mutant of DropVictim: a directory loses one link.
DropVictim_Once(p) ==
  /\ pc[p] = "drop"
  /\ nlink' = [i \in Inodes |-> IF i \in op[p].victim THEN nlink[i] - 1 ELSE nlink[i]]
  /\ Bury(op[p].victim)
  /\ Goto(p, "delete")
  /\ UNCHANGED <<ialloc, cur, lock, opened, op>>

\* The replaced inode loses its link, and a directory that of its "." as well.
DropVictim(p) ==
  /\ pc[p] = "drop"
  /\ nlink' = [i \in Inodes |-> IF i \in op[p].victim
                                THEN nlink[i] - 1 - IsDir(i \in dirs) ELSE nlink[i]]
  /\ Bury(op[p].victim)
  /\ Goto(p, "delete")
  /\ UNCHANGED <<ialloc, cur, lock, opened, op>>

\* The end of a rename: the VFS lets go of the locks and of the victim.
RenameEnd(p) ==
  \/ \E v \in op[p].victim : Release(p) /\ Iput(p, v, nlink[v])
  \/ op[p].victim = {} /\ Return(p)

\* ext2_delete_entry of the old name
RenameDelete(p) ==
  /\ pc[p] = "delete"
  /\ ent' = DropEntry(op[p].dir, op[p].name)
  /\ IF op[p].ino \in dirs
     THEN Goto(p, "reparent") /\ UNCHANGED <<lock, op, cur>>
     ELSE RenameEnd(p)
  /\ UNCHANGED <<calm, nlink, dotdot, opened>>

\* ".." is set to the new directory, the old one loses the link.
Reparent(p) ==
  /\ pc[p] = "reparent"
  /\ dotdot' = [dotdot EXCEPT ![op[p].ino] = op[p].to]
  /\ Links(op[p].dir, -1)
  /\ RenameEnd(p)
  /\ UNCHANGED <<calm, ent, opened>>

---------------------------------------------------------------------------
(* Open files keep an inode without links.                                 *)

\* The inode of an entry, or of one that is being removed or went with its
\* directory and that the cache of the VFS still has
Visible(i) ==
  \/ \E e \in DOMAIN ent : ent[e] = i
  \/ vanished[i] > 0
  \/ \E p \in Procs : \/ pc[p] = "dec" /\ op[p].ino = i
                      \/ pc[p] = "drop" /\ i \in op[p].victim

\* A call that is not yet at its iput refers to inode i.
Held(i) ==
  \E q \in Procs : /\ pc[q] \in {"add", "dec", "drop", "delete", "reparent"}
                   /\ i \in {op[q].ino} \cup op[q].victim

Open(i) ==
  /\ Visible(i)
  /\ Cardinality(opened) < MaxOpen
  /\ opened' = opened \cup {i}
  /\ UNCHANGED <<ivars, nlink, ent, dotdot, lock, op, vanished>>

\* The last close of a file whose last name is gone evicts the inode, unless a
\* call still refers to it.
Close(p, i) ==
  /\ i \in opened
  /\ opened' = opened \ {i}
  /\ IF nlink[i] > 0 \/ Held(i)
     THEN UNCHANGED <<pc, op, cur>>
     ELSE /\ Begin(p, Call("close", i, NoName, i), "evict")
          /\ cur' = [cur EXCEPT ![p].ino = i]
  /\ UNCHANGED <<calm, nlink, ent, dotdot, lock>>

---------------------------------------------------------------------------

\* Directories a process can name, or be in
Usable == {d \in DOMAIN dotdot : d = EXT2_ROOT_INO \/ vanished[d] > 0
                                   \/ \E e \in DOMAIN ent : ent[e] = d}

Step(p) ==
  \/ IallocStep(p) /\ UNCHANGED nameVars
  \/ FindGroup(p, op[p].dir) /\ UNCHANGED nameVars
  \/ \E d \in Usable, n \in Names :
       \/ Create(p, d, n) \/ Mkdir(p, d, n) \/ Unlink(p, d, n) \/ Rmdir(p, d, n)
       \/ \E i \in live : Link(p, i, d, n)
       \/ \E to \in Usable, m \in Names : RenameNew(p, d, n, to, m) \/ RenameOver(p, d, n, to, m)
  \/ NewFails(p) \/ AddNondir(p) \/ AddNondirFails(p) \/ MakeEmpty(p) \/ AddDir(p)
  \/ MkdirUndo(p) \/ Freed(p) \/ AddLink(p) \/ UnlinkDec(p) \/ RmdirDec(p)
  \/ DropVictim(p) \/ RenameDelete(p) \/ Reparent(p)
  \/ \E i \in live : Open(i) \/ Close(p, i)

Next == \E p \in Procs : Step(p)

Spec == Init /\ [][Next]_vars

---------------------------------------------------------------------------
(* Properties.                                                             *)

\* The links there are to inode i: its entries, for a directory its own "." and
\* the ".." of the directories below, and the names nobody has taken back when
\* their directory went
LinksTo(i) ==
  Cardinality({e \in DOMAIN ent : ent[e] = i})
    + Cardinality({i} \cap DOMAIN dotdot)
    + Cardinality({d \in DOMAIN dotdot : dotdot[d] = i})
    + vanished[i]

\* The inodes a call is about
Busy == UNION {{op[p].dir, op[p].ino, op[p].to} \cup op[p].victim :
                 p \in {q \in Procs : pc[q] # "idle"}}

\* Outside of the calls that are changing it, the link count of an inode is the
\* number of its links, whatever calls have succeeded or failed on the way
\* (the increments and decrements of namei.c): too high by exactly the names that
\* went with a directory ext2_empty_dir had taken for empty.
LinksExact ==
  /\ TypeOK
  /\ \A i \in Inodes \ (Busy \cup leaked) : nlink[i] = LinksTo(i)

\* At every step each entry, each ".." and each directory with names leads to an
\* inode that is allocated, has a link and is not being freed: no lookup can meet
\* a deleted inode, also when a directory is removed around names and around
\* directories a process is in (ext2_rmdir, ext2_rename).
NoDangling ==
  \A i \in {ent[e] : e \in DOMAIN ent} \cup {e[1] : e \in DOMAIN ent}
             \cup {dotdot[d] : d \in DOMAIN dotdot} :
    i \in live /\ nlink[i] > 0

\* Directory i is gone but for the directories that were in it.
Hollow(i) == i \in dirs \ DOMAIN dotdot /\ \E d \in DOMAIN dotdot : dotdot[d] = i

\* An inode that no call is about and that stays allocated has a name or is
\* open: no error path of namei.c loses one.  The exceptions are what a directory
\* removed with names in it leaves: the inodes that had these names, and the
\* directory itself when there were directories in it.
NoLeak ==
  \A i \in bitmap \ (Busy \cup leaked) :
    i >= EXT2_FIRST_INO /\ i \notin opened
      /\ (\A p \in Procs : pc[p] # "idle" => cur[p].ino # i)
    => (\E e \in DOMAIN ent : ent[e] = i) \/ vanished[i] > 0 \/ Hollow(i)
=============================================================================
