------------------------------ MODULE Ext2Dir ------------------------------
(***************************************************************************)
(* A directory of ext2-lite as dir.c keeps it, and the threads that list   *)
(* it while others create, remove and rename entries.                      *)
(*                                                                         *)
(* A directory is a file of chunks (blocks).  Records tile each chunk; a   *)
(* record is longer than its name needs when a neighbour has been merged   *)
(* into it, and its inode number is 0 when it is the first of its chunk    *)
(* and its name has been removed.  The VFS holds the rwsem of the          *)
(* directory exclusively around each call that changes it and shared       *)
(* around ext2_readdir, so a change never happens inside a listing call,   *)
(* but any number of them between two calls of one listing.                *)
(***************************************************************************)
EXTENDS Naturals, FiniteSetsExt, TLC

CONSTANTS
  Names,        \* names besides "." and ".."
  name_len,     \* the length of each of them
  Inodes,       \* inode numbers entries are given
  Self, Parent, \* the inode numbers of "." and ".."
  s_blocksize,  \* size of a chunk
  PAGE_SIZE,
  MaxSize,      \* bound on the size of the directory
  Readers,      \* open files of the directory
  SeekTo        \* positions threads seek to

ASSUME DirAssumption ==
  /\ {".", ".."} \cap Names = {}
  /\ name_len \in [Names -> 1 .. 255]
  /\ Inodes \cup {Self, Parent} \subseteq Nat \ {0}
  /\ PAGE_SIZE % s_blocksize = 0 /\ MaxSize % s_blocksize = 0

VARIABLES
  de,        \* the records: offset |-> [ino, name, rec_len]
  i_size,
  pos,       \* file->f_pos of each open file
  inside,    \* files inside ext2_readdir
  current,   \* files whose f_version is the i_version of the directory
  due,       \* ghost: names there since the last seek and not yet listed
  listed     \* ghost: names listed since the last seek and there since

dirVars    == <<de, i_size>>
readerVars == <<pos, inside, current, due, listed>>
vars       == <<dirVars, readerVars>>

---------------------------------------------------------------------------
(* Records.                                                                *)

\* EXT2_DIR_REC_LEN: the header, the name, rounded up to four bytes
EXT2_DIR_REC_LEN(len) == ((len + 8 + 3) \div 4) * 4

NameLen(n) == IF n = "." THEN 1 ELSE IF n = ".." THEN 2 ELSE name_len[n]
RecLen(n)  == EXT2_DIR_REC_LEN(NameLen(n))
MinRec     == EXT2_DIR_REC_LEN(1)

Record(ino, n, len) == [ino |-> ino, name |-> n, rec_len |-> len]

PageStart(o)  == o - (o % PAGE_SIZE)
ChunkStart(o) == o - (o % s_blocksize)

\* The offsets to which ext2_next_entry leads from the starts of the pages.
Reached(d) ==
  LET ends == {p + d[p].rec_len : p \in DOMAIN d} \cup {0}
      at[o \in ends] ==
        \/ o % PAGE_SIZE = 0
        \/ \E p \in DOMAIN d : p + d[p].rec_len = o /\ p < o /\ p \in ends /\ at[p]
  IN  {o \in ends : at[o]}

\* What lies in the middle of a record is not data any more.
Walked(d) == [o \in DOMAIN d \cap Reached(d) |-> d[o]]

---------------------------------------------------------------------------
(* The routines of dir.c, as operators on records d and size sz.           *)

dir_pages(sz) == (sz + PAGE_SIZE - 1) \div PAGE_SIZE

\* The end of the part of page n that is in use
ext2_last_byte(sz, n) ==
  IF sz - n * PAGE_SIZE > PAGE_SIZE THEN PAGE_SIZE ELSE sz - n * PAGE_SIZE

\* The conditions on one record of a page that has just been read
EntryOK(d, o) ==
  /\ d[o].rec_len >= MinRec
  /\ d[o].rec_len % 4 = 0
  /\ d[o].rec_len >= RecLen(d[o].name)
  /\ ChunkStart(o + d[o].rec_len - 1) = ChunkStart(o)

\* A page with no record that is short, unaligned, too small for its name
\* or across chunks, and whose last record ends where the page does
ext2_check_page(d, sz, n) ==
  LET first == n * PAGE_SIZE
      limit == first + ext2_last_byte(sz, n)
      walk  == Reached(d)
  IN  /\ limit % s_blocksize = 0
      /\ \A o \in walk \cap (first .. limit - 1) : o \in DOMAIN d /\ EntryOK(d, o)
      /\ {first, limit} \subseteq walk

ext2_match(r, n) == r.ino # 0 /\ r.name = n

\* The entries of the name n in the order of the scan, pages and then records
Matches(d, n) == {o \in DOMAIN d : ext2_match(d[o], n)}
ext2_find_entry(d, n) == Min(Matches(d, n))

\* Mutant of HasRoom: the name that is there is not counted.
HasRoom_Over(r, reclen) == r.rec_len >= reclen

\* A record that can take a name of record length reclen: free, or with
\* enough behind its own name
HasRoom(r, reclen) ==
  \/ r.ino = 0 /\ r.rec_len >= reclen
  \/ r.rec_len >= RecLen(r.name) + reclen

\* The first record with room; behind the last one a new chunk
Place(d, sz, reclen) ==
  LET room == {o \in DOMAIN d : HasRoom(d[o], reclen)}
  IN  IF room # {} THEN Min(room) ELSE sz

\* Mutant of AddAt: a record in use is not split, its name is overwritten.
AddAt_NoSplit(d, sz, o, n, ino) ==
  IF o = sz THEN (o :> Record(ino, n, s_blocksize)) @@ d
  ELSE [d EXCEPT ![o] = Record(ino, n, @.rec_len)]

\* ext2_add_link from got_it on: a new chunk, a free record or the rest of one
\* in use
AddAt(d, sz, o, n, ino) ==
  IF o = sz THEN (o :> Record(ino, n, s_blocksize)) @@ d
  ELSE IF d[o].ino = 0 THEN [d EXCEPT ![o] = Record(ino, n, @.rec_len)]
  ELSE LET own == RecLen(d[o].name)
       IN  (o + own :> Record(ino, n, d[o].rec_len - own))
             @@ [d EXCEPT ![o].rec_len = own]

ext2_add_link(d, sz, n, ino) == AddAt(d, sz, Place(d, sz, RecLen(n)), n, ino)

\* ext2_commit_chunk lets the size grow to the end of what was written
SizeAfter(sz, o) == IF o = sz THEN sz + s_blocksize ELSE sz

\* Records of the chunk in front of offset o
Before(d, o) == {p \in DOMAIN d : ChunkStart(o) <= p /\ p < o}

\* The record is merged into the one before it in its chunk, if there is one.
ext2_delete_entry(d, o) ==
  IF Before(d, o) = {} THEN [d EXCEPT ![o].ino = 0]
  ELSE LET pde == Max(Before(d, o))
       IN  Walked([d EXCEPT ![pde].rec_len = o + d[o].rec_len - pde, ![o].ino = 0])

ext2_set_link(d, o, ino) == [d EXCEPT ![o].ino = ino]

\* The first chunk of a new directory
ext2_make_empty ==
  (0 :> Record(Self, ".", MinRec))
    @@ (MinRec :> Record(Parent, "..", s_blocksize - MinRec))

\* Mutant of ext2_validate_entry: the walk stops one record too early.
ext2_validate_entry_Back(d, o) == Max({p \in DOMAIN d : p <= o})

\* The first record at or behind o on the walk from the start of the chunk
ext2_validate_entry(d, o) ==
  Min({p \in DOMAIN d \cup {ChunkStart(o) + s_blocksize} :
         ChunkStart(o) <= p /\ o <= p})

---------------------------------------------------------------------------
(* The names of the directory.                                             *)

Live == {o \in DOMAIN de : de[o].ino # 0}
Present == {de[o].name : o \in Live}
OffsetOf(n) == ext2_find_entry(de, n)

\* The entry of n lies at offset p or behind it.
Ahead(n, p) == \E o \in Matches(de, n) : o >= p

TypeOK ==
  /\ DOMAIN de \subseteq 0 .. MaxSize - 1
  /\ \A o \in DOMAIN de :
       de[o] \in [ino : Inodes \cup {0, Self, Parent},
                  name : Names \cup {".", ".."}, rec_len : 0 .. s_blocksize]
  /\ i_size \in s_blocksize .. MaxSize
  /\ pos \in [Readers -> Nat]
  /\ inside \subseteq Readers /\ current \subseteq Readers
  /\ due \in [Readers -> SUBSET (Names \cup {".", ".."})]
  /\ listed \in [Readers -> SUBSET (Names \cup {".", ".."})]

Init ==
  /\ de = ext2_make_empty
  /\ i_size = s_blocksize
  /\ pos = [r \in Readers |-> 0]
  /\ inside = {}
  /\ current = {}      \* f_version is 0 after open, i_version at least 1
  /\ due = [r \in Readers |-> {".", ".."}]
  /\ listed = [r \in Readers |-> {}]

---------------------------------------------------------------------------
(* Calls that change the directory.                                        *)

\* Mutant of inode_inc_iversion: the version stays.
inode_inc_iversion_Skip == UNCHANGED current

\* Every open file now has an old version.
inode_inc_iversion == current' = {}

\* The directory becomes d of size sz, the names gone are removed.
Commit(d, sz, gone) ==
  /\ inside = {}
  /\ sz <= MaxSize
  /\ de' = d /\ i_size' = sz
  /\ inode_inc_iversion
  /\ due' = [r \in Readers |-> due[r] \ gone]
  /\ listed' = [r \in Readers |-> listed[r] \ gone]
  /\ UNCHANGED <<pos, inside>>

\* create, mkdir, link, symlink, mknod: the lookup of the VFS found no entry
Create(n, ino) ==
  /\ Matches(de, n) = {}
  /\ Commit(ext2_add_link(de, i_size, n, ino),
            SizeAfter(i_size, Place(de, i_size, RecLen(n))), {})

\* unlink and rmdir
Unlink(n) ==
  /\ Matches(de, n) # {}
  /\ Commit(ext2_delete_entry(de, OffsetOf(n)), i_size, {n})

\* rename within the directory to a name that is not taken: ext2_add_link for
\* the new name, then ext2_delete_entry on the record found before
RenameNew(n, m) ==
  /\ Matches(de, n) # {} /\ Matches(de, m) = {}
  /\ LET o == OffsetOf(n)
     IN  Commit(ext2_delete_entry(ext2_add_link(de, i_size, m, de[o].ino), o),
                SizeAfter(i_size, Place(de, i_size, RecLen(m))), {n})

\* rename to a name of another inode: its record is pointed to the inode
RenameOver(n, m) ==
  /\ Matches(de, n) # {} /\ Matches(de, m) # {}
  /\ de[OffsetOf(n)].ino # de[OffsetOf(m)].ino
  /\ Commit(ext2_delete_entry(ext2_set_link(de, OffsetOf(m), de[OffsetOf(n)].ino),
                              OffsetOf(n)),
            i_size, {n})

---------------------------------------------------------------------------
(* ext2_readdir: pos goes from record to record.                           *)

\* The position a call starts from: a file that has an old version, or none
\* since it was opened or sought, looks for the next record.
Revalidated(r) ==
  IF r \in current \/ pos[r] % PAGE_SIZE = 0 THEN pos[r]
  ELSE ext2_validate_entry(de, pos[r])

Begin(r) ==
  /\ r \notin inside
  /\ pos[r] + MinRec <= i_size
  /\ inside' = inside \cup {r}
  /\ pos' = [pos EXCEPT ![r] = Revalidated(r)]
  /\ current' = current \cup {r}
  /\ UNCHANGED <<dirVars, due, listed>>

\* A record is passed, and handed to dir_emit if it is in use.
Emit(r) ==
  /\ r \in inside
  /\ pos[r] + MinRec <= i_size
  /\ pos[r] \in DOMAIN de
  /\ pos' = [pos EXCEPT ![r] = @ + de[pos[r]].rec_len]
  /\ LET names == IF de[pos[r]].ino = 0 THEN {} ELSE {de[pos[r]].name}
     IN  /\ due' = [due EXCEPT ![r] = @ \ names]
         /\ listed' = [listed EXCEPT ![r] = @ \cup names]
  /\ UNCHANGED <<dirVars, inside, current>>

\* dir_emit finds no room in the buffer of the caller.
Full(r) ==
  /\ r \in inside
  /\ pos[r] \in Live
  /\ inside' = inside \ {r}
  /\ UNCHANGED <<dirVars, pos, current, due, listed>>

\* The last page is done.
End(r) ==
  /\ r \in inside
  /\ pos[r] + MinRec > i_size
  /\ inside' = inside \ {r}
  /\ UNCHANGED <<dirVars, pos, current, due, listed>>

\* A page cannot be read, at the begin of a call or at the begin of a page: the
\* rest of it is skipped.
BadPage(r) ==
  /\ r \notin inside \/ pos[r] % PAGE_SIZE = 0
  /\ pos[r] + MinRec <= i_size
  /\ LET next == PageStart(pos[r]) + PAGE_SIZE
     IN  /\ pos' = [pos EXCEPT ![r] = next]
         /\ due' = [due EXCEPT ![r] = {n \in @ : Ahead(n, next)}]
  /\ inside' = inside \ {r}
  /\ UNCHANGED <<dirVars, current, listed>>

\* generic_file_llseek sets f_version to 0; a new listing begins.
Seek(r) ==
  /\ r \notin inside
  /\ \E p \in SeekTo :
       /\ p # pos[r]
       /\ pos' = [pos EXCEPT ![r] = p]
       /\ due' = [due EXCEPT ![r] = {n \in Present : Ahead(n, p)}]
  /\ listed' = [listed EXCEPT ![r] = {}]
  /\ current' = current \ {r}
  /\ UNCHANGED <<dirVars, inside>>

Next ==
  \/ \E n \in Names :
       \/ \E ino \in Inodes : Create(n, ino)
       \/ Unlink(n)
       \/ \E m \in Names \ {n} : RenameNew(n, m) \/ RenameOver(n, m)
  \/ \E r \in Readers :
       Begin(r) \/ Emit(r) \/ Full(r) \/ End(r) \/ BadPage(r) \/ Seek(r)

Spec == Init /\ [][Next]_vars

---------------------------------------------------------------------------
(* Properties.                                                             *)

\* After any sequence of calls every page would pass ext2_check_page if it had
\* to be read again, and no name has two entries.
DirectoryValid ==
  /\ TypeOK
  /\ \A n \in 0 .. dir_pages(i_size) - 1 : ext2_check_page(de, i_size, n)
  /\ \A n \in Present : \E o \in Live : Matches(de, n) = {o}

\* A listing is exact whatever happens between its calls: a name that was
\* there all the time and has not been listed lies ahead, and one that has been
\* listed and has stayed lies behind, so that at the end each has been listed
\* once (ext2_readdir with the version of the directory).
ListingExact ==
  \A r \in Readers :
    /\ \A n \in due[r] : Ahead(n, pos[r])
    /\ \A n \in listed[r] : n \in Present /\ ~Ahead(n, pos[r])

\* ext2_readdir only looks at records: inside a call the position is the begin
\* of one or the end of the directory (the walk of ext2_validate_entry).
OnRecord == \A r \in inside : pos[r] \in DOMAIN de \cup {i_size}

\* The entries by name, "." and ".." apart
Listing == [n \in Present \ {".", ".."} |-> de[OffsetOf(n)].ino]

Map == INSTANCE NameMap WITH map <- Listing

\* The directory implements the map of names: record splitting, merging, reuse
\* and growth change no name but the one the call is about.
ImplementsNameMap == Map!Spec
=============================================================================
