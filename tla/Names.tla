------------------------------- MODULE Names --------------------------------
(***************************************************************************)
(* Names, inodes and descriptors: namei of fs/nami.c, the file table of    *)
(* fs/fio.c and the calls of sys.c that work on names or descriptors, over *)
(* the tables of Inodes, with fork and exit where they share them.         *)
(*                                                                         *)
(* One call runs at a time, as the block drivers of the repository never   *)
(* sleep; a call gives way only when iget meets a locked inode.  `call' is *)
(* the one that runs, `hung' keeps those that sleep.  What access decides  *)
(* from permission bits is left open: every call may be denied.            *)
(***************************************************************************)
EXTENDS Inodes

CONSTANTS
  NFILE,      (* slots of the file table                                   *)
  NOFILE,     (* descriptors of a process                                  *)
  Paths,      (* bound: the paths programs use                             *)
  NewPaths,   (* bound: those that link and rename give as the new name    *)
  MaxPath,    (* bound: names in the path that getcwd has room for         *)
  MaxCalls,   (* bound: system calls in a behaviour                        *)
  Dirs,       (* the directories of the ramdisk: name and parent           *)
  Files,      (* its files: name, directory and type                       *)
  Removed     (* the files that are removed when a behaviour starts        *)

File == 1..NFILE
Fd   == 1..NOFILE

RootSlot == 1                                 (* rootdir                   *)

VARIABLES
  k,          (* the tables: see TypeOK                                    *)
  file,       (* file table: f_count and f_inode                           *)
  ofile,      (* u_ofile of each process; 0 is a free descriptor           *)
  cdir,       (* u_cdir of each process; 0 if there is no such process     *)
  call,       (* the call in progress                                      *)
  hung,       (* the calls that sleep in iget                              *)
  calls       (* bound: system calls so far                                *)

vars == <<k, file, ofile, cdir, call, hung, calls>>

ASSUME NamesAssumption ==
  /\ NFILE \in Nat \ {0} /\ NOFILE \in Nat \ {0}
  /\ Dirs \in Seq([name : EntryName, up : Nat]) /\ Len(Dirs) > 0
  /\ Files \in Seq([name : EntryName, dir : Nat, mode : Modes])
  /\ Len(Dirs) + Len(Files) <= NINO /\ Dirs[1].up = 1
  /\ \A d \in 2..Len(Dirs) : Dirs[d].up \in 1..d - 1
  /\ \A i \in DOMAIN Files : Files[i].dir \in DOMAIN Dirs
  /\ Removed \subseteq DOMAIN Files
  /\ \A path \in Paths : path \in [abs : BOOLEAN, names : Seq(EntryName)]
  /\ NewPaths \subseteq Paths

(* dp, pd and ip are the inodes a call holds: the one namei has reached,   *)
(* u_pdir, and the one kept over a second namei.                           *)
Idle == [pc |-> "idle", p |-> 1, op |-> "", flag |-> 0, step |-> 0,
         old |-> <<>>, new |-> <<>>, rest |-> <<>>, first |-> FALSE,
         want |-> 0, dp |-> 0, pd |-> 0, ip |-> 0, off |-> 0, name |-> "",
         found |-> <<>>]

Simple  == {"open", "creat", "mknod", "unlink", "mkdir", "rmdir", "chdir",
            "chmod", "exec"}
TwoPath == {"link", "rename"}
Calls   == Simple \cup TwoPath \cup {"getcwd"}

CallRecords ==
  [pc : {"idle", "iget", "look", "done", "dotdot", "search", "load", "exit"},
   p : Proc, op : Calls \cup {"", "exit"}, flag : 0..2, step : Nat,
   old : Paths \cup {<<>>}, new : Paths \cup {<<>>}, rest : Seq(EntryName),
   first : BOOLEAN, want : Ino \cup {0}, dp : Slot \cup {0},
   pd : Slot \cup {0}, ip : Slot \cup {0}, off : Nat, name : EntryName,
   found : Seq(EntryName)]

(* The flag that each call passes to namei.                                *)
FlagOf(op) == CASE op \in {"creat", "mknod", "mkdir"} -> 1
                [] op \in {"unlink", "rmdir"} -> 2
                [] OTHER -> 0

-----------------------------------------------------------------------------
(* rd_mkfs numbers the directories first, the root as 1, and then the      *)
(* files of its list.  (The console's inode among them is left out.)       *)
FileIno(i) == Len(Dirs) + i

Dots(d) == <<[name |-> ".", ino |-> d], [name |-> "..", ino |-> Dirs[d].up]>>

(* The directories in directory d.                                         *)
SubDirs(d) ==
  LET inside == Ascending({c \in DOMAIN Dirs : c # Root /\ Dirs[c].up = d})
  IN [j \in DOMAIN inside |-> [name |-> Dirs[inside[j]].name, ino |-> inside[j]]]

(* The files in directory d; of one that was removed only the free entry   *)
(* is left.                                                                *)
FilesIn(d) ==
  LET inside == Ascending({i \in DOMAIN Files : Files[i].dir = d})
  IN [j \in DOMAIN inside |->
        IF inside[j] \in Removed THEN Empty
        ELSE [name |-> Files[inside[j]].name, ino |-> FileIno(inside[j])]]

(* A directory is as long as its entries are many.                         *)
MkfsDir(n) ==
  IF n \in DOMAIN Dirs THEN Dots(n) \o SubDirs(n) \o FilesIn(n) ELSE <<>>

(* The link counts are 6 for the root, 2 for the other directories         *)
(* whatever they contain, and 1 for files.                                 *)
MkfsInode(n) ==
  IF n \in DOMAIN Dirs THEN [mode |-> "dir", nlink |-> IF n = Root THEN 6 ELSE 2]
  ELSE IF \E i \in DOMAIN Files \ Removed : n = FileIno(i)
  THEN [mode |-> Files[n - Len(Dirs)].mode, nlink |-> 1]
  ELSE [mode |-> "free", nlink |-> 0]

(* Process 1 runs in the root.                                             *)
Init ==
  /\ k = [core |-> [s \in Slot |->
            IF s = RootSlot
            THEN [EmptySlot EXCEPT !.ino = Root, !.count = 2, !.mode = "dir",
                                   !.nlink = MkfsInode(Root).nlink]
            ELSE EmptySlot],
          disk |-> [n \in Ino |-> MkfsInode(n)],
          dir |-> [n \in Ino |-> MkfsDir(n)],
          sinode |-> LET gone == Ascending({FileIno(i) : i \in Removed})
                     IN SubSeq(gone, 1, Min({Len(gone), NICINOD})),
          wait |-> [p \in Proc |-> 0],
          skew |-> [s \in Slot |-> 0],
          text |-> <<>>,
          stranded |-> {},
          forgotten |-> {},
          jam |-> FALSE,
          short |-> {}]
  /\ file = [f \in File |-> [count |-> 0, inode |-> 0]]
  /\ ofile = [p \in Proc |-> [fd \in Fd |-> 0]]
  /\ cdir = [p \in Proc |-> IF p = 1 THEN RootSlot ELSE 0]
  /\ call = Idle
  /\ hung = [p \in Proc |-> Idle]
  /\ calls = 0

-----------------------------------------------------------------------------
(* References to the inode in slot s, by holder.                           *)
Holds == {"dp", "pd", "ip"}

HeldBy(c, s) == Cardinality({f \in Holds : c[f] = s})

Refs(s) ==
  (IF s = RootSlot THEN 1 ELSE 0) + (IF Itext(k, s) THEN 1 ELSE 0)
  + Cardinality({p \in Proc : cdir[p] = s})
  + Cardinality({f \in File : file[f].count > 0 /\ file[f].inode = s})
  + HeldBy(call, s)
  + Cardinality({h \in Proc \X Holds : hung[h[1]][h[2]] = s})

(* The model goes no further once mkdir has released a directory so often  *)
(* that its slot is given up while it is in use.                           *)
Intact == \A s \in Slot : Refs(s) > 0 => k.core[s].count > 0

(* Process p makes a system call.                                          *)
User(p) ==
  /\ call = Idle /\ hung[p] = Idle /\ cdir[p] # 0 /\ Intact
  /\ calls < MaxCalls /\ calls' = calls + 1

OpenFiles == <<file, ofile>>

-----------------------------------------------------------------------------
(* rename is link(old, new), for an existing new name unlink(new) and link *)
(* again, then unlink(old); at the first failure it stops.                 *)
Doing(c) ==
  IF c.op # "rename" THEN c.op
  ELSE IF c.step \in {1, 3} THEN "link" ELSE "unlink"

(* Where namei begins: at the root or the current directory.               *)
Begin(c, path) == k.core[IF path.abs THEN RootSlot ELSE cdir[c.p]].ino

Namei(c, flag, path) ==
  [c EXCEPT !.pc = "iget", !.flag = flag, !.rest = path.names,
            !.first = TRUE, !.dp = 0, !.pd = 0, !.want = Begin(c, path)]

(* A call that has its inode in slot s; namei returns at the end of the    *)
(* path and with an inode to be deleted.                                   *)
Arrive(c, s) ==
  LET done == c.pd # 0 \/ (c.rest = <<>> /\ (c.flag = 0 \/ ~c.first))
      d    == [c EXCEPT !.dp = s, !.want = 0]
  IN IF c.op = "getcwd"
     THEN IF c.ip = 0 THEN [c EXCEPT !.ip = s, !.want = 0, !.pc = "dotdot"]
          ELSE [d EXCEPT !.pc = "search"]
     ELSE IF done THEN [d EXCEPT !.pc = "done", !.rest = <<>>, !.first = FALSE]
     ELSE [d EXCEPT !.pc = "look"]

(* namei returns NULL with an error: the call returns, but for link, which *)
(* has its first inode to release.                                         *)
Error(c) ==
  IF Doing(c) = "link" /\ c.ip # 0
  THEN [c EXCEPT !.pc = "done", !.dp = 0, !.pd = 0, !.rest = <<>>,
                 !.first = FALSE, !.want = 0]
  ELSE Idle

(* iget(n) with the tables k0: the call sleeps while the inode is locked,  *)
(* and fails when the table is full, giving up the inode that it holds.    *)
(* jam notes that a deletion or getcwd sleeps for the very inode it holds. *)
(* There is no inode 0: as with Intact, the model goes no further    *)
(* when the slot to begin at was given up.                                 *)
Reach(k0, c, n) ==
  LET s == IgetSlot(k0, n)
      locked == s # 0 /\ k0.core[s].ino = n /\ k0.core[s].lock
      held == IF c.op = "getcwd" THEN c.ip ELSE c.pd
      self == s = held /\ (c.flag = 2 \/ c.op = "getcwd")
  IN /\ n # 0
     /\ \/ /\ locked
           /\ k' = [k0 EXCEPT !.core[s].want = TRUE, !.wait[c.p] = s,
                              !.jam = @ \/ self]
           /\ hung' = [hung EXCEPT ![c.p] = [c EXCEPT !.pc = "iget", !.want = n]]
           /\ call' = Idle
        \/ /\ s # 0 /\ ~locked
           /\ k' = Iget(k0, n)
           /\ call' = Arrive(c, s)
           /\ UNCHANGED hung
        \/ /\ s = 0
           /\ k' = IF held = 0 THEN k0 ELSE Iput(k0, held)
           /\ call' = Error(c)
           /\ UNCHANGED hung

Enter(p, op, old, new) ==
  /\ User(p)
  /\ LET c == [Idle EXCEPT !.p = p, !.op = op, !.new = new,
                           !.old = IF op = "rename" THEN old ELSE <<>>,
                           !.step = IF op = "rename" THEN 1 ELSE 0]
     IN Reach(k, Namei(c, FlagOf(op), old), Begin(c, old))
  /\ UNCHANGED <<OpenFiles, cdir>>

(* rename goes on with the next path.                                      *)
Iget2 ==
  /\ call.pc = "iget"
  /\ Reach(k, call, call.want)
  /\ UNCHANGED <<OpenFiles, cdir, calls>>

(* A call that was woken looks for the inode again.                        *)
Resume(p) ==
  /\ call = Idle /\ hung[p] # Idle /\ k.wait[p] = 0
  /\ call' = hung[p]
  /\ hung' = [hung EXCEPT ![p] = Idle]
  /\ UNCHANGED <<k, OpenFiles, cdir, calls>>

-----------------------------------------------------------------------------
Dir    == k.core[call.dp].ino
IsDir  == k.core[call.dp].mode = "dir"
Entry  == Find(k, Dir, Head(call.rest))
Final  == Len(call.rest) = 1

(* The error exits of namei: an empty path to create or delete, a part of  *)
(* the path that is no directory, cannot be read or lacks permission, or a *)
(* name that is not there.                                                 *)
LookOut ==
  /\ call.pc = "look"
  /\ k' = Iput(k, call.dp)
  /\ call' = Error(call)
  /\ UNCHANGED <<OpenFiles, cdir, hung, calls>>

(* A name to be created is not there: u_pdir is the directory, u_offset    *)
(* its first free entry, or its end.                                       *)
LookCreate ==
  /\ call.pc = "look" /\ call.rest # <<>> /\ IsDir
  /\ Entry = 0 /\ call.flag = 1 /\ Final
  /\ LET holes == {i \in DOMAIN k.dir[Dir] : k.dir[Dir][i].ino = 0}
     IN /\ call' = [call EXCEPT !.pc = "done", !.pd = call.dp, !.dp = 0,
                      !.name = Head(call.rest), !.rest = <<>>, !.first = FALSE,
                      !.off = IF holes # {} THEN Min(holes)
                              ELSE Len(k.dir[Dir]) + 1]
        /\ k' = IF holes # {} THEN k
                ELSE [k EXCEPT !.core[call.dp].upd = TRUE]
  /\ UNCHANGED <<OpenFiles, cdir, hung, calls>>

(* A name to be deleted: its inode is fetched with the directory locked.   *)
LookDelete ==
  /\ call.pc = "look" /\ call.rest # <<>> /\ IsDir
  /\ Entry # 0 /\ call.flag = 2 /\ Final
  /\ Reach(k, [call EXCEPT !.pd = call.dp, !.dp = 0, !.off = Entry,
                           !.name = Head(call.rest)], k.dir[Dir][Entry].ino)
  /\ UNCHANGED <<OpenFiles, cdir, calls>>

(* Mutant: this directory is released after the next one is fetched.       *)
LookNextCoupled ==
  /\ call.pc = "look" /\ call.rest # <<>> /\ IsDir
  /\ Entry # 0 /\ ~(call.flag = 2 /\ Final)
  /\ LET n == k.dir[Dir][Entry].ino
         s == IgetSlot(k, n)
         c == [call EXCEPT !.dp = 0, !.first = FALSE, !.rest = Tail(@)]
     IN IF s # 0 /\ k.core[s].ino = n /\ k.core[s].lock
        THEN Reach(k, [c EXCEPT !.pd = call.dp], n)
        ELSE Reach(Iput(k, call.dp), c, n)
  /\ UNCHANGED <<OpenFiles, cdir, calls>>

(* The next directory is fetched after this one is released.               *)
LookNext ==
  /\ call.pc = "look" /\ call.rest # <<>> /\ IsDir
  /\ Entry # 0 /\ ~(call.flag = 2 /\ Final)
  /\ Reach(Iput(k, call.dp),
           [call EXCEPT !.dp = 0, !.first = FALSE, !.rest = Tail(@)],
           k.dir[Dir][Entry].ino)
  /\ UNCHANGED <<OpenFiles, cdir, calls>>

-----------------------------------------------------------------------------
(* What rename does next.                                                  *)
After(c, ok, eexist) ==
  IF c.op # "rename" \/ c.step = 4 THEN Idle
  ELSE LET d == [c EXCEPT !.ip = 0]
       IN IF ok /\ c.step = 2
            THEN Namei([d EXCEPT !.step = 3], 0, c.old)
          ELSE IF ok
            THEN Namei([d EXCEPT !.step = 4], 2, c.old)
          ELSE IF eexist /\ c.step = 1
            THEN Namei([d EXCEPT !.step = 2], 2, c.new)
          ELSE Idle

Done(op) == call.pc = "done" /\ Doing(call) = op
NoName   == call.dp = 0 /\ call.pd = 0       (* namei returned an error    *)
ToMake   == call.dp = 0 /\ call.pd # 0       (* namei says: create it      *)
Is(mode) == k.core[call.dp].mode = mode
Parent   == k.core[call.pd].ino

(* The results access may give (TRUE is a refusal): what the permission    *)
(* bits say is left open, but a shared text is never opened for writing.   *)
Access(s, mode) ==
  IF mode = "write" /\ Itext(k, s) THEN {TRUE} ELSE BOOLEAN

(* falloc takes the first free descriptor and file slot, if there are any. *)
Falloc(p) ==
  LET fds == {fd \in Fd : ofile[p][fd] = 0}
      fps == {f \in File : file[f].count = 0}
  IN IF fds = {} \/ fps = {} THEN <<>> ELSE <<Min(fds), Min(fps)>>

(* openi fails for a special file without a driver.                        *)
Openi(mode) == IF mode = "dev" THEN BOOLEAN ELSE {TRUE}

(* Mutant: an open that finds no descriptor keeps the inode.               *)
Open1Leaks(k0, s, trf, bad) ==
  LET new == Falloc(call.p)
      k1  == Prele(IF trf # 0 THEN Itrunc(k0, s) ELSE k0, s)
  IN IF bad THEN k' = Iput(k0, s) /\ UNCHANGED OpenFiles
     ELSE IF new = <<>> THEN k' = k1 /\ UNCHANGED OpenFiles
     ELSE /\ k' = k1
          /\ file' = [file EXCEPT ![new[2]] = [count |-> 1, inode |-> s]]
          /\ ofile' = [ofile EXCEPT ![call.p][new[1]] = new[2]]

(* open1; bad is an error before the inode is unlocked.                    *)
Open1(k0, s, trf, bad) ==
  LET new == Falloc(call.p)
      k1  == Prele(IF trf # 0 THEN Itrunc(k0, s) ELSE k0, s)
  IN \/ bad /\ k' = Iput(k0, s) /\ UNCHANGED OpenFiles
     \/ \E ok \in Openi(k0.core[s].mode) :
          /\ ~bad /\ (new # <<>> => ~ok)
          /\ k' = Iput(k1, s) /\ UNCHANGED OpenFiles
     \/ \E ok \in Openi(k0.core[s].mode) :
          /\ ~bad /\ new # <<>> /\ ok
          /\ k' = k1
          /\ file' = [file EXCEPT ![new[2]] = [count |-> 1, inode |-> s]]
          /\ ofile' = [ofile EXCEPT ![call.p][new[1]] = new[2]]

SysOpen(denied) ==
  /\ Done("open") /\ call.dp # 0 /\ denied \in Access(call.dp, "read")
  /\ Open1(k, call.dp, 0, denied)
  /\ call' = Idle /\ UNCHANGED <<cdir, hung, calls>>

(* creat of a file that exists truncates it; a directory is refused.       *)
CreatOld(denied) ==
  /\ Done("creat") /\ call.dp # 0 /\ denied \in Access(call.dp, "write")
  /\ Open1(k, call.dp, 1, denied \/ Is("dir"))
  /\ call' = Idle /\ UNCHANGED <<cdir, hung, calls>>

(* Writing the entry may fail for lack of a block, which is noticed only   *)
(* in open1.                                                               *)
CreatNew(full) ==
  /\ Done("creat") /\ ToMake
  /\ full => call.off > Len(k.dir[Parent])
  /\ LET m == Maknode(k, call.pd, call.off, call.name, "reg")
     IN \/ m.s = 0 /\ k' = m.k /\ UNCHANGED OpenFiles
        \/ m.s # 0 /\ Open1(m.k, m.s, 2, full)
  /\ call' = Idle /\ UNCHANGED <<cdir, hung, calls>>

(* The type of the new inode comes from the caller.  Here it is a device;  *)
(* plain files and directories that the superuser may make like this, and  *)
(* the number it puts into their first address, are left out.              *)
Mknod ==
  /\ Done("mknod") /\ ~NoName
  /\ LET m == Maknode(k, call.pd, call.off, call.name, "dev")
     IN \/ call.dp # 0 /\ k' = Iput(k, call.dp)
        \/ ToMake /\ k' = IF m.s = 0 THEN m.k ELSE Iput(m.k, m.s)
  /\ call' = Idle /\ UNCHANGED <<OpenFiles, cdir, hung, calls>>

-----------------------------------------------------------------------------
(* link counts the new link first; the first inode is kept, unlocked,      *)
(* while the second path is looked up.                                     *)
LinkFirst ==
  /\ Done("link") /\ call.ip = 0 /\ call.dp # 0
  /\ k' = Prele([k EXCEPT !.core[call.dp].nlink = @ + 1,
                          !.core[call.dp].upd = TRUE], call.dp)
  /\ call' = Namei([call EXCEPT !.ip = call.dp], 1, call.new)
  /\ UNCHANGED <<OpenFiles, cdir, hung, calls>>

(* Only the superuser may link a directory; the error exit takes back a    *)
(* link that was not counted.                                              *)
LinkDenied ==
  /\ Done("link") /\ call.ip = 0 /\ call.dp # 0 /\ Is("dir")
  /\ k' = Iput([k EXCEPT !.core[call.dp].nlink = @ - 1,
                         !.short = @ \cup {Dir}], call.dp)
  /\ call' = After(call, FALSE, FALSE)
  /\ UNCHANGED <<OpenFiles, cdir, hung, calls>>

LinkError ==
  /\ Done("link") /\ call.ip # 0 /\ (NoName \/ call.dp # 0)
  /\ LET k1 == IF call.dp # 0 THEN Iput(k, call.dp) ELSE k
     IN k' = Iput([k1 EXCEPT !.core[call.ip].nlink = @ - 1], call.ip)
  /\ call' = After(call, FALSE, call.dp # 0)
  /\ UNCHANGED <<OpenFiles, cdir, hung, calls>>

Link ==
  /\ Done("link") /\ call.ip # 0 /\ ToMake
  /\ k' = Iput(Wdir(k, call.pd, call.off, call.name, call.ip), call.ip)
  /\ call' = After(call, TRUE, FALSE)
  /\ UNCHANGED <<OpenFiles, cdir, hung, calls>>

(* The exits of unlink and rmdir that change nothing.                      *)
ReleaseBoth == Iput(Iput(k, call.dp), call.pd)

(* Mutant: unlink counts the link that is gone twice.                      *)
UnlinkTwice ==
  /\ Done("unlink") /\ call.dp # 0
  /\ LET k1 == Iput(WriteEntry(Prele(k, call.dp), call.pd, call.off, Empty),
                    call.pd)
     IN k' = Iput([k1 EXCEPT !.core[call.dp].nlink = @ - 2,
                             !.core[call.dp].upd = TRUE], call.dp)
  /\ call' = After(call, TRUE, FALSE)
  /\ UNCHANGED <<OpenFiles, cdir, hung, calls>>

Unlink ==
  /\ Done("unlink") /\ call.dp # 0
  /\ LET k1 == Iput(WriteEntry(Prele(k, call.dp), call.pd, call.off, Empty),
                    call.pd)
     IN k' = IF Is("dir") THEN ReleaseBoth
             ELSE Iput([k1 EXCEPT !.core[call.dp].nlink = @ - 1,
                                  !.core[call.dp].upd = TRUE], call.dp)
  /\ call' = After(call, ~Is("dir"), FALSE)
  /\ UNCHANGED <<OpenFiles, cdir, hung, calls>>

-----------------------------------------------------------------------------
(* The new directory of mkdir, with its entries for itself and for up.     *)
NewDir(k0, s, up) ==
  LET n == k0.core[s].ino
  IN [k0 EXCEPT !.core[s] = Made(@, "dir", 2),
                !.dir[n] = <<[name |-> ".", ino |-> n],
                             [name |-> "..", ino |-> up]>>]

(* mkdir; full says which of its writes finds no block (an emptied parent  *)
(* has none for the name).  Writing "." and ".." moves u_offset on to the  *)
(* third entry, and that is where wdir puts the new name; wdir has         *)
(* released the parent when mkdir releases it again, and the link counted  *)
(* for ".." is lost if that was the last reference.                        *)
Mkdir(full) ==
  /\ Done("mkdir") /\ ~NoName
  /\ full = "name" => ToMake /\ k.dir[Parent] = <<>>
  /\ LET a   == Ialloc(k)
         new == NewDir(a.k, a.s, Parent)
         w   == Wdir(new, call.pd, 3, call.name, a.s)
         up  == [w EXCEPT !.core[call.pd].nlink = @ + 1,
                          !.core[call.pd].upd = TRUE,
                          !.short = IF w.core[call.pd].count = 0
                                    THEN @ \cup {Parent} ELSE @]
     IN \/ call.dp # 0 /\ k' = Iput(k, call.dp)
        \/ ToMake /\ a.s = 0 /\ k' = Iput(a.k, call.pd)
        \/ /\ ToMake /\ a.s # 0 /\ full = "dots"
           /\ k' = Iput(Iput([new EXCEPT !.core[a.s].nlink = 0], a.s), call.pd)
        \/ /\ ToMake /\ a.s # 0 /\ full = "name"
           /\ k' = Iput(Iput(Skew([Itrunc(w, a.s) EXCEPT !.core[a.s].nlink = 0],
                                  call.pd, -1), a.s), call.pd)
        \/ /\ ToMake /\ a.s # 0 /\ full = "no"
           /\ k' = Iput(Iput(Skew(up, call.pd, -1), a.s), call.pd)
  /\ call' = Idle /\ UNCHANGED <<OpenFiles, cdir, hung, calls>>

(* rmdir gives the directory up however many names it has.                 *)
Rmdir ==
  /\ Done("rmdir") /\ call.dp # 0
  /\ LET ok == Is("dir") /\ call.name \notin {".", ".."} /\ DirEmpty(k, Dir)
         k1 == WriteEntry(k, call.pd, call.off, Empty)
         k2 == Iput([k1 EXCEPT !.core[call.pd].nlink = @ - 1], call.pd)
         other == NamesOf(k1, Dir) \ {<<Dir, i>> : i \in DOMAIN k.dir[Dir]}
         up == {k.dir[Dir][i].ino : i \in {j \in DOMAIN k.dir[Dir] :
                                             k.dir[Dir][j].name = ".."}}
     IN k' = IF ~ok THEN ReleaseBoth
             ELSE Iput([Itrunc(k2, call.dp) EXCEPT
                          !.core[call.dp].nlink = 0,
                          !.short = @ \cup (IF other # {} THEN {Dir} ELSE {})
                             \cup (IF up = {Parent} THEN {} ELSE {Parent})],
                       call.dp)
  /\ call' = Idle /\ UNCHANGED <<OpenFiles, cdir, hung, calls>>

Chdir(denied) ==
  /\ Done("chdir") /\ call.dp # 0
  /\ \/ /\ denied \/ ~IsDir
        /\ k' = Iput(k, call.dp) /\ UNCHANGED cdir
     \/ /\ ~denied /\ IsDir
        /\ k' = Iput(Prele(k, call.dp), cdir[call.p])
        /\ cdir' = [cdir EXCEPT ![call.p] = call.dp]
  /\ call' = Idle /\ UNCHANGED <<OpenFiles, hung, calls>>

(* The end of the calls that look at an inode or change its attributes.    *)
Touch(changed, used) ==
  /\ Done("chmod") /\ call.dp # 0
  /\ k' = Iput([k EXCEPT !.core[call.dp].upd = @ \/ changed,
                         !.core[call.dp].acc = @ \/ used], call.dp)
  /\ call' = Idle /\ UNCHANGED <<OpenFiles, cdir, hung, calls>>

(* stat and access leave the inode alone, as chmod does when it is refused *)
(* (the op "chmod" stands for all of them).                                *)
Stat  == Touch(FALSE, FALSE)
Chmod == Touch(TRUE, FALSE)
Utime == Touch(TRUE, TRUE)

-----------------------------------------------------------------------------
(* getcwd climbs from the current directory by "..", and looks in each     *)
(* parent for the entry with the number it came from; both are locked.     *)
Getcwd(p) ==
  /\ User(p) /\ k.core[cdir[p]].ino # Root
  /\ Reach(k, [Idle EXCEPT !.p = p, !.op = "getcwd"], k.core[cdir[p]].ino)
  /\ UNCHANGED <<OpenFiles, cdir>>

GetcwdUp ==
  /\ call.pc = "dotdot"
  /\ LET n  == k.core[call.ip].ino
         up == Find(k, n, "..")
     IN \/ /\ up = 0
           /\ k' = Iput(k, call.ip) /\ call' = Idle /\ UNCHANGED hung
        \/ up # 0 /\ Reach(k, call, k.dir[n][up].ino)
  /\ UNCHANGED <<OpenFiles, cdir, calls>>

GetcwdSearch ==
  /\ call.pc = "search"
  /\ LET hits == {i \in DOMAIN k.dir[Dir] :
                    k.dir[Dir][i].ino = k.core[call.ip].ino}
         k1   == Iput(Iput(k, call.ip), call.dp)
         more == hits # {} /\ Len(call.found) < MaxPath /\ Dir # Root
     IN \/ ~more /\ k' = k1 /\ call' = Idle /\ UNCHANGED hung
        \/ /\ more
           /\ Reach(k1, [call EXCEPT !.ip = 0, !.dp = 0, !.found =
                           <<k.dir[Dir][Min(hits)].name>> \o @], Dir)
  /\ UNCHANGED <<OpenFiles, cdir, calls>>

-----------------------------------------------------------------------------
(* closef with closei: the last close releases the inode.                  *)
Closef(r, f) ==
  [k |-> IF r.file[f].count <= 1 THEN Iput(r.k, r.file[f].inode) ELSE r.k,
   file |-> [r.file EXCEPT ![f].count = @ - 1]]

Tables == [k |-> k, file |-> file]

Close(p, fd) ==
  /\ User(p) /\ ofile[p][fd] # 0
  /\ LET r == Closef(Tables, ofile[p][fd])
     IN k' = r.k /\ file' = r.file
  /\ ofile' = [ofile EXCEPT ![p][fd] = 0]
  /\ UNCHANGED <<cdir, call, hung>>

(* dup, sys_dup and fcntl(F_DUPFD) take the first free descriptor, from    *)
(* low on.                                                                 *)
Dup(p, fd, low) ==
  /\ User(p) /\ ofile[p][fd] # 0
  /\ \E i \in low..NOFILE :
       /\ ofile[p][i] = 0 /\ \A j \in low..i - 1 : ofile[p][j] # 0
       /\ ofile' = [ofile EXCEPT ![p][i] = ofile[p][fd]]
  /\ file' = [file EXCEPT ![ofile[p][fd]].count = @ + 1]
  /\ UNCHANGED <<k, cdir, call, hung>>

(* Mutant: dup2 does not close the descriptor it takes over.               *)
Dup2Over(p, fd, new) ==
  /\ User(p) /\ ofile[p][fd] # 0 /\ fd # new
  /\ file' = [file EXCEPT ![ofile[p][fd]].count = @ + 1]
  /\ ofile' = [ofile EXCEPT ![p][new] = ofile[p][fd]]
  /\ UNCHANGED <<k, cdir, call, hung>>

(* dup2 closes the target descriptor first.                                *)
Dup2(p, fd, new) ==
  /\ User(p) /\ ofile[p][fd] # 0 /\ fd # new
  /\ LET r == IF ofile[p][new] = 0 THEN Tables
              ELSE Closef(Tables, ofile[p][new])
     IN /\ k' = r.k
        /\ file' = [r.file EXCEPT ![ofile[p][fd]].count = @ + 1]
  /\ ofile' = [ofile EXCEPT ![p][new] = ofile[p][fd]]
  /\ UNCHANGED <<cdir, call, hung>>

(* newproc: the child shares the open files and the current directory.     *)
Fork(p, q) ==
  /\ User(p) /\ cdir[q] = 0
  /\ file' = [f \in File |-> [file[f] EXCEPT !.count = @ +
                 Cardinality({fd \in Fd : ofile[p][fd] = f})]]
  /\ ofile' = [ofile EXCEPT ![q] = ofile[p]]
  /\ cdir' = [cdir EXCEPT ![q] = cdir[p]]
  /\ k' = AddRef(k, cdir[p], 1)
  /\ UNCHANGED <<call, hung>>

(* exit and exec close descriptors of their process in turn; `step' is the *)
(* last one closed.                                                        *)
CloseNext(fd) ==
  /\ fd > call.step /\ ofile[call.p][fd] # 0
  /\ LET r == Closef(Tables, ofile[call.p][fd])
     IN k' = r.k /\ file' = r.file
  /\ ofile' = [ofile EXCEPT ![call.p][fd] = 0]
  /\ call' = [call EXCEPT !.step = fd]
  /\ UNCHANGED <<cdir, hung, calls>>

(* exit closes all descriptors and releases the current directory.         *)
Exit(p) ==
  /\ User(p) /\ p # 1
  /\ call' = [Idle EXCEPT !.pc = "exit", !.p = p, !.op = "exit"]
  /\ UNCHANGED <<k, OpenFiles, cdir, hung>>

ExitClose(fd) ==
  /\ call.pc = "exit" /\ \A i \in 1..fd - 1 : ofile[call.p][i] = 0
  /\ CloseNext(fd)

ExitEnd ==
  /\ call.pc = "exit" /\ \A fd \in Fd : ofile[call.p][fd] = 0
  /\ k' = Iput(k, cdir[call.p])
  /\ cdir' = [cdir EXCEPT ![call.p] = 0]
  /\ call' = Idle /\ UNCHANGED <<OpenFiles, hung, calls>>

(* exec keeps the program's inode locked until it is loaded, and releases  *)
(* it at every way out.  It may fail for any file: no permission, not a    *)
(* program, bad arguments, no room for the image.                          *)
ExecFails ==
  /\ Done("exec") /\ call.dp # 0
  /\ k' = Iput(k, call.dp)
  /\ call' = Idle /\ UNCHANGED <<OpenFiles, cdir, hung, calls>>

(* A pure text is shared, and refused while the file is in use otherwise.  *)
Exec(pure) ==
  /\ Done("exec") /\ call.dp # 0 /\ Is("reg")
  /\ pure /\ ~Itext(k, call.dp) => k.core[call.dp].count = 1
  /\ k' = IF pure THEN Xalloc(k, call.dp) ELSE k
  /\ call' = [call EXCEPT !.pc = "load"]
  /\ UNCHANGED <<OpenFiles, cdir, hung, calls>>

(* The image is loaded: the close-on-exec descriptors (any of them) are    *)
(* closed, perhaps of the program itself, before the inode is released; an *)
(* exec that fails as late as this closes none.                            *)
ExecClose(fd) == call.pc = "load" /\ CloseNext(fd)

ExecEnd ==
  /\ call.pc = "load"
  /\ k' = Iput(k, call.dp)
  /\ call' = Idle /\ UNCHANGED <<OpenFiles, cdir, hung, calls>>

(* update visits the changed inodes that are not locked.  It clears IUPD   *)
(* before it calls iupdat, which then writes only those with IACC set; of  *)
(* the others the change stays in core and may be lost.                    *)
Update(k0) ==
  LET dirty == {s \in Slot : k0.core[s].upd /\ ~k0.core[s].lock}
      saved == {s \in dirty : k0.core[s].acc}
      lost  == {s \in dirty \ saved : k0.core[s].ino # 0}
      Saved(n) == InCore(k0, n) \cap saved
  IN [k0 EXCEPT
       !.core = [s \in Slot |-> [k0.core[s] EXCEPT !.upd = @ /\ s \notin dirty]],
       !.disk = [n \in Ino |-> IF Saved(n) = {} THEN k0.disk[n]
                  ELSE LET c == k0.core[Min(Saved(n))]
                       IN [mode |-> c.mode, nlink |-> c.nlink]],
       !.short = @ \cup {k0.core[s].ino : s \in
                   {t \in lost : k0.disk[k0.core[t].ino].nlink # k0.core[t].nlink}}]

Sync(p) ==
  /\ User(p)
  /\ k' = Update(k)
  /\ UNCHANGED <<OpenFiles, cdir, call, hung>>

Fsync(p, fd) ==
  /\ User(p) /\ ofile[p][fd] # 0
  /\ k' = Update([k EXCEPT !.core[file[ofile[p][fd]].inode].upd = TRUE])
  /\ UNCHANGED <<OpenFiles, cdir, call, hung>>

-----------------------------------------------------------------------------
Start ==
  \E p \in Proc : \/ \E op \in Simple, path \in Paths : Enter(p, op, path, <<>>)
                  \/ \E op \in TwoPath, old \in Paths, new \in NewPaths :
                        Enter(p, op, old, new)

Handler ==
  \/ Mknod \/ LinkFirst \/ LinkDenied \/ LinkError \/ Link
  \/ Unlink \/ Rmdir
  \/ Stat \/ Chmod \/ Utime
  \/ ExecFails \/ ExecEnd \/ ExitEnd
  \/ \E fd \in Fd : ExecClose(fd) \/ ExitClose(fd)
  \/ \E b \in BOOLEAN : SysOpen(b) \/ CreatOld(b) \/ CreatNew(b) \/ Chdir(b)
                        \/ Exec(b)
  \/ \E full \in {"no", "dots", "name"} : Mkdir(full)

Descriptors ==
  \E p \in Proc :
    \/ \E fd \in Fd : Close(p, fd) \/ Fsync(p, fd)
    \/ \E fd, new \in Fd : Dup(p, fd, new) \/ Dup2(p, fd, new)
    \/ \E q \in Proc : Fork(p, q)
    \/ Exit(p) \/ Sync(p)

Next ==
  \/ Start \/ Handler \/ Descriptors
  \/ \E p \in Proc : Resume(p) \/ Getcwd(p)
  \/ Iget2 \/ LookOut \/ LookCreate \/ LookDelete \/ LookNext
  \/ GetcwdUp \/ GetcwdSearch

Spec == Init /\ [][Next]_vars

-----------------------------------------------------------------------------
(* The types of the tables.                                                *)
TypeOK ==
  /\ k \in InodeTables
  /\ Len(k.sinode) <= NICINOD /\ Len(k.text) <= NTEXT
  /\ file \in [File -> [count : 0..NPROC * NOFILE, inode : Slot \cup {0}]]
  /\ ofile \in [Proc -> [Fd -> File \cup {0}]]
  /\ cdir \in [Proc -> Slot \cup {0}]
  /\ call \in CallRecords /\ hung \in [Proc -> CallRecords]

(* The count of an open file is the number of descriptors for it, in all   *)
(* processes and whatever mix of open, dup, dup2, fork, close and exit     *)
(* made them (f_count of fs/fio.c).                                        *)
FilesCounted ==
  \A f \in File : file[f].count =
     Cardinality({d \in Proc \X Fd : ofile[d[1]][d[2]] = f})

(* An inode is in core once, and its count is the number of references     *)
(* that calls, current directories, open files, texts and rootdir hold, on *)
(* every path through namei and the calls; the exceptions are the parent   *)
(* that a failed maknode keeps and the one that mkdir releases twice       *)
(* (skew).                                                                 *)
InodesCounted ==
  /\ \A s \in Slot : k.core[s].count = Refs(s) + k.skew[s]
  /\ \A s, t \in Slot : s # t /\ k.core[s].ino = k.core[t].ino => k.core[s].ino = 0

(* The inodes a call keeps locked; link keeps its first one unlocked.      *)
LockedBy(c) == {c.dp, c.pd} \cup (IF c.op = "getcwd" THEN {c.ip} ELSE {})

(* Nobody leaves an inode locked: a locked inode is held by the call that  *)
(* runs or by one that sleeps, or was left by a failed maknode.  And no    *)
(* wakeup is missed: a call sleeps only for an inode that is locked, with  *)
(* IWANT set, but for the calls that slept on an inode when iput gave its  *)
(* slot up with the last reference (forgotten).                            *)
LocksReleased ==
  /\ \A s \in Slot : k.core[s].lock =>
       \/ s \in k.stranded \/ s \in LockedBy(call)
       \/ \E p \in Proc : s \in LockedBy(hung[p])
  /\ \A p \in Proc : k.wait[p] # 0 /\ p \notin k.forgotten =>
       k.core[k.wait[p]].lock /\ k.core[k.wait[p]].want

(* No call ever has to wait for an inode, whatever calls came before it,   *)
(* until a failed maknode has left a directory locked or a call waits for  *)
(* an inode it holds itself, as a deletion of "." does (jam): namei        *)
(* releases a directory before it fetches the next, and link unlocks its   *)
(* first inode before it looks up the second path.  So the order in which  *)
(* getcwd (from below) and deletion (from above) lock two directories can  *)
(* set them against each other only after one of these.                    *)
WaitsOnlyJammed == (\E p \in Proc : hung[p] # Idle) => k.jam

(* A name never outlives its inode: what a directory names is allocated.   *)
(* The exceptions (short) are inodes whose link count the code is known to *)
(* lose: a directory that an ordinary user tried to link, one emptied by   *)
(* rmdir under another name, a parent released early by mkdir, and a count *)
(* that sync dropped.                                                      *)
NamesAllocated ==
  \A n \in Ino : ModeOf(k, n) = "dir" =>
     \A i \in DOMAIN k.dir[n] : LET m == k.dir[n][i].ino
        IN m # 0 /\ m \notin k.short => ModeOf(k, m) # "free"
=============================================================================
