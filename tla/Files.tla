------------------------------- MODULE Files -------------------------------
(***************************************************************************)
(* Open files: the descriptor tables, the fs::file objects they share, and *)
(* the dentries those keep in memory (kernel/pm/process_manager.cc,        *)
(* kernel/syscall/syscall_handler.cc, kernel/include/fs/file, kernel/fs/   *)
(* path.cc, dentry.cc, dentrycache.cc).                                    *)
(*                                                                         *)
(* Looking a name up in a directory that is not cached reads the disk and  *)
(* sleeps; another process may run there and between two components of a   *)
(* path.  What comes after is taken as one step.  Root, the root of the    *)
(* mounted file system, is never released, and its count is not kept.      *)
(***************************************************************************)
EXTENDS Integers, Sequences, FiniteSets, FiniteSetsExt

CONSTANTS Procs, First,        \* process slots; First is the one at start
          MaxOpen,             \* max_open_files
          MaxFiles,            \* bound: file objects that exist at once
          MaxDents,            \* MAX_DENTRY_NUM
          Paths,               \* name -> the names on the way to it, itself last
          Loads                \* what the processes do: forks (1 or 0), targets, the
                               \* names that open, fstatat and chdir are given, and
                               \* calls, which of dupfd, cloexec and pipe are made

ASSUME FilesAssumption == /\ MaxOpen \in Nat \ {0} /\ MaxFiles \in Nat \ {0} /\ MaxDents \in Nat
                          /\ IsFiniteSet(Procs) /\ First \in Procs

Names == DOMAIN Paths
Fds   == 0 .. MaxOpen - 1
Files == 1 .. MaxFiles
Dents == 1 .. MaxDents
None  == 0                     \* nullptr
Root  == -1

VARIABLES ofile,    \* _ofile of each process
          cwd,      \* _cwd of each process
          live,     \* the processes
          file,     \* the file objects: refcnt, den, cloexec, always_on
          den,      \* the dentries: name, parent, children, refcnt
          top,      \* the children of Root
          freeList, \* dentryCache::freeList_
          walk,     \* per process: what for, the target, how far, the entry, and
                    \* whether it waits for the disk
          panic,    \* 1: a null file was dereferenced or no dentry was left
          load      \* the member of Loads that describes the run; never changes

vars == <<ofile, cwd, live, file, den, top, freeList, walk, panic, load>>

NoFile == [refcnt |-> 0, den |-> None, cloexec |-> 0, always_on |-> 0]
NoKids == [n \in Names |-> None]
NoDent == [name |-> "", parent |-> None, children |-> NoKids, refcnt |-> 0]
NoWalk == [for |-> "idle", to |-> "", i |-> 0, entry |-> None, miss |-> 0]
Empty  == [fd \in Fds |-> None]

\* The dentries, the tree and the free list, as one value
Now == [den |-> den, top |-> top, free |-> freeList]
Becomes(s) == den' = s.den /\ top' = s.top /\ freeList' = s.free

----------------------------------------------------------------------------
\* dentry::dup
Counted(d) == d \in Dents
dent_dup(s, d) == IF Counted(d) THEN [s EXCEPT !.den[d].refcnt = @ + 1] ELSE s

children(s, d) == IF d = Root THEN s.top ELSE s.den[d].children
put_child(s, d, n, e) == IF d = Root THEN [s EXCEPT !.top[n] = e]
                                     ELSE [s EXCEPT !.den[d].children[n] = e]

\* releaseDentryCache takes d from its parent, and goes on with a parent that
\* has no other child and no reference.
erase(s, d) == put_child(s, s.den[d].parent, s.den[d].name, None)

(* variant: other children are not looked at *)
goes_on_Siblings(s, d) == Counted(s.den[d].parent) /\ s.den[s.den[d].parent].refcnt <= 0
goes_on(s, d) ==
  LET q == s.den[d].parent
  IN /\ Counted(q) /\ s.den[q].refcnt <= 0
     /\ children(s, q) = [NoKids EXCEPT ![s.den[d].name] = children(s, q)[s.den[d].name]]

chain(s, d) ==
  LET up[k \in 0 .. Cardinality(Names)] ==
        IF k = 0 THEN <<d>>
        ELSE IF Len(up[k - 1]) = k /\ goes_on(s, up[k - 1][k])
             THEN Append(up[k - 1], s.den[up[k - 1][k]].parent)
             ELSE up[k - 1]
  IN up[Cardinality(Names)]

\* A dentry goes to freeList_ after the parent that its release took along.
releaseDentryCache(s, d) ==
  LET c == chain(s, d)
      erased[k \in 0 .. Len(c)] == IF k = 0 THEN s ELSE erase(erased[k - 1], c[k])
  IN [erased[Len(c)] EXCEPT !.free = @ \o [k \in 1 .. Len(c) |-> c[Len(c) + 1 - k]]]

dent_release(s, d) ==
  LET t == [s EXCEPT !.den[d].refcnt = @ - 1]
  IN IF ~Counted(d) THEN s
     ELSE IF t.den[d].refcnt <= 0 THEN releaseDentryCache(t, d) ELSE t

Opened(p) == {fd \in Fds : ofile[p][fd] # None}

\* How many of the descriptors S of p name file f
Times(p, S, f) == Cardinality({fd \in S : ofile[p][fd] = f})

\* file::dup and free_file, called for each of the descriptors S of p: the
\* file objects, which go with their last reference, ...
file_dup(x, p, S) == [f \in Files |-> [x[f] EXCEPT !.refcnt = @ + Times(p, S, f)]]

dropped(x, n) == IF n > 0 /\ x.refcnt = n THEN NoFile ELSE [x EXCEPT !.refcnt = @ - n]
free_file(x, p, S) == [f \in Files |-> dropped(x[f], Times(p, S, f))]

\* ... and their dentries, in the order of the descriptors
den_of(p, fd) == file[ofile[p][fd]].den

(* variant: the dentry is not counted *)
dup_dens_None(s, p, S) == s
dup_dens(s, p, S) ==
  LET loop[fd \in 0 .. MaxOpen] ==
        IF fd = 0 THEN s
        ELSE IF fd - 1 \in S THEN dent_dup(loop[fd - 1], den_of(p, fd - 1)) ELSE loop[fd - 1]
  IN loop[MaxOpen]

release_dens(s, p, S) ==
  LET loop[fd \in 0 .. MaxOpen] ==
        IF fd = 0 THEN s
        ELSE IF fd - 1 \in S THEN dent_release(loop[fd - 1], den_of(p, fd - 1)) ELSE loop[fd - 1]
  IN loop[MaxOpen]

\* new normal_file( attrs, den ), new pipe_file( ... )
Unused == {f \in Files : file[f].refcnt = 0}
new_file(d) == [NoFile EXCEPT !.den = d, !.refcnt = 1]

Holds(p, fd) == fd \in Fds /\ ofile[p][fd] # None
FreeFds(o) == {fd \in Fds : o[fd] = None}

\* alloc_fd: the lowest free descriptor
alloc_fd(o) == Min(FreeFds(o))

Idle(p) == panic = 0 /\ p \in live /\ walk[p] = NoWalk

----------------------------------------------------------------------------
\* open, fstatat and chdir begin with pathSearch
PathSearch(p, for, n) ==
  /\ Idle(p)
  /\ walk' = [walk EXCEPT ![p] = [for |-> for, to |-> n, i |-> 1, entry |-> Root, miss |-> 0]]
  /\ UNCHANGED <<ofile, cwd, live, file, den, top, freeList, panic>>

Walking(p) == panic = 0 /\ walk[p] # NoWalk /\ walk[p].i <= Len(Paths[walk[p].to])
Component(p) == Paths[walk[p].to][walk[p].i]

\* EntrySearch: in children, or to the disk
EntrySearch(p) ==
  LET e == children(Now, walk[p].entry)[Component(p)]
  IN /\ Walking(p) /\ walk[p].miss = 0
     /\ walk' = IF e # None THEN [walk EXCEPT ![p].i = @ + 1, ![p].entry = e]
                            ELSE [walk EXCEPT ![p].miss = 1]
     /\ UNCHANGED <<ofile, cwd, live, file, den, top, freeList, panic>>

\* The lookup on the disk is done: allocDentry, the constructor, children.
FoundOnDisk(p) ==
  LET w == walk[p]
      d == Head(freeList)
      s == [Now EXCEPT !.free = Tail(@),
                       !.den[d] = [NoDent EXCEPT !.name = Component(p), !.parent = w.entry]]
  IN /\ Walking(p) /\ w.miss = 1
     /\ IF freeList = <<>> THEN panic' = 1 /\ UNCHANGED <<den, top, freeList, walk>>
        ELSE /\ Becomes(put_child(s, w.entry, Component(p), d))
             /\ walk' = [walk EXCEPT ![p].i = @ + 1, ![p].entry = d, ![p].miss = 0]
             /\ UNCHANGED panic
     /\ UNCHANGED <<ofile, cwd, live, file>>

Arrived(p, for) == /\ panic = 0 /\ walk[p] # NoWalk /\ walk[p].for = for
                   /\ walk[p].i = Len(Paths[walk[p].to]) + 1
                   /\ walk' = [walk EXCEPT ![p] = NoWalk]

\* The rest of open.  Without a free descriptor the file stays, unreachable.
Open(p) ==
  /\ Arrived(p, "open")
  /\ Unused # {}
  /\ Becomes(dent_dup(Now, walk[p].entry))
  /\ LET f == Min(Unused)
     IN /\ file' = [file EXCEPT ![f] = new_file(walk[p].entry)]
        /\ ofile' = IF FreeFds(ofile[p]) = {} THEN ofile
                    ELSE [ofile EXCEPT ![p][alloc_fd(ofile[p])] = f]
  /\ UNCHANGED <<cwd, live, panic>>

\* The rest of fstatat: a file is made for its Kstat and freed.
Fstatat(p) ==
  /\ Arrived(p, "stat")
  /\ Becomes(dent_release(dent_dup(Now, walk[p].entry), walk[p].entry))
  /\ UNCHANGED <<ofile, cwd, live, file, panic>>

Chdir(p) ==
  /\ Arrived(p, "chdir")
  /\ Becomes(dent_release(dent_dup(Now, walk[p].entry), cwd[p]))
  /\ cwd' = [cwd EXCEPT ![p] = walk[p].entry]
  /\ UNCHANGED <<ofile, live, file, panic>>

----------------------------------------------------------------------------
Close(p, fd) ==
  /\ Idle(p) /\ Holds(p, fd)
  /\ file' = free_file(file, p, {fd})
  /\ Becomes(release_dens(Now, p, {fd}))
  /\ ofile' = [ofile EXCEPT ![p][fd] = None]
  /\ UNCHANGED <<cwd, live, walk, panic>>

Dup(p, fd) ==
  /\ Idle(p) /\ Holds(p, fd) /\ FreeFds(ofile[p]) # {}
  /\ ofile' = [ofile EXCEPT ![p][alloc_fd(ofile[p])] = ofile[p][fd]]
  /\ file' = file_dup(file, p, {fd})
  /\ Becomes(dup_dens(Now, p, {fd}))
  /\ UNCHANGED <<cwd, live, walk, panic>>

\* dup2 closes what was there.
(* variant: it does not *)
closed_Open(p, fd) == {}
closed(p, fd) == {fd} \cap Opened(p)

Dup2(p, old, fd) ==
  /\ Idle(p) /\ Holds(p, old) /\ fd # old
  /\ file' = file_dup(free_file(file, p, closed(p, fd)), p, {old})
  /\ Becomes(dup_dens(release_dens(Now, p, closed(p, fd)), p, {old}))
  /\ ofile' = [ofile EXCEPT ![p][fd] = ofile[p][old]]
  /\ UNCHANGED <<cwd, live, walk, panic>>

\* fcntl: F_DUPFD and F_DUPFD_CLOEXEC from descriptor arg on; they raise
\* refcnt without dup.  The second uses the result without a test.
Fcntl(p, fd, arg, cloexec) ==
  LET f == ofile[p][fd]
      S == {i \in FreeFds(ofile[p]) : i >= arg}
  IN /\ "dupfd" \in load.calls /\ Idle(p) /\ Holds(p, fd)
     /\ IF S = {} THEN panic' = cloexec /\ UNCHANGED <<ofile, file>>
        ELSE /\ ofile' = [ofile EXCEPT ![p][Min(S)] = f]
             /\ file' = [file EXCEPT ![f].refcnt = @ + 1,
                                     ![f].cloexec = IF cloexec = 1 THEN 1 ELSE @]
             /\ UNCHANGED panic
     /\ UNCHANGED <<cwd, live, den, top, freeList, walk>>

SetCloexec(p, fd) ==
  /\ "cloexec" \in load.calls /\ Idle(p) /\ Holds(p, fd)
  /\ file' = [file EXCEPT ![ofile[p][fd]].cloexec = 1]
  /\ UNCHANGED <<ofile, cwd, live, den, top, freeList, walk, panic>>

\* pipe: two files; if the second finds no descriptor both are freed.
Pipe(p) ==
  /\ "pipe" \in load.calls /\ Idle(p) /\ Cardinality(Unused) >= 2
  /\ LET r == Min(Unused)
         w == Min(Unused \ {r})
         o == [ofile[p] EXCEPT ![alloc_fd(ofile[p])] = r]
     IN IF Cardinality(FreeFds(ofile[p])) < 2 THEN UNCHANGED <<file, ofile>>
        ELSE /\ file' = [file EXCEPT ![r] = new_file(None), ![w] = new_file(None)]
             /\ ofile' = [ofile EXCEPT ![p] = [o EXCEPT ![alloc_fd(o)] = w]]
  /\ UNCHANGED <<cwd, live, den, top, freeList, walk, panic>>

Fork(p, q) ==
  /\ load.forks = 1 /\ Idle(p) /\ q \in Procs \ live
  /\ file' = file_dup(file, p, Opened(p))
  /\ Becomes(dent_dup(dup_dens(Now, p, Opened(p)), cwd[p]))
  /\ ofile' = [ofile EXCEPT ![q] = ofile[p]]
  /\ cwd' = [cwd EXCEPT ![q] = cwd[p]]
  /\ live' = live \cup {q}
  /\ UNCHANGED <<walk, panic>>

\* execve closes what is marked, except the standard files.
Marked(p) == {fd \in Opened(p) : file[ofile[p][fd]].cloexec = 1 /\ file[ofile[p][fd]].always_on = 0}
Execve(p) ==
  /\ Idle(p) /\ Marked(p) # {}
  /\ file' = free_file(file, p, Marked(p))
  /\ Becomes(release_dens(Now, p, Marked(p)))
  /\ ofile' = [ofile EXCEPT ![p] = [fd \in Fds |-> IF fd \in Marked(p) THEN None ELSE @[fd]]]
  /\ UNCHANGED <<cwd, live, walk, panic>>

\* exit_proc and freeproc: the files are freed, the working directory is not.
Exit(p) ==
  /\ Idle(p) /\ p # First
  /\ file' = free_file(file, p, Opened(p))
  /\ Becomes(release_dens(Now, p, Opened(p)))
  /\ ofile' = [ofile EXCEPT ![p] = Empty]
  /\ cwd' = [cwd EXCEPT ![p] = None]
  /\ live' = live \ {p}
  /\ UNCHANGED <<walk, panic>>

Init ==
  /\ live = {First}
  /\ ofile = [p \in Procs |-> IF p = First THEN [Empty EXCEPT ![0] = 1] ELSE Empty]
  /\ cwd = [p \in Procs |-> IF p = First THEN Root ELSE None]
  /\ file = [f \in Files |-> IF f = 1 THEN [NoFile EXCEPT !.refcnt = 1, !.always_on = 1] ELSE NoFile]
  /\ den = [d \in Dents |-> NoDent]
  /\ top = NoKids
  /\ freeList = [i \in 1 .. MaxDents |-> i]
  /\ walk = [p \in Procs |-> NoWalk]
  /\ panic = 0
  /\ load \in Loads

Next ==
  /\ UNCHANGED load
  /\ \E p \in Procs :
       \/ \E n \in load.targets, for \in {"open", "stat", "chdir"} : PathSearch(p, for, n)
       \/ EntrySearch(p) \/ FoundOnDisk(p) \/ Open(p) \/ Fstatat(p) \/ Chdir(p)
       \/ \E fd \in Fds : Close(p, fd) \/ Dup(p, fd) \/ SetCloexec(p, fd)
       \/ \E old, fd \in Fds : Dup2(p, old, fd)
       \/ \E fd, arg \in Fds, c \in {0, 1} : Fcntl(p, fd, arg, c)
       \/ Pipe(p) \/ Execve(p) \/ Exit(p)
       \/ \E q \in Procs : Fork(p, q)

Spec == Init /\ [][Next]_vars

----------------------------------------------------------------------------
\* The type of the state; a slot that is not in use has no open files.
TypeOK ==
  /\ ofile \in [Procs -> [Fds -> Files \cup {None}]]
  /\ live \subseteq Procs
  /\ \A p \in Procs \ live : ofile[p] = Empty /\ cwd[p] = None
  /\ \A p \in Procs : cwd[p] \in Dents \cup {Root, None}
  /\ \A f \in Files : file[f].refcnt \in Nat /\ file[f].cloexec \in {0, 1}
  /\ \A d \in Dents : den[d].refcnt \in Int /\ den[d].children \in [Names -> Dents \cup {None}]
  /\ freeList \in Seq(Dents) /\ panic \in {0, 1}

Users(f) == {x \in Procs \X Fds : ofile[x[1]][x[2]] = f}

\* The count of a file object is the number of descriptors that name it, in
\* all processes, whatever was duplicated, inherited, executed and closed:
\* no descriptor names a deleted object.
FileRefs == \A f \in Files : Users(f) # {} => file[f].refcnt = Cardinality(Users(f))

\* Uses of dentry d by open files, counted per descriptor, and as a working directory
Uses(d) == MapThenSumSet(LAMBDA f : IF file[f].den = d THEN file[f].refcnt ELSE 0, Files)
           + Cardinality({p \in live : cwd[p] = d})

\* A dentry counts at least the uses that open files and working directories
\* make of it, so that release cannot free it too early.
DentRefs == TypeOK /\ \A d \in Dents : den[d].refcnt >= Uses(d)

\* The dentries in the tree below Root
InTree == LET level[k \in 0 .. Cardinality(Names)] ==
                IF k = 0 THEN {top[n] : n \in Names} \ {None}
                ELSE level[k - 1] \cup (UNION {{den[d].children[n] : n \in Names} : d \in level[k - 1]} \ {None})
          IN level[Cardinality(Names)]

\* freeList_ holds the free dentries, each once: none that is in the tree,
\* that a file is open on, that is a working directory, or that is the parent
\* of one in use.  None is lost: a dentry that is not free is in the tree.
FreeIsFree ==
  /\ Cardinality(Range(freeList)) = Len(freeList)
  /\ \A d \in Range(freeList) : d \notin InTree /\ Uses(d) = 0
  /\ \A d \in Range(freeList) : \A e \in Dents \ Range(freeList) : den[e].parent # d
  /\ Dents \ Range(freeList) \subseteq InTree
=============================================================================
