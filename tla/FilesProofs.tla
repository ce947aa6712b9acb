---------------------------- MODULE FilesProofs ----------------------------
(***************************************************************************)
(* The counts of the file objects, for any number of processes,            *)
(* descriptors and file objects.                                           *)
(***************************************************************************)
EXTENDS Files, FiniteSetTheorems, WellFoundedInduction, TLAPS

Tables == [Fds -> Files \cup {None}]

\* How many of the descriptors S of table t name f, and who names it in the
\* tables o
Count(t, S, f) == Cardinality({fd \in S : t[fd] = f})
NamedBy(o, f)  == {x \in Procs \X Fds : o[x[1]][x[2]] = f}
Put(o, p, fd, g) == [o EXCEPT ![p][fd] = g]
Is(g, f)       == IF g = f THEN 1 ELSE 0

\* A file object that k descriptors name
FileOK(x, k) == /\ "refcnt" \in DOMAIN x /\ x.refcnt \in Nat
                /\ k # 0 => x.refcnt = k

Right(o, x) == /\ DOMAIN x = Files
               /\ \A f \in Files : FileOK(x[f], Cardinality(NamedBy(o, f)))

\* The inductive invariant: with the counts, who can have a file open at all
IInv == /\ ofile \in [Procs -> Tables] /\ live \subseteq Procs
        /\ \A p \in Procs \ live : ofile[p] = Empty
        /\ DOMAIN walk = Procs
        /\ \A p \in Procs : walk[p] # NoWalk => p \in live
        /\ Right(ofile, file)

----------------------------------------------------------------------------
\* The sets that are counted are finite.
LEMMA Finite == /\ IsFiniteSet(Fds) /\ IsFiniteSet(Procs \X Fds)
                /\ \A o, f : IsFiniteSet(NamedBy(o, f)) /\ Cardinality(NamedBy(o, f)) \in Nat
<1>1. IsFiniteSet(Fds)
  BY FS_Interval, FilesAssumption DEF Fds
<1>2. IsFiniteSet(Procs \X Fds)
  BY <1>1, FS_Product, FilesAssumption, Zenon
<1>3. ASSUME NEW o, NEW f PROVE IsFiniteSet(NamedBy(o, f)) /\ Cardinality(NamedBy(o, f)) \in Nat
  <2>1. NamedBy(o, f) \in SUBSET (Procs \X Fds)
    BY Zenon DEF NamedBy
  <2> QED BY <2>1, <1>2, FS_Subset, FS_CardinalityType
<1> QED BY <1>1, <1>2, <1>3, Zenon

\* Counting the descriptors of a table gives a number.
LEMMA CountType ==
  ASSUME NEW t, NEW S \in SUBSET Fds, NEW f
  PROVE  IsFiniteSet({fd \in S : t[fd] = f}) /\ Count(t, S, f) \in Nat
<1>1. {fd \in S : t[fd] = f} \in SUBSET Fds
  BY Zenon
<1> QED BY <1>1, Finite, FS_Subset, FS_CardinalityType DEF Count

\* One descriptor
LEMMA OneCount ==
  ASSUME NEW t, NEW fd, NEW f
  PROVE  Count(t, {fd}, f) = Is(t[fd], f)
<1>1. CASE t[fd] = f
  <2>1. {e \in {fd} : t[e] = f} = {fd}
    BY <1>1, Zenon
  <2> QED BY <2>1, <1>1, FS_Singleton, Zenon DEF Count, Is
<1>2. CASE t[fd] # f
  <2>1. {e \in {fd} : t[e] = f} = {}
    BY <1>2, Zenon
  <2> QED BY <2>1, <1>2, FS_EmptySet, Zenon DEF Count, Is
<1> QED BY <1>1, <1>2, Zenon

\* A table, and the part of a table that names a file
LEMMA PartCount ==
  ASSUME NEW t, NEW S \in SUBSET Fds, NEW f
  PROVE  Count(t, Fds, f) = Count(t, S, f) + Count(t, Fds \ S, f)
<1> DEFINE A == {fd \in S : t[fd] = f}
           B == {fd \in Fds \ S : t[fd] = f}
<1>1. IsFiniteSet(A) /\ IsFiniteSet(B)
  <2>1. A \in SUBSET Fds /\ B \in SUBSET Fds
    BY Zenon
  <2> HIDE DEF A, B
  <2> QED BY <2>1, Finite, FS_Subset, Zenon
<1>2. {fd \in Fds : t[fd] = f} = A \cup B /\ A \cap B = {}
  BY Zenon
<1>3. Cardinality(A \cup B) = Cardinality(A) + Cardinality(B) - Cardinality(A \cap B)
  BY <1>1, FS_Union, Zenon
<1>4. Cardinality(A) \in Nat /\ Cardinality(B) \in Nat
  BY <1>1, FS_CardinalityType, Zenon
<1> HIDE DEF A, B
<1>5. Cardinality(A \cup B) = Cardinality(A) + Cardinality(B)
  <2>1. Cardinality(A \cap B) = 0
    BY <1>2, FS_EmptySet, Zenon
  <2> QED BY <2>1, <1>3, <1>4
<1>6. Count(t, S, f) = Cardinality(A) /\ Count(t, Fds \ S, f) = Cardinality(B)
  BY Zenon DEF A, B, Count
<1>7. Count(t, Fds, f) = Cardinality(A \cup B)
  BY <1>2, Zenon DEF Count
<1> QED BY <1>5, <1>6, <1>7, Zenon

\* Tables that agree on S count alike there.
LEMMA SameCount ==
  ASSUME NEW t, NEW u, NEW S, NEW f, \A fd \in S : t[fd] = u[fd]
  PROVE  Count(t, S, f) = Count(u, S, f)
<1>1. {fd \in S : t[fd] = f} = {fd \in S : u[fd] = f}
  BY Zenon
<1> QED BY <1>1, Zenon DEF Count

\* The pairs with first component p are as many as the descriptors.
LEMMA OwnCount ==
  ASSUME NEW t, NEW p, NEW f
  PROVE  /\ IsFiniteSet({x \in {p} \X Fds : t[x[2]] = f})
         /\ Cardinality({x \in {p} \X Fds : t[x[2]] = f}) = Count(t, Fds, f)
<1> DEFINE S == {fd \in Fds : t[fd] = f}
           T == {x \in {p} \X Fds : t[x[2]] = f}
           g == [fd \in S |-> <<p, fd>>]
<1>1. g \in Bijection(S, T)
  <2>1. g \in [S -> T]
    BY Zenon
  <2>2. \A a, b \in S : g[a] = g[b] => a = b
    BY Zenon
  <2>3. \A x \in T : \E a \in S : g[a] = x
    <3> TAKE x \in T
    <3>1. x[2] \in S /\ x = <<p, x[2]>>
      OBVIOUS
    <3> QED BY <3>1, Zenon
  <2> HIDE DEF g, S, T
  <2> QED BY <2>1, <2>2, <2>3 DEF Bijection, Injection, IsInjective, Surjection
<1>2. IsFiniteSet(S)
  BY CountType, SMTT(20)
<1> HIDE DEF g
<1>3. ExistsBijection(S, T)
  BY <1>1 DEF ExistsBijection
<1> QED BY <1>2, <1>3, FS_Bijection, Zenon DEF Count

\* The table of one process changes.
LEMMA TableChange ==
  ASSUME NEW o \in [Procs -> Tables], NEW p \in Procs, NEW t \in Tables, NEW f
  PROVE  /\ Cardinality(NamedBy([o EXCEPT ![p] = t], f))
              = Cardinality(NamedBy(o, f)) - Count(o[p], Fds, f) + Count(t, Fds, f)
         /\ Count(o[p], Fds, f) <= Cardinality(NamedBy(o, f))
<1> DEFINE Own(u) == {x \in {p} \X Fds : u[x[2]] = f}
           Rest == {x \in Procs \X Fds : x[1] # p /\ o[x[1]][x[2]] = f}
           n == [o EXCEPT ![p] = t]
<1>1. IsFiniteSet(Rest)
  BY Finite, FS_Subset, Zenon
<1>2. Cardinality(Rest) \in Nat
  BY <1>1, FS_CardinalityType, Zenon
<1>3. \A u : /\ IsFiniteSet(Own(u)) /\ Cardinality(Own(u)) = Count(u, Fds, f)
             /\ Count(u, Fds, f) \in Nat
  <2> TAKE u
  <2>1. IsFiniteSet(Own(u)) /\ Cardinality(Own(u)) = Count(u, Fds, f)
    BY OwnCount, Zenon
  <2> HIDE DEF Own
  <2> QED BY <2>1, FS_CardinalityType, Zenon
<1>4. NamedBy(o, f) = Rest \cup Own(o[p]) /\ Rest \cap Own(o[p]) = {}
  <2>1. \A x \in Procs \X Fds : x[1] = p <=> x \in {p} \X Fds
    BY Zenon
  <2>2. \A x : x \in {p} \X Fds => x \in Procs \X Fds
    BY Zenon
  <2> QED BY <2>1, <2>2, Zenon DEF NamedBy
<1>5. NamedBy(n, f) = Rest \cup Own(t) /\ Rest \cap Own(t) = {}
  <2>1. \A q \in Procs : n[q] = IF q = p THEN t ELSE o[q]
    BY Zenon
  <2> HIDE DEF n
  <2> QED BY <2>1, Zenon DEF NamedBy
<1> HIDE DEF Own, Rest, n
<1>6. ASSUME NEW u, Rest \cap Own(u) = {}
      PROVE  Cardinality(Rest \cup Own(u)) = Cardinality(Rest) + Count(u, Fds, f)
  <2>1. Cardinality(Rest \cup Own(u)) = Cardinality(Rest) + Cardinality(Own(u)) - Cardinality(Rest \cap Own(u))
    BY <1>1, <1>3, FS_Union, Zenon
  <2>2. Cardinality(Rest \cap Own(u)) = 0
    BY <1>6, FS_EmptySet, Zenon
  <2> QED BY <2>1, <2>2, <1>2, <1>3
<1>7. Cardinality(NamedBy(o, f)) = Cardinality(Rest) + Count(o[p], Fds, f)
  BY <1>4, <1>6, Zenon
<1>8. Cardinality(NamedBy(n, f)) = Cardinality(Rest) + Count(t, Fds, f)
  BY <1>5, <1>6, Zenon
<1>9. Count(o[p], Fds, f) \in Nat /\ Count(t, Fds, f) \in Nat
  BY <1>3, Zenon
<1> QED BY <1>2, <1>7, <1>8, <1>9 DEF n

\* Part of one table, and everyone who names the file
LEMMA PartNamed ==
  ASSUME NEW o \in [Procs -> Tables], NEW p \in Procs, NEW S \in SUBSET Fds, NEW f
  PROVE  /\ Count(o[p], S, f) <= Cardinality(NamedBy(o, f))
         /\ Count(o[p], S, f) \in Nat
<1>1. o[p] \in Tables
  BY Zenon
<1>2. Count(o[p], Fds, f) <= Cardinality(NamedBy(o, f))
  BY <1>1, TableChange, Zenon
<1>3. Count(o[p], Fds, f) = Count(o[p], S, f) + Count(o[p], Fds \ S, f)
  BY PartCount
<1>4. Count(o[p], S, f) \in Nat /\ Count(o[p], Fds \ S, f) \in Nat
  BY CountType, Zenon
<1> QED BY <1>2, <1>3, <1>4, Finite

\* One descriptor changes.
LEMMA SlotChange ==
  ASSUME NEW o \in [Procs -> Tables], NEW p \in Procs, NEW fd \in Fds,
         NEW g \in Files \cup {None}, NEW f, NEW n, n = Put(o, p, fd, g)
  PROVE  /\ n \in [Procs -> Tables]
         /\ Cardinality(NamedBy(n, f))
              = Cardinality(NamedBy(o, f)) - Is(o[p][fd], f) + Is(g, f)
         /\ Is(o[p][fd], f) <= Cardinality(NamedBy(o, f))
<1> DEFINE t == [o[p] EXCEPT ![fd] = g]
<1>1. o[p] \in Tables /\ t \in Tables
  BY Zenon DEF Tables
<1>2. n = [o EXCEPT ![p] = t]
  BY Zenon DEF Put
<1>3. t[fd] = g /\ \A e \in Fds \ {fd} : t[e] = o[p][e]
  BY <1>1, Zenon DEF Tables
<1> HIDE DEF t
<1>4. /\ Count(o[p], Fds, f) = Count(o[p], {fd}, f) + Count(o[p], Fds \ {fd}, f)
      /\ Count(t, Fds, f) = Count(t, {fd}, f) + Count(t, Fds \ {fd}, f)
  BY PartCount
<1>5. Count(t, Fds \ {fd}, f) = Count(o[p], Fds \ {fd}, f)
  BY <1>3, SameCount
<1>6. Count(o[p], {fd}, f) = Is(o[p][fd], f) /\ Count(t, {fd}, f) = Is(g, f)
  BY <1>3, OneCount
<1>7. Count(o[p], Fds \ {fd}, f) \in Nat
  BY CountType, Zenon
<1>8. Is(o[p][fd], f) \in Nat /\ Is(g, f) \in Nat
  BY Zenon DEF Is
<1>9. /\ Cardinality(NamedBy(n, f))
           = Cardinality(NamedBy(o, f)) - Count(o[p], Fds, f) + Count(t, Fds, f)
      /\ Count(o[p], Fds, f) <= Cardinality(NamedBy(o, f))
  <2>1. /\ Cardinality(NamedBy([o EXCEPT ![p] = t], f))
             = Cardinality(NamedBy(o, f)) - Count(o[p], Fds, f) + Count(t, Fds, f)
        /\ Count(o[p], Fds, f) <= Cardinality(NamedBy(o, f))
    BY <1>1, TableChange, Zenon
  <2> QED BY <2>1, <1>2, Zenon
<1>10. Cardinality(NamedBy(o, f)) \in Nat
  BY Finite, Zenon
<1>11. n \in [Procs -> Tables]
  BY <1>1, <1>2, Zenon
<1> QED BY <1>4, <1>5, <1>6, <1>7, <1>8, <1>9, <1>10, <1>11

----------------------------------------------------------------------------
\* The lowest member of a nonempty set of numbers is a member.
LEMMA MinIn ==
  ASSUME NEW S \in SUBSET Nat, S # {}
  PROVE  Min(S) \in S
<1>1. PICK m \in S : \A y \in S : <<y, m>> \notin OpToRel(<, Nat)
  BY WFMin, NatLessThanWellFounded, Zenon
<1>2. \A y \in S : m <= y
  <2> TAKE y \in S
  <2>1. y \in Nat /\ m \in Nat
    BY Zenon
  <2>2. ~(y < m)
    BY <1>1, <2>1, Zenon DEF OpToRel
  <2> QED BY <2>1, <2>2
<1> QED BY <1>2, Zenon DEF Min

\* dup raises a count that is right by what is named.
LEMMA Gain ==
  ASSUME NEW x, NEW k \in Nat, NEW n \in Nat, n <= k, FileOK(x, k)
  PROVE  FileOK([x EXCEPT !.refcnt = @ + n], k + n)
BY DEF FileOK

\* free_file lowers it; the object goes only when nobody names it any more.
LEMMA Loss ==
  ASSUME NEW x, NEW k \in Nat, NEW n \in Nat, n <= k, FileOK(x, k)
  PROVE  FileOK(dropped(x, n), k - n)
<1>1. CASE n > 0 /\ x.refcnt = n
  BY <1>1 DEF FileOK, dropped, NoFile
<1>2. CASE ~(n > 0 /\ x.refcnt = n)
  <2>1. dropped(x, n) = [x EXCEPT !.refcnt = @ - n]
    BY <1>2, Zenon DEF dropped
  <2>2. x.refcnt - n \in Nat /\ (k - n # 0 => x.refcnt - n = k - n)
    BY DEF FileOK
  <2> QED BY <2>1, <2>2, Zenon DEF FileOK
<1> QED BY <1>1, <1>2, Zenon

\* A new file, named once or not at all
LEMMA NewOK ==
  ASSUME NEW d PROVE FileOK(new_file(d), 1) /\ FileOK(new_file(d), 0)
BY Zenon DEF FileOK, new_file, NoFile

\* Nobody names a file object that is free.
LEMMA UnusedNone ==
  ASSUME Right(ofile, file), NEW f \in Unused
  PROVE  f \in Files /\ Cardinality(NamedBy(ofile, f)) = 0
BY Zenon DEF Right, FileOK, Unused

\* file::dup and free_file for the descriptors S of p
LEMMA DupRight ==
  ASSUME ofile \in [Procs -> Tables], NEW x, DOMAIN x = Files, NEW p \in Procs,
         NEW S \in SUBSET Fds, NEW f \in Files, NEW k \in Nat,
         Count(ofile[p], S, f) <= k, FileOK(x[f], k)
  PROVE  FileOK(file_dup(x, p, S)[f], k + Count(ofile[p], S, f))
<1>1. file_dup(x, p, S)[f] = [x[f] EXCEPT !.refcnt = @ + Count(ofile[p], S, f)]
  BY Zenon DEF file_dup, Times, Count
<1>2. Count(ofile[p], S, f) \in Nat
  BY CountType, Zenon
<1> QED BY <1>1, <1>2, Gain

\* free_file for the descriptors S of p takes from the count of f what S counted.
LEMMA FreeRight ==
  ASSUME ofile \in [Procs -> Tables], NEW x, NEW p \in Procs,
         NEW S \in SUBSET Fds, NEW f \in Files, NEW k \in Nat,
         Count(ofile[p], S, f) <= k, FileOK(x[f], k)
  PROVE  FileOK(free_file(x, p, S)[f], k - Count(ofile[p], S, f))
<1>1. free_file(x, p, S)[f] = dropped(x[f], Count(ofile[p], S, f))
  BY Zenon DEF free_file, Times, Count
<1>2. Count(ofile[p], S, f) \in Nat
  BY CountType, Zenon
<1> QED BY <1>1, <1>2, Loss

\* A new table for p that counts as the step says
LEMMA TableStep ==
  ASSUME ofile \in [Procs -> Tables], NEW p \in Procs, NEW t \in Tables,
         ofile' = [ofile EXCEPT ![p] = t], DOMAIN file' = Files,
         \A f \in Files : FileOK(file'[f], Cardinality(NamedBy(ofile, f))
                                           - Count(ofile[p], Fds, f) + Count(t, Fds, f))
  PROVE  ofile' \in [Procs -> Tables] /\ Right(ofile, file)'
<1>1. ofile' \in [Procs -> Tables]
  BY Zenon
<1>2. ASSUME NEW f \in Files PROVE FileOK(file'[f], Cardinality(NamedBy(ofile', f)))
  <2>1. Cardinality(NamedBy([ofile EXCEPT ![p] = t], f))
          = Cardinality(NamedBy(ofile, f)) - Count(ofile[p], Fds, f) + Count(t, Fds, f)
    BY TableChange, Zenon
  <2> QED BY <2>1, Zenon
<1> QED BY <1>1, <1>2, Zenon DEF Right

\* A new entry for one descriptor
LEMMA SlotStep ==
  ASSUME ofile \in [Procs -> Tables], NEW p \in Procs, NEW fd \in Fds,
         NEW g \in Files \cup {None},
         ofile' = Put(ofile, p, fd, g), DOMAIN file' = Files,
         \A f \in Files : FileOK(file'[f], Cardinality(NamedBy(ofile, f))
                                           - Is(ofile[p][fd], f) + Is(g, f))
  PROVE  ofile' \in [Procs -> Tables] /\ Right(ofile, file)'
<1>1. ofile' \in [Procs -> Tables]
  BY SlotChange, Zenon
<1>2. ASSUME NEW f \in Files PROVE FileOK(file'[f], Cardinality(NamedBy(ofile', f)))
  <2>1. Cardinality(NamedBy(ofile', f))
          = Cardinality(NamedBy(ofile, f)) - Is(ofile[p][fd], f) + Is(g, f)
    BY SlotChange
  <2> QED BY <2>1, Zenon
<1> QED BY <1>1, <1>2, Zenon DEF Right

----------------------------------------------------------------------------
\* A step of a live process that leaves the tables and walks of others alone
LEMMA OwnStep ==
  ASSUME IInv, NEW p \in live, live' = live, DOMAIN walk' = Procs,
         \A q \in Procs : q # p => ofile'[q] = ofile[q] /\ walk'[q] = walk[q],
         ofile' \in [Procs -> Tables], Right(ofile, file)'
  PROVE  IInv'
BY Zenon DEF IInv

\* A walk goes on, comes to its end or begins; no file is touched.
LEMMA WalkStep ==
  ASSUME IInv, NEW p \in Procs,
         \/ \E n, for : PathSearch(p, for, n)
         \/ EntrySearch(p) \/ FoundOnDisk(p) \/ Fstatat(p) \/ Chdir(p)
  PROVE  IInv'
<1>1. p \in live
  BY Zenon DEF IInv, PathSearch, EntrySearch, FoundOnDisk, Fstatat, Chdir, Idle, Walking, Arrived
<1>2. UNCHANGED <<ofile, file, live>>
  BY Zenon DEF PathSearch, EntrySearch, FoundOnDisk, Fstatat, Chdir
<1>3. DOMAIN walk' = Procs /\ \A q \in Procs : q # p => walk'[q] = walk[q]
  <2>1. DOMAIN walk = Procs
    BY Zenon DEF IInv
  <2>2. CASE \E n, for : PathSearch(p, for, n)
    BY <2>1, <2>2, Zenon DEF PathSearch
  <2>3. CASE EntrySearch(p)
    BY <2>1, <2>3, Zenon DEF EntrySearch
  <2>4. CASE FoundOnDisk(p)
    BY <2>1, <2>4 DEF FoundOnDisk
  <2>5. CASE Fstatat(p) \/ Chdir(p)
    BY <2>1, <2>5 DEF Fstatat, Chdir, Arrived
  <2> QED BY <2>2, <2>3, <2>4, <2>5
<1>4. ofile' \in [Procs -> Tables] /\ Right(ofile, file)'
  BY <1>2, Zenon DEF IInv, Right
<1> QED BY <1>1, <1>2, <1>3, <1>4, OwnStep, Zenon

\* A descriptor is free: it names no file.
LEMMA NoneIs == \A f \in Files : Is(None, f) = 0
BY FilesAssumption DEF Is, None, Files

\* alloc_fd finds a free descriptor where there is one.
LEMMA FreeFd ==
  ASSUME NEW t, NEW S \in SUBSET FreeFds(t), S # {}
  PROVE  Min(S) \in Fds /\ t[Min(S)] = None
<1>1. S \in SUBSET Nat
  BY FilesAssumption DEF FreeFds, Fds
<1> QED BY <1>1, MinIn, Zenon DEF FreeFds

\* The file object that new takes exists and is unused.
LEMMA LowUnused ==
  ASSUME NEW S \in SUBSET Unused, S # {} PROVE Min(S) \in S
<1>1. S \in SUBSET Nat
  BY DEF Unused, Files
<1> QED BY <1>1, MinIn, Zenon

\* open: a new object, and a descriptor for it if there is one
LEMMA OpenStep ==
  ASSUME IInv, NEW p \in Procs, Open(p)
  PROVE  IInv'
<1> DEFINE f == Min(Unused)
           a == alloc_fd(ofile[p])
           x == new_file(walk[p].entry)
<1>1. p \in live /\ live' = live /\ DOMAIN walk' = Procs
      /\ \A q \in Procs : q # p => walk'[q] = walk[q]
  BY Zenon DEF IInv, Open, Arrived
<1>2. f \in Unused /\ f \in Files /\ Cardinality(NamedBy(ofile, f)) = 0
  BY LowUnused, UnusedNone, Zenon DEF IInv, Open
<1>3. DOMAIN file' = Files /\ file'[f] = x /\ \A g \in Files \ {f} : file'[g] = file[g]
  BY <1>2, Zenon DEF Open, IInv, Right
<1>4. \A g \in Files : FileOK(file[g], Cardinality(NamedBy(ofile, g)))
  BY Zenon DEF IInv, Right
<1>5. FileOK(x, 1) /\ FileOK(x, 0)
  BY NewOK, Zenon
<1>6. ofile' = IF FreeFds(ofile[p]) = {} THEN ofile ELSE Put(ofile, p, a, f)
  BY Zenon DEF Open, Put
<1>7. ofile \in [Procs -> Tables]
  BY Zenon DEF IInv
<1> HIDE DEF f, a, x
<1>8. CASE FreeFds(ofile[p]) = {}
  <2>1. ofile' = ofile
    BY <1>6, <1>8
  <2>2. \A g \in Files : FileOK(file'[g], Cardinality(NamedBy(ofile, g)))
    BY <1>2, <1>3, <1>4, <1>5
  <2>3. Right(ofile, file)'
    BY <2>1, <2>2, <1>3 DEF Right
  <2> QED BY <1>1, <1>7, <2>1, <2>3, OwnStep
<1>9. CASE FreeFds(ofile[p]) # {}
  <2>1. a \in Fds /\ ofile[p][a] = None
    BY <1>9, FreeFd DEF a, alloc_fd
  <2>2. ofile' = Put(ofile, p, a, f)
    BY <1>6, <1>9
  <2>3. ASSUME NEW g \in Files
        PROVE  FileOK(file'[g], Cardinality(NamedBy(ofile, g)) - Is(ofile[p][a], g) + Is(f, g))
    <3>1. Is(ofile[p][a], g) = 0 /\ Cardinality(NamedBy(ofile, g)) \in Nat
      BY <2>1, NoneIs, Finite
    <3>2. CASE g = f
      <4>1. Is(f, g) = 1 /\ Cardinality(NamedBy(ofile, g)) = 0
        BY <3>2, <1>2 DEF Is
      <4>2. Cardinality(NamedBy(ofile, g)) - Is(ofile[p][a], g) + Is(f, g) = 1
        BY <3>1, <4>1
      <4> QED BY <4>2, <3>2, <1>3, <1>5
    <3>3. CASE g # f
      <4>1. Is(f, g) = 0
        BY <3>3, Zenon DEF Is
      <4>2. Cardinality(NamedBy(ofile, g)) - Is(ofile[p][a], g) + Is(f, g) = Cardinality(NamedBy(ofile, g))
        BY <3>1, <4>1
      <4> QED BY <4>2, <3>3, <1>3, <1>4
    <3> QED BY <3>2, <3>3
  <2>4. f \in Files \cup {None}
    BY <1>2, Zenon
  <2>5. ofile' \in [Procs -> Tables] /\ Right(ofile, file)'
    BY <2>1, <2>2, <2>3, <2>4, <1>3, <1>7, SlotStep
  <2>6. \A q \in Procs : q # p => ofile'[q] = ofile[q]
    BY <2>2, <1>7 DEF Put
  <2> QED BY <1>1, <2>5, <2>6, OwnStep
<1> QED BY <1>8, <1>9, Zenon

\* An idle process is live, and a call of it that leaves the others alone
\* keeps the invariant if it keeps the counts.
LEMMA IdleStep ==
  ASSUME IInv, NEW p \in Procs, Idle(p), UNCHANGED <<live, walk>>,
         \A q \in Procs : q # p => ofile'[q] = ofile[q],
         ofile' \in [Procs -> Tables], Right(ofile, file)'
  PROVE  IInv'
<1>1. p \in live /\ DOMAIN walk' = Procs
  BY Zenon DEF IInv, Idle
<1> QED BY <1>1, OwnStep, Zenon

\* close
LEMMA CloseStep ==
  ASSUME IInv, NEW p \in Procs, NEW fd \in Fds, Close(p, fd)
  PROVE  IInv'
<1>1. ofile \in [Procs -> Tables] /\ DOMAIN file = Files
  BY Zenon DEF IInv, Right
<1>2. ofile' = Put(ofile, p, fd, None) /\ file' = free_file(file, p, {fd})
  BY Zenon DEF Close, Put
<1>3. ASSUME NEW f \in Files
      PROVE  FileOK(file'[f], Cardinality(NamedBy(ofile, f)) - Is(ofile[p][fd], f) + Is(None, f))
  <2>1. Count(ofile[p], {fd}, f) = Is(ofile[p][fd], f)
    BY OneCount
  <2>2. Is(ofile[p][fd], f) <= Cardinality(NamedBy(ofile, f)) /\ Cardinality(NamedBy(ofile, f)) \in Nat
    BY <1>1, <2>1, PartNamed, Finite, SMTT(20)
  <2>3. FileOK(file'[f], Cardinality(NamedBy(ofile, f)) - Is(ofile[p][fd], f))
    BY <1>1, <1>2, <2>1, <2>2, FreeRight DEF IInv, Right
  <2>4. Is(None, f) = 0 /\ Is(ofile[p][fd], f) \in Nat
    BY NoneIs, Zenon DEF Is
  <2>5. Cardinality(NamedBy(ofile, f)) - Is(ofile[p][fd], f) + Is(None, f)
          = Cardinality(NamedBy(ofile, f)) - Is(ofile[p][fd], f)
    BY <2>2, <2>4
  <2> QED BY <2>3, <2>5
<1>4. DOMAIN file' = Files /\ None \in Files \cup {None}
  BY <1>2, Zenon DEF free_file
<1>5. ofile' \in [Procs -> Tables] /\ Right(ofile, file)'
  BY <1>1, <1>2, <1>3, <1>4, SlotStep, SMTT(20)
<1>6. \A q \in Procs : q # p => ofile'[q] = ofile[q]
  BY <1>1, <1>2 DEF Put
<1> QED BY <1>5, <1>6, IdleStep, Zenon DEF Close

\* A free descriptor a comes to name the file of descriptor fd.
LEMMA ShareStep ==
  ASSUME IInv, NEW p \in Procs, NEW fd \in Fds, NEW a \in Fds, ofile[p][a] = None,
         ofile' = Put(ofile, p, a, ofile[p][fd]), DOMAIN file' = Files,
         \A f \in Files : FileOK(file'[f], Cardinality(NamedBy(ofile, f)) + Is(ofile[p][fd], f)),
         Idle(p), UNCHANGED <<live, walk>>
  PROVE  IInv'
<1>1. ofile \in [Procs -> Tables] /\ ofile[p][fd] \in Files \cup {None}
  BY DEF IInv, Tables
<1>2. ASSUME NEW f \in Files
      PROVE  FileOK(file'[f], Cardinality(NamedBy(ofile, f)) - Is(ofile[p][a], f) + Is(ofile[p][fd], f))
  <2>1. Is(ofile[p][a], f) = 0 /\ Cardinality(NamedBy(ofile, f)) \in Nat
    BY NoneIs, Finite
  <2>2. Cardinality(NamedBy(ofile, f)) - Is(ofile[p][a], f) = Cardinality(NamedBy(ofile, f))
    BY <2>1
  <2> QED BY <2>2, Zenon
<1>3. ofile' \in [Procs -> Tables] /\ Right(ofile, file)'
  BY <1>1, <1>2, SlotStep
<1>4. \A q \in Procs : q # p => ofile'[q] = ofile[q]
  BY <1>1, Zenon DEF Put
<1> QED BY <1>3, <1>4, IdleStep

\* dup
LEMMA DupStep ==
  ASSUME IInv, NEW p \in Procs, NEW fd \in Fds, Dup(p, fd)
  PROVE  IInv'
<1> DEFINE a == alloc_fd(ofile[p])
<1>1. ofile \in [Procs -> Tables] /\ DOMAIN file = Files
  BY Zenon DEF IInv, Right
<1>2. ofile' = Put(ofile, p, a, ofile[p][fd]) /\ file' = file_dup(file, p, {fd})
  BY Zenon DEF Dup, Put
<1>3. a \in Fds /\ ofile[p][a] = None
  BY FreeFd, Zenon DEF Dup, alloc_fd
<1>4. ASSUME NEW f \in Files
      PROVE  FileOK(file'[f], Cardinality(NamedBy(ofile, f)) + Is(ofile[p][fd], f))
  <2>1. Count(ofile[p], {fd}, f) = Is(ofile[p][fd], f)
    BY OneCount, Zenon
  <2>2. Is(ofile[p][fd], f) <= Cardinality(NamedBy(ofile, f)) /\ Cardinality(NamedBy(ofile, f)) \in Nat
    BY <1>1, <2>1, PartNamed, Finite, Zenon
  <2> QED BY <1>1, <1>2, <2>1, <2>2, DupRight DEF IInv, Right
<1>5. DOMAIN file' = Files
  BY <1>2, Zenon DEF file_dup
<1> HIDE DEF a
<1> QED BY <1>2, <1>3, <1>4, <1>5, ShareStep, Zenon DEF Dup

\* dup2: what was there is freed first.
LEMMA Dup2Step ==
  ASSUME IInv, NEW p \in Procs, NEW old \in Fds, NEW fd \in Fds, Dup2(p, old, fd)
  PROVE  IInv'
<1> DEFINE S == closed(p, fd)
           x == free_file(file, p, S)
           o == Put(ofile, p, fd, None)
<1>1. ofile \in [Procs -> Tables] /\ DOMAIN file = Files /\ S \in SUBSET Fds
      /\ ofile[p][old] \in Files \cup {None}
  BY Zenon DEF IInv, Right, closed, Tables
<1>2. /\ fd # old /\ ofile' = Put(ofile, p, fd, ofile[p][old])
      /\ file' = file_dup(x, p, {old})
  BY Zenon DEF Dup2, Put
<1>3. ASSUME NEW f \in Files
      PROVE  FileOK(file'[f], Cardinality(NamedBy(ofile, f)) - Is(ofile[p][fd], f) + Is(ofile[p][old], f))
  <2> DEFINE k == Cardinality(NamedBy(ofile, f))
             c == Is(ofile[p][fd], f)
             n == Is(ofile[p][old], f)
  <2>1. k \in Nat /\ c \in Nat /\ n \in Nat /\ c <= k
    <3>1. Count(ofile[p], {fd}, f) = c
      BY OneCount, Zenon
    <3> QED BY <1>1, <3>1, PartNamed, Finite, SMTT(20) DEF Is
  <2>2. Count(ofile[p], S, f) = c
    <3>1. CASE ofile[p][fd] = None
      <4>1. S = {}
        BY <3>1, Zenon DEF closed, Opened
      <4>2. {e \in S : ofile[p][e] = f} = {}
        BY <4>1, Zenon
      <4> QED BY <4>2, <3>1, NoneIs, FS_EmptySet DEF Count
    <3>2. CASE ofile[p][fd] # None
      <4>1. S = {fd}
        BY <3>2, Zenon DEF closed, Opened
      <4> QED BY <4>1, OneCount, Zenon
    <3> QED BY <3>1, <3>2
  <2>3. n <= k - c
    <3>1. o \in [Procs -> Tables] /\ Cardinality(NamedBy(o, f)) = k - c + Is(None, f)
      BY <1>1, SlotChange
    <3>2. o[p][old] = ofile[p][old]
      BY <1>1, <1>2, Zenon DEF Put, Tables
    <3>3. Count(o[p], {old}, f) = n
      <4>1. Count(o[p], {old}, f) = Is(o[p][old], f)
        BY OneCount, Zenon
      <4> QED BY <4>1, <3>2, Zenon
    <3> HIDE DEF o, k, c, n
    <3>4. n <= Cardinality(NamedBy(o, f))
      BY <3>1, <3>3, PartNamed, Zenon
    <3>5. Is(None, f) = 0
      BY NoneIs, Zenon
    <3> QED BY <2>1, <3>1, <3>4, <3>5
  <2>4. FileOK(file[f], k)
    BY Zenon DEF IInv, Right
  <2>5. Count(ofile[p], {old}, f) = n
    BY OneCount, Zenon
  <2> HIDE DEF S, k, c, n
  <2>6. FileOK(x[f], k - c)
    BY <1>1, <2>1, <2>2, <2>4, FreeRight
  <2>7. DOMAIN x = Files
    BY Zenon DEF free_file
  <2> HIDE DEF x
  <2>8. k - c \in Nat
    BY <2>1
  <2>9. FileOK(file'[f], (k - c) + n)
    BY <1>1, <1>2, <2>3, <2>5, <2>6, <2>7, <2>8, DupRight
  <2> QED BY <2>9, Zenon DEF k, c, n
<1>4. DOMAIN file' = Files
  BY <1>2, Zenon DEF file_dup
<1> HIDE DEF S, x, o
<1>5. ofile' \in [Procs -> Tables] /\ Right(ofile, file)'
  BY <1>1, <1>2, <1>3, <1>4, SlotStep, Zenon
<1>6. \A q \in Procs : q # p => ofile'[q] = ofile[q]
  BY <1>1, <1>2 DEF Put
<1> QED BY <1>5, <1>6, IdleStep, Zenon DEF Dup2

\* fcntl: F_DUPFD and F_DUPFD_CLOEXEC
LEMMA FcntlStep ==
  ASSUME IInv, NEW p \in Procs, NEW fd \in Fds, NEW arg, NEW c, Fcntl(p, fd, arg, c)
  PROVE  IInv'
<1> DEFINE S == {i \in FreeFds(ofile[p]) : i >= arg}
           g == ofile[p][fd]
<1>1. ofile \in [Procs -> Tables] /\ DOMAIN file = Files
  BY Zenon DEF IInv, Right
<1>2. g \in Files
  BY <1>1 DEF Fcntl, Holds, Tables
<1>3. CASE S = {}
  <2>1. UNCHANGED <<ofile, file>>
    BY <1>3, Zenon DEF Fcntl
  <2>2. ofile' \in [Procs -> Tables] /\ Right(ofile, file)'
    BY <2>1, Zenon DEF IInv, Right
  <2> QED BY <2>1, <2>2, IdleStep, Zenon DEF Fcntl
<1>4. CASE S # {}
  <2>1. Min(S) \in Fds /\ ofile[p][Min(S)] = None
    BY <1>4, FreeFd, Zenon
  <2>2. ofile' = Put(ofile, p, Min(S), ofile[p][fd])
    BY <1>4, Zenon DEF Fcntl, Put
  <2>3. file' = [file EXCEPT ![g].refcnt = @ + 1, ![g].cloexec = IF c = 1 THEN 1 ELSE @]
    BY <1>4, Zenon DEF Fcntl
  <2> HIDE DEF S
  <2>4. DOMAIN file' = Files /\ \A f \in Files \ {g} : file'[f] = file[f]
    BY <1>1, <1>2, <2>3
  <2>5. "refcnt" \in DOMAIN file'[g] /\ file'[g].refcnt = file[g].refcnt + 1
    BY <1>1, <1>2, <2>3 DEF IInv, Right, FileOK
  <2>6. ASSUME NEW f \in Files
        PROVE  FileOK(file'[f], Cardinality(NamedBy(ofile, f)) + Is(ofile[p][fd], f))
    <3>1. FileOK(file[f], Cardinality(NamedBy(ofile, f))) /\ Cardinality(NamedBy(ofile, f)) \in Nat
      BY Finite, Zenon DEF IInv, Right
    <3>2. CASE f = g
      <4>1. Is(ofile[p][fd], f) = 1 /\ Count(ofile[p], {fd}, f) = Is(ofile[p][fd], f)
        BY <3>2, OneCount, Zenon DEF Is
      <4>2. 1 <= Cardinality(NamedBy(ofile, f))
        BY <1>1, <4>1, PartNamed, SMTT(20)
      <4> QED BY <2>5, <3>1, <3>2, <4>1, <4>2 DEF FileOK
    <3>3. CASE f # g
      <4>1. Is(ofile[p][fd], f) = 0
        BY <3>3, Zenon DEF Is
      <4> QED BY <2>4, <3>1, <3>3, <4>1
    <3> QED BY <3>2, <3>3
  <2> QED BY <2>1, <2>2, <2>4, <2>6, ShareStep, SMTT(20) DEF Fcntl
<1> QED BY <1>3, <1>4

\* fcntl and ioctl that set close-on-exec
LEMMA SetCloexecStep ==
  ASSUME IInv, NEW p \in Procs, NEW fd \in Fds, SetCloexec(p, fd)
  PROVE  IInv'
<1>1. ofile' = ofile /\ file' = [file EXCEPT ![ofile[p][fd]].cloexec = 1]
  BY Zenon DEF SetCloexec
<1>2. Right(ofile, file)'
  <2>1. DOMAIN file' = Files
    BY <1>1, Zenon DEF IInv, Right
  <2>2. ASSUME NEW f \in Files PROVE FileOK(file'[f], Cardinality(NamedBy(ofile', f)))
    BY <1>1, Zenon DEF IInv, Right, FileOK
  <2> QED BY <2>1, <2>2, Zenon DEF Right
<1>3. ofile' \in [Procs -> Tables]
  BY <1>1, Zenon DEF IInv
<1> QED BY <1>1, <1>2, <1>3, IdleStep, Zenon DEF SetCloexec

\* A set of two members is not empty without one of them.
LEMMA Second ==
  ASSUME NEW S, IsFiniteSet(S), Cardinality(S) >= 2, NEW x
  PROVE  S # {} /\ S \ {x} # {}
<1>1. S # {}
  BY FS_EmptySet
<1>2. ASSUME S \ {x} = {} PROVE FALSE
  <2>1. S \in SUBSET {x}
    BY <1>2, Zenon
  <2>2. IsFiniteSet({x}) /\ Cardinality({x}) = 1
    BY FS_Singleton, Zenon
  <2>3. Cardinality(S) <= 1 /\ Cardinality(S) \in Nat
    BY <2>1, <2>2, FS_Subset, FS_CardinalityType
  <2> QED BY <2>3
<1> QED BY <1>1, <1>2, Zenon

\* pipe: two new objects and two descriptors, or neither
LEMMA PipeStep ==
  ASSUME IInv, NEW p \in Procs, Pipe(p)
  PROVE  IInv'
<1> DEFINE r == Min(Unused)
           w == Min(Unused \ {r})
           a == alloc_fd(ofile[p])
           t == [ofile[p] EXCEPT ![a] = r]
           b == alloc_fd(t)
           o == Put(ofile, p, a, r)
<1>1. ofile \in [Procs -> Tables] /\ DOMAIN file = Files /\ ofile[p] \in Tables
  BY Zenon DEF IInv, Right
<1>2. CASE Cardinality(FreeFds(ofile[p])) < 2
  <2>1. UNCHANGED <<ofile, file>>
    BY <1>2, Zenon DEF Pipe
  <2>2. ofile' \in [Procs -> Tables] /\ Right(ofile, file)'
    BY <2>1, Zenon DEF IInv, Right
  <2> QED BY <2>1, <2>2, IdleStep DEF Pipe
<1>3. CASE ~(Cardinality(FreeFds(ofile[p])) < 2)
  <2>1. r \in Unused /\ w \in Unused /\ r # w
    <3>1. IsFiniteSet(Unused) /\ Cardinality(Unused) >= 2
      <4>1. Unused \in SUBSET Files
        BY Zenon DEF Unused
      <4>2. IsFiniteSet(Files)
        BY FS_Interval, FilesAssumption DEF Files
      <4> QED BY <4>1, <4>2, FS_Subset DEF Pipe
    <3>2. Unused # {} /\ Unused \ {r} # {}
      BY <3>1, Second, Zenon
    <3>3. r \in Unused
      BY <3>2, LowUnused, Zenon
    <3>4. Unused \ {r} \in SUBSET Unused
      BY Zenon
    <3>5. w \in Unused \ {r}
      BY <3>2, <3>4, LowUnused
    <3> QED BY <3>3, <3>5, Zenon
  <2>2. r \in Files /\ w \in Files /\ Cardinality(NamedBy(ofile, r)) = 0 /\ Cardinality(NamedBy(ofile, w)) = 0
    BY <2>1, UnusedNone, Zenon DEF IInv
  <2>3. FreeFds(ofile[p]) # {} /\ FreeFds(ofile[p]) \ {a} # {}
    <3>1. FreeFds(ofile[p]) \in SUBSET Fds
      BY Zenon DEF FreeFds
    <3>2. IsFiniteSet(FreeFds(ofile[p])) /\ Cardinality(FreeFds(ofile[p])) \in Nat
      BY <3>1, Finite, FS_Subset, FS_CardinalityType
    <3>3. Cardinality(FreeFds(ofile[p])) >= 2
      BY <3>2, <1>3
    <3> QED BY <3>2, <3>3, Second
  <2>4. a \in Fds /\ ofile[p][a] = None
    BY <2>3, FreeFd, Zenon DEF alloc_fd
  <2>5. file' = [file EXCEPT ![r] = new_file(None), ![w] = new_file(None)]
    BY <1>3, Zenon DEF Pipe
  <2>6. ofile' = [ofile EXCEPT ![p] = [t EXCEPT ![b] = w]]
    BY <1>3, Zenon DEF Pipe
  <2> HIDE DEF r, w, a
  <2>7. FreeFds(t) # {}
    <3>1. \A e \in FreeFds(ofile[p]) \ {a} : e \in FreeFds(t)
      BY <1>1, Zenon DEF FreeFds, Tables
    <3> QED BY <3>1, <2>3, Zenon
  <2>8. b \in Fds /\ t[b] = None
    BY <2>7, FreeFd, Zenon DEF alloc_fd
  <2>9. o[p] = t /\ ofile' = Put(o, p, b, w)
    BY <1>1, <2>6, Zenon DEF Put
  <2> HIDE DEF b, t
  <2>10. /\ DOMAIN file' = Files
         /\ \A f \in Files : file'[f] = IF f = r \/ f = w THEN new_file(None) ELSE file[f]
    BY <1>1, <2>2, <2>5
  <2> HIDE DEF o
  <2>11. o \in [Procs -> Tables]
    BY <1>1, <2>2, <2>4, SlotChange DEF o
  <2>12. ofile' \in [Procs -> Tables]
    BY <2>11, <2>8, <2>9, <2>2, SlotChange
  <2>13. ASSUME NEW f \in Files PROVE FileOK(file'[f], Cardinality(NamedBy(ofile', f)))
    <3>1. Cardinality(NamedBy(o, f)) = Cardinality(NamedBy(ofile, f)) - Is(ofile[p][a], f) + Is(r, f)
      BY <1>1, <2>2, <2>4, SlotChange DEF o
    <3>2. Cardinality(NamedBy(ofile', f)) = Cardinality(NamedBy(o, f)) - Is(o[p][b], f) + Is(w, f)
      BY <2>11, <2>8, <2>9, <2>2, SlotChange
    <3>3. Is(ofile[p][a], f) = 0 /\ Is(o[p][b], f) = 0
      BY <2>4, <2>8, <2>9, NoneIs
    <3>4. Cardinality(NamedBy(ofile, f)) \in Nat /\ Is(r, f) \in Nat /\ Is(w, f) \in Nat
      BY Finite, Zenon DEF Is
    <3>5. Cardinality(NamedBy(ofile', f)) = Cardinality(NamedBy(ofile, f)) + Is(r, f) + Is(w, f)
      BY <3>1, <3>2, <3>3, <3>4
    <3>6. CASE f = r \/ f = w
      <4>1. Cardinality(NamedBy(ofile, f)) = 0 /\ Is(r, f) + Is(w, f) = 1
        BY <3>6, <2>1, <2>2 DEF Is
      <4>2. Cardinality(NamedBy(ofile', f)) = 1
        BY <3>4, <3>5, <4>1
      <4> QED BY <4>2, <3>6, <2>10, NewOK
    <3>7. CASE f # r /\ f # w
      <4>1. Is(r, f) = 0 /\ Is(w, f) = 0
        BY <3>7, Zenon DEF Is
      <4>2. Cardinality(NamedBy(ofile', f)) = Cardinality(NamedBy(ofile, f))
        BY <3>4, <3>5, <4>1, SMTT(20)
      <4> QED BY <4>2, <3>7, <2>10 DEF IInv, Right
    <3> QED BY <3>6, <3>7, Zenon
  <2>14. Right(ofile, file)'
    BY <2>10, <2>13 DEF Right
  <2>15. \A q \in Procs : q # p => ofile'[q] = ofile[q]
    BY <1>1, <2>6
  <2> QED BY <2>12, <2>14, <2>15, IdleStep DEF Pipe
<1> QED BY <1>2, <1>3, Zenon

\* The open descriptors are the ones that count; an empty table counts nothing.
LEMMA OpenedCount ==
  ASSUME NEW p, NEW f \in Files
  PROVE  /\ Opened(p) \in SUBSET Fds
         /\ Count(ofile[p], Opened(p), f) = Count(ofile[p], Fds, f)
<1>1. {fd \in Opened(p) : ofile[p][fd] = f} = {fd \in Fds : ofile[p][fd] = f}
  BY FilesAssumption DEF Opened, Files, None
<1>2. Opened(p) \in SUBSET Fds
  BY Zenon DEF Opened
<1> QED BY <1>1, <1>2, Zenon DEF Count

\* A descriptor that names nothing adds to no count.
LEMMA NoCount ==
  ASSUME NEW t, NEW S, NEW f \in Files, \A fd \in S : t[fd] = None
  PROVE  Count(t, S, f) = 0
<1>1. {fd \in S : t[fd] = f} = {}
  BY FilesAssumption DEF Files, None
<1> QED BY <1>1, FS_EmptySet, Zenon DEF Count

\* fork: the child shares every open file of the parent.
LEMMA ForkStep ==
  ASSUME IInv, NEW p \in Procs, NEW q \in Procs, Fork(p, q)
  PROVE  IInv'
<1>1. ofile \in [Procs -> Tables] /\ DOMAIN file = Files /\ ofile[p] \in Tables
  BY Zenon DEF IInv, Right
<1>2. q \notin live /\ ofile[q] = Empty /\ live' = live \cup {q} /\ walk' = walk
  BY Zenon DEF IInv, Fork
<1>3. ofile' = [ofile EXCEPT ![q] = ofile[p]] /\ file' = file_dup(file, p, Opened(p))
  BY Zenon DEF Fork
<1>4. ASSUME NEW f \in Files
      PROVE  FileOK(file'[f], Cardinality(NamedBy(ofile, f)) - Count(ofile[q], Fds, f) + Count(ofile[p], Fds, f))
  <2>1. Opened(p) \in SUBSET Fds /\ Count(ofile[p], Opened(p), f) = Count(ofile[p], Fds, f)
    BY OpenedCount, Zenon
  <2>2. /\ Count(ofile[p], Opened(p), f) <= Cardinality(NamedBy(ofile, f))
        /\ Cardinality(NamedBy(ofile, f)) \in Nat /\ Count(ofile[p], Opened(p), f) \in Nat
    BY <1>1, <2>1, PartNamed, Finite, Zenon
  <2>3. FileOK(file'[f], Cardinality(NamedBy(ofile, f)) + Count(ofile[p], Opened(p), f))
    BY <1>1, <1>3, <2>1, <2>2, DupRight DEF IInv, Right
  <2>4. Count(ofile[q], Fds, f) = 0
    <3>1. \A fd \in Fds : ofile[q][fd] = None
      BY <1>2, Zenon DEF Empty
    <3> QED BY <3>1, NoCount, Zenon
  <2>5. Cardinality(NamedBy(ofile, f)) - Count(ofile[q], Fds, f) = Cardinality(NamedBy(ofile, f))
    BY <2>2, <2>4
  <2> QED BY <2>1, <2>3, <2>5
<1>5. DOMAIN file' = Files
  BY <1>3, Zenon DEF file_dup
<1>6. ofile' \in [Procs -> Tables] /\ Right(ofile, file)'
  BY <1>1, <1>3, <1>4, <1>5, TableStep, Zenon
<1>7. \A e \in Procs : e # q => ofile'[e] = ofile[e]
  BY <1>1, <1>3, Zenon
<1> QED BY <1>2, <1>6, <1>7 DEF IInv

\* u is table t without the descriptors M.
Erased(t, u, M) == (\A fd \in M : u[fd] = None) /\ (\A fd \in Fds \ M : u[fd] = t[fd])

\* Without the descriptors M, a table counts less by what M counted.
LEMMA EraseCount ==
  ASSUME NEW t, NEW u, NEW M \in SUBSET Fds, NEW f \in Files, Erased(t, u, M)
  PROVE  Count(u, Fds, f) = Count(t, Fds, f) - Count(t, M, f)
<1>1. Count(u, M, f) = 0
  BY NoCount, Zenon DEF Erased
<1>2. Count(u, Fds \ M, f) = Count(t, Fds \ M, f)
  BY SameCount DEF Erased
<1>3. /\ Count(t, Fds, f) = Count(t, M, f) + Count(t, Fds \ M, f)
      /\ Count(u, Fds, f) = Count(u, M, f) + Count(u, Fds \ M, f)
  BY PartCount
<1>4. Count(t, M, f) \in Nat /\ Count(t, Fds \ M, f) \in Nat
  BY CountType, Zenon
<1> QED BY <1>1, <1>2, <1>3, <1>4

\* execve and exit: the descriptors M of p are freed and emptied.
LEMMA EraseStep ==
  ASSUME IInv, NEW p \in Procs, NEW M \in SUBSET Fds, NEW t \in Tables,
         Erased(ofile[p], t, M), ofile' = [ofile EXCEPT ![p] = t], file' = free_file(file, p, M)
  PROVE  ofile' \in [Procs -> Tables] /\ Right(ofile, file)'
<1>1. ofile \in [Procs -> Tables] /\ DOMAIN file = Files
  BY Zenon DEF IInv, Right
<1>2. ASSUME NEW f \in Files
      PROVE  FileOK(file'[f], Cardinality(NamedBy(ofile, f)) - Count(ofile[p], Fds, f) + Count(t, Fds, f))
  <2>1. /\ Count(ofile[p], M, f) <= Cardinality(NamedBy(ofile, f))
        /\ Cardinality(NamedBy(ofile, f)) \in Nat /\ Count(ofile[p], M, f) \in Nat
    BY <1>1, PartNamed, Finite, SMTT(20)
  <2>2. FileOK(file'[f], Cardinality(NamedBy(ofile, f)) - Count(ofile[p], M, f))
    BY <1>1, <2>1, FreeRight DEF IInv, Right
  <2>3. Count(t, Fds, f) = Count(ofile[p], Fds, f) - Count(ofile[p], M, f)
    BY EraseCount, Zenon
  <2>4. Count(ofile[p], Fds, f) \in Nat
    BY CountType, Zenon
  <2>5. Cardinality(NamedBy(ofile, f)) - Count(ofile[p], Fds, f) + Count(t, Fds, f)
          = Cardinality(NamedBy(ofile, f)) - Count(ofile[p], M, f)
    BY <2>1, <2>3, <2>4
  <2> QED BY <2>2, <2>5, Zenon
<1>3. DOMAIN file' = Files
  BY Zenon DEF free_file
<1> QED BY <1>1, <1>2, <1>3, TableStep, Zenon

\* execve, which closes the marked descriptors, preserves the invariant.
LEMMA ExecveStep ==
  ASSUME IInv, NEW p \in Procs, Execve(p)
  PROVE  IInv'
<1> DEFINE M == Marked(p)
           t == [fd \in Fds |-> IF fd \in M THEN None ELSE ofile[p][fd]]
<1>1. ofile \in [Procs -> Tables] /\ M \in SUBSET Fds
  BY Zenon DEF IInv, Marked, Opened
<1>2. ofile' = [ofile EXCEPT ![p] = t] /\ file' = free_file(file, p, M)
  BY <1>1, Zenon DEF Execve
<1> HIDE DEF M
<1>3. t \in Tables
  BY <1>1, Zenon DEF Tables
<1>4. Erased(ofile[p], t, M)
  BY <1>1, Zenon DEF Erased
<1> HIDE DEF t
<1>5. ofile' \in [Procs -> Tables] /\ Right(ofile, file)'
  BY <1>1, <1>2, <1>3, <1>4, EraseStep, Zenon
<1>6. \A q \in Procs : q # p => ofile'[q] = ofile[q]
  BY <1>1, <1>2, Zenon
<1> QED BY <1>5, <1>6, IdleStep, Zenon DEF Execve

\* exit_proc, which closes all descriptors, preserves the invariant.
LEMMA ExitStep ==
  ASSUME IInv, NEW p \in Procs, Exit(p)
  PROVE  IInv'
<1>1. ofile \in [Procs -> Tables] /\ Opened(p) \in SUBSET Fds
  BY Zenon DEF IInv, Opened
<1>2. ofile' = [ofile EXCEPT ![p] = Empty] /\ file' = free_file(file, p, Opened(p))
  BY Zenon DEF Exit
<1>3. Empty \in Tables
  BY Zenon DEF Tables, Empty
<1>4. Erased(ofile[p], Empty, Opened(p))
  BY Zenon DEF Erased, Opened, Empty
<1>5. ofile' \in [Procs -> Tables] /\ Right(ofile, file)'
  BY <1>1, <1>2, <1>3, <1>4, EraseStep, Zenon
<1>6. ofile'[p] = Empty /\ \A q \in Procs : q # p => ofile'[q] = ofile[q]
  BY <1>1, <1>2, Zenon
<1>7. live' = live \ {p} /\ walk' = walk /\ walk[p] = NoWalk
  BY Zenon DEF Exit, Idle
<1> QED BY <1>5, <1>6, <1>7 DEF IInv

----------------------------------------------------------------------------
\* At the start one descriptor of First names the first file object.
LEMMA InitRight == Init => IInv
<1> SUFFICES ASSUME Init PROVE IInv
  BY Zenon
<1> DEFINE t == [Empty EXCEPT ![0] = 1]
           o == [q \in Procs |-> Empty]
<1>1. 0 \in Fds /\ 1 \in Files /\ First \in Procs
  BY FilesAssumption DEF Fds, Files
<1>2. Empty \in Tables /\ t \in Tables
  BY <1>1, Zenon DEF Empty, Tables
<1>3. ofile = Put(o, First, 0, 1) /\ o \in [Procs -> Tables]
  BY <1>1, <1>2, Zenon DEF Init, Put
<1>4. ASSUME NEW f \in Files PROVE FileOK(file[f], Cardinality(NamedBy(ofile, f)))
  <2>1. NamedBy(o, f) = {}
    BY FilesAssumption DEF NamedBy, Empty, Files, None
  <2>2. Cardinality(NamedBy(o, f)) = 0
    BY <2>1, FS_EmptySet
  <2>3. o[First][0] = None
    BY <1>1, Zenon DEF Empty
  <2> HIDE DEF o
  <2>4. Cardinality(NamedBy(ofile, f)) = Cardinality(NamedBy(o, f)) - Is(o[First][0], f) + Is(1, f)
    BY <1>1, <1>3, SlotChange
  <2>5. Is(o[First][0], f) = 0 /\ Is(1, f) \in Nat
    BY <2>3, NoneIs, Zenon DEF Is
  <2>6. Cardinality(NamedBy(ofile, f)) = Is(1, f)
    BY <2>2, <2>4, <2>5
  <2>7. CASE f = 1
    BY <2>6, <2>7, Zenon DEF Init, Is, FileOK, NoFile
  <2>8. CASE f # 1
    BY <2>6, <2>8 DEF Init, Is, FileOK, NoFile
  <2> QED BY <2>7, <2>8
<1>5. Right(ofile, file)
  BY <1>4, Zenon DEF Right, Init
<1>6. ofile \in [Procs -> Tables]
  BY <1>1, <1>3, SlotChange
<1> QED BY <1>1, <1>5, <1>6, Zenon DEF IInv, Init

\* The inductive invariant holds throughout: every count is right, and only a
\* live process has files open.
THEOREM Invariance == Spec => []IInv
<1>1. IInv /\ [Next]_vars => IInv'
  <2> SUFFICES ASSUME IInv, [Next]_vars PROVE IInv'
    BY Zenon
  <2>1. CASE UNCHANGED vars
    BY <2>1, Zenon DEF vars, IInv, Right
  <2>2. CASE Next
    <3>1. PICK p \in Procs :
            \/ \E n \in load.targets, for \in {"open", "stat", "chdir"} : PathSearch(p, for, n)
            \/ EntrySearch(p) \/ FoundOnDisk(p) \/ Open(p) \/ Fstatat(p) \/ Chdir(p)
            \/ \E fd \in Fds : Close(p, fd) \/ Dup(p, fd) \/ SetCloexec(p, fd)
            \/ \E old, fd \in Fds : Dup2(p, old, fd)
            \/ \E fd, arg \in Fds, c \in {0, 1} : Fcntl(p, fd, arg, c)
            \/ Pipe(p) \/ Execve(p) \/ Exit(p)
            \/ \E q \in Procs : Fork(p, q)
      BY <2>2, Zenon DEF Next
    <3>2. CASE \/ \E n \in load.targets, for \in {"open", "stat", "chdir"} : PathSearch(p, for, n)
               \/ EntrySearch(p) \/ FoundOnDisk(p) \/ Fstatat(p) \/ Chdir(p)
      BY <3>2, WalkStep
    <3>3. CASE Open(p)
      BY <3>3, OpenStep
    <3>4. CASE \E fd \in Fds : Close(p, fd) \/ Dup(p, fd) \/ SetCloexec(p, fd)
      BY <3>4, CloseStep, DupStep, SetCloexecStep
    <3>5. CASE \E old, fd \in Fds : Dup2(p, old, fd)
      BY <3>5, Dup2Step
    <3>6. CASE \E fd, arg \in Fds, c \in {0, 1} : Fcntl(p, fd, arg, c)
      BY <3>6, FcntlStep
    <3>7. CASE Pipe(p) \/ Execve(p) \/ Exit(p)
      BY <3>7, PipeStep, ExecveStep, ExitStep
    <3>8. CASE \E q \in Procs : Fork(p, q)
      BY <3>8, ForkStep
    <3> QED BY <3>1, <3>2, <3>3, <3>4, <3>5, <3>6, <3>7, <3>8, Zenon
  <2> QED BY <2>1, <2>2, Zenon
<1> QED BY <1>1, InitRight, PTL DEF Spec

\* The count of a file object is the number of descriptors that name it, for
\* any interleaving of open, close, dup, dup2, fcntl, pipe, fork, execve and
\* exit: no object is deleted while a descriptor names it.
THEOREM AlwaysFileRefs == Spec => []FileRefs
<1>1. IInv => FileRefs
  <2> SUFFICES ASSUME IInv, NEW f \in Files, Users(f) # {}
               PROVE  file[f].refcnt = Cardinality(Users(f))
    BY Zenon DEF FileRefs
  <2>1. Users(f) = NamedBy(ofile, f)
    BY Zenon DEF Users, NamedBy
  <2>2. Cardinality(NamedBy(ofile, f)) # 0
    BY <2>1, Finite, FS_EmptySet, Zenon
  <2> QED BY <2>1, <2>2 DEF IInv, Right, FileOK
<1> QED BY <1>1, Invariance, PTL

=============================================================================
