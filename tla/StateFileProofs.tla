--------------------------- MODULE StateFileProofs ---------------------------
(***************************************************************************)
(* The lock of .make.state is exclusive, only its owner removes it, and    *)
(* nobody reads half a file, for any number of makes, whatever writes      *)
(* fail: proofs for StateFile.                                             *)
(***************************************************************************)
EXTENDS StateFile, FiniteSetTheorems, TLAPS

-----------------------------------------------------------------------------
(* Types                                                                   *)

\* One more element makes a finite set larger by one at most.
LEMMA OneMore ==
  ASSUME NEW S, NEW x, NEW n \in Nat, IsFiniteSet(S), Cardinality(S) <= n
  PROVE  IsFiniteSet(S \cup {x}) /\ Cardinality(S \cup {x}) <= n + 1
<1>1. Cardinality(S) \in Nat
  BY FS_CardinalityType
<1>. QED  BY <1>1, FS_AddElement

\* There are more i-nodes than the makes and the two names can use.
LEMMA UnusedInode ==
  ASSUME TypeOK
  PROVE  \E j \in Inode : j \notin Used
<1>. DEFINE Fds == {fd[p] : p \in Proc}
            Sizes == {sized[p] : p \in Proc}
            n == Cardinality(Proc)
<1>1. fd \in Surjection(Proc, Fds) /\ sized \in Surjection(Proc, Sizes)
  BY DEF TypeOK, Surjection
<1>. HIDE DEF Fds, Sizes
<1>2. n \in Nat
  BY FS_CardinalityType, FilesAssumption
<1>3. /\ IsFiniteSet(Fds) /\ Cardinality(Fds) <= n
      /\ IsFiniteSet(Sizes) /\ Cardinality(Sizes) <= n
  BY <1>1, FS_Surjection, FilesAssumption
<1>. HIDE DEF n
<1>. DEFINE Kept == Fds \cup Sizes
<1>4. IsFiniteSet(Kept) /\ Cardinality(Kept) <= n + n
  <2>1. IsFiniteSet(Kept)
        /\ Cardinality(Kept) = Cardinality(Fds) + Cardinality(Sizes)
                                   - Cardinality(Fds \cap Sizes)
    BY <1>3, FS_Union
  <2>2. Cardinality(Fds \cap Sizes) \in Nat
    BY <1>3, FS_Intersection, FS_CardinalityType
  <2>3. Cardinality(Fds) \in Nat /\ Cardinality(Sizes) \in Nat
    BY <1>3, FS_CardinalityType
  <2>. QED  BY <1>2, <1>3, <2>1, <2>2, <2>3
<1>. HIDE DEF Kept
<1>. DEFINE More == Kept \cup {tmp}
<1>a. n + n \in Nat /\ n + n + 1 \in Nat
  BY <1>2
<1>5. IsFiniteSet(More) /\ Cardinality(More) <= n + n + 1
  BY <1>a, <1>4, OneMore
<1>. HIDE DEF More
<1>6. /\ IsFiniteSet(More \cup {make_state})
      /\ Cardinality(More \cup {make_state}) <= n + n + 1 + 1
  BY <1>a, <1>5, OneMore
<1>7. Used = More \cup {make_state}
  BY DEF Used, More, Kept, Fds, Sizes
<1>8. ASSUME Inode \subseteq Used PROVE FALSE
  <2>1. Cardinality(Inode) <= Cardinality(Used)
    BY <1>6, <1>7, <1>8, FS_Subset
  <2>2. Cardinality(Inode) \in Nat /\ Cardinality(Used) \in Nat
    BY <1>6, <1>7, FS_CardinalityType, FilesAssumption
  <2>3. Cardinality(Inode) >= n + n + 3
    BY <1>2, FilesAssumption DEF n
  <2>. QED  BY <1>2, <2>1, <2>2, <2>3, <1>6, <1>7
<1>. QED  BY <1>8

\* What a make that opens .make.state.tmp finds or makes.
LEMMA TmpInode ==
  ASSUME TypeOK
  PROVE  LET i == IF tmp = None THEN CHOOSE j \in Inode : j \notin Used ELSE tmp
         IN  i \in Inode /\ (tmp = None => i \notin Used)
BY UnusedInode DEF TypeOK

LEMMA InitType == Init => TypeOK
<1>1. Inode /= {}
  BY FS_EmptySet, FS_CardinalityType, FilesAssumption
<1>2. (CHOOSE i \in Inode : TRUE) \in Inode
  BY <1>1
<1>. QED  BY <1>2, FilesAssumption DEF Init, TypeOK, Reading, Writing

\* Where a make may go on is a place in the program.
LEMMA ReturnType ==
  ASSUME NEW p \in Proc, TypeOK
  PROVE  /\ Back(p) \in {"build", "cleanup", "gone"}
         /\ Exit(p) => pc' \in [Proc -> Reading \cup Writing \cup
                                 {"unlock", "forget", "build", "cleanup", "gone"}]
BY DEF TypeOK, Back, Exit, GoTo, Reading, Writing

LEMMA StepType ==
  ASSUME NEW p \in Proc, TypeOK, UNCHANGED faults,
         Step(p) \/ RunCommand(p) \/ Visit(p) \/ ReadOther(p) \/ Interrupt(p) \/ Crash(p)
  PROVE  TypeOK'
<1>. USE DEF TypeOK, files, flags, GoTo, Reading, Writing
<1>1. CASE LockForRead(p)
  <2>1. pc' \in [Proc -> Reading \cup Writing
                         \cup {"unlock", "forget", "build", "cleanup", "gone"}]
    BY <1>1, ReturnType DEF LockForRead, GotLock, Return
  <2>2. lock' \in Proc \cup {None}
    BY <1>1 DEF LockForRead, GotLock
  <2>3. named' \in [Proc -> BOOLEAN] /\ locked' \in [Proc -> BOOLEAN]
    BY <1>1 DEF LockForRead, GotLock, SetLocked
  <2>. QED  BY <1>1, <2>1, <2>2, <2>3 DEF LockForRead
<1>2. CASE Exists(p)
  BY <1>2 DEF Exists
<1>3. CASE Open(p)
  BY <1>3, ReturnType DEF Open, Return
<1>4. CASE Read(p)
  BY <1>4, ReturnType DEF Read
<1>5. CASE Unlock(p)
  BY <1>5, ReturnType DEF Unlock, Return, UnlinkLock
<1>6. CASE Forget(p)
  BY <1>6, ReturnType DEF Forget, Return, SetLocked
<1>7. CASE LockForWrite(p)
  <2>1. attempts' \in [Proc -> 0..(GiveUp + 1)]
    BY <1>7, FilesAssumption DEF LockForWrite
  <2>. QED  BY <1>7, <2>1, ReturnType DEF LockForWrite, GotLock, SetLocked
<1>8. CASE UnlinkTmp(p)
  BY <1>8 DEF UnlinkTmp
<1>9. CASE OpenTmp(p)
  <2>1. pc' \in [Proc -> Reading \cup Writing
                         \cup {"unlock", "forget", "build", "cleanup", "gone"}]
    BY <1>9, ReturnType DEF OpenTmp
  <2>2. lock' \in Proc \cup {None}
    BY <1>9 DEF OpenTmp, Release, UnlinkHeld, UnlinkLock
  <2>3. named' \in [Proc -> BOOLEAN] /\ locked' \in [Proc -> BOOLEAN]
    BY <1>9 DEF OpenTmp, Release, SetLocked
  <2>4. /\ tmp' \in Inode \cup {None}
        /\ fd' \in [Proc -> Inode \cup {None}]
        /\ content' \in [Inode -> {"part", "whole", "torn"}]
    <3>. DEFINE i == IF tmp = None THEN CHOOSE j \in Inode : j \notin Used ELSE tmp
    <3>1. i \in Inode
      BY TmpInode
    <3>. HIDE DEF i
    <3>2. \/ /\ tmp' = i
             /\ fd' = [fd EXCEPT ![p] = i]
             /\ content' = [content EXCEPT ![i] =
                              IF \E q \in Proc : fd[q] = i THEN "torn" ELSE "part"]
          \/ UNCHANGED <<tmp, content, fd>>
      BY <1>9 DEF OpenTmp, i
    <3>. QED  BY <3>1, <3>2
  <2>. QED  BY <1>9, <2>1, <2>2, <2>3, <2>4 DEF OpenTmp
<1>10. CASE Write(p)
  <2>1. fd' \in [Proc -> Inode \cup {None}] /\ content' \in [Inode -> {"part", "whole", "torn"}]
    BY <1>10 DEF Write
  <2>2. attempts' \in [Proc -> 0..(GiveUp + 1)]
    BY <1>10, FilesAssumption DEF Write, GivesUp
  <2>3. /\ pc' \in [Proc -> Reading \cup Writing
                         \cup {"unlock", "forget", "build", "cleanup", "gone"}]
        /\ lock' \in Proc \cup {None}
        /\ named' \in [Proc -> BOOLEAN] /\ locked' \in [Proc -> BOOLEAN]
    BY <1>10, ReturnType DEF Write, AfterWrite, Release, UnlinkHeld, UnlinkLock, SetLocked
  <2>. QED  BY <1>10, <2>1, <2>2, <2>3 DEF Write
<1>11. CASE UnlinkState(p)
  BY <1>11, ReturnType DEF UnlinkState, Release, UnlinkHeld, UnlinkLock, SetLocked
<1>12. CASE Rename(p)
  BY <1>12, ReturnType DEF Rename, Release, UnlinkHeld, UnlinkLock, SetLocked
<1>13. CASE Finish(p)
  BY <1>13, ReturnType DEF Finish
<1>14. CASE Cleanup(p)
  BY <1>14 DEF Cleanup, UnlinkHeld, UnlinkLock, Waits, SetLocked
<1>15. CASE RunCommand(p)
  BY <1>15 DEF RunCommand
<1>16. CASE Visit(p)
  <2>1. visits' \in [Proc -> 0..Visits]
    BY <1>16, FilesAssumption DEF Visit
  <2>. QED  BY <1>16, <2>1 DEF Visit, Waits
<1>17. CASE ReadOther(p)
  BY <1>17 DEF ReadOther, UnlinkLock, SetLocked
<1>18. CASE Interrupt(p)
  BY <1>18, ReturnType DEF Interrupt, UnlinkHeld, UnlinkLock, SetLocked, Waits
<1>19. CASE Crash(p)
  BY <1>19 DEF Crash
<1>. QED
  BY <1>1, <1>2, <1>3, <1>4, <1>5, <1>6, <1>7, <1>8, <1>9, <1>10, <1>11, <1>12, <1>13,
     <1>14, <1>15, <1>16, <1>17, <1>18, <1>19 DEF Step

LEMMA NextType == TypeOK /\ [Next]_vars => TypeOK'
<1>. SUFFICES ASSUME TypeOK, [Next]_vars PROVE TypeOK'
  OBVIOUS
<1>1. CASE UNCHANGED vars
  BY <1>1 DEF TypeOK, vars, files, flags
<1>2. CASE Over
  BY <1>2 DEF TypeOK, vars, files, flags, Over
<1>3. CASE Next /\ ~Over
  BY <1>3, StepType DEF Next
<1>. QED  BY <1>1, <1>2, <1>3

-----------------------------------------------------------------------------
(* The inductive invariant: whose the lock is, and what the files hold     *)

\* A make that locks the file is between file_lock() and unlink() of the lock.
Held == {"rexists", "ropen", "reading", "unlinktmp", "opentmp", "writing",
         "unlinkstate", "rename", "unlock"}

\* The lock file is that of a make which knows it holds the lock and uses it.
OwnerUsesLock ==
    lock /= None => /\ lock \in Proc \ NoExec
                    /\ pc[lock] \in Held /\ named[lock] /\ locked[lock]

\* A make that uses the state file made the lock; it does not take another's
\* lock for its own, and names none while it builds.
Owns(p) ==
    /\ pc[p] \in Held => lock = p
    /\ locked[p] => lock = p \/ pc[p] = "forget"
    /\ pc[p] \in {"build", "cleanup"} => ~named[p]

\* With -n a make has no lock and nothing to write.
OnlyReads(p) ==
    /\ ~named[p] /\ ~locked[p] /\ ~changed[p]
    /\ pc[p] \notin Writing \cup {"forget"}

LockInv ==
    /\ OwnerUsesLock
    /\ \A p \in Proc \ NoExec : Owns(p)
    /\ \A p \in NoExec : OnlyReads(p)

\* What the make that holds the lock finds in the directory; the file whose
\* size exists() has kept is the one that it opens and reads.
Replaces(p) ==
    /\ pc[p] = "ropen" => make_state /= None /\ sized[p] = make_state
    /\ pc[p] = "reading" => sized[p] = fd[p]
    /\ pc[p] \in {"unlinktmp", "opentmp"} => attempts[p] = 0
    /\ pc[p] = "opentmp" => tmp = None
    /\ pc[p] = "writing" => IF attempts[p] = 0
                              THEN tmp /= None /\ fd[p] = tmp /\ content[tmp] = "part"
                              ELSE fd[p] = None
    /\ pc[p] \in {"unlinkstate", "rename"} => tmp /= None /\ content[tmp] = "whole"

\* A make that reads has a file that was written to its end and is not
\* written again.
ReadsPublished(p) ==
    /\ pc[p] = "reading" => fd[p] \notin {None, tmp} /\ content[fd[p]] = "whole"
    /\ pc[p] \notin {"reading", "writing"} => fd[p] = None

FileInv ==
    /\ tmp /= None => tmp /= make_state
    /\ make_state /= None => content[make_state] = "whole"
    /\ \A p \in Proc \ NoExec : Replaces(p)
    /\ \A p \in Proc : ReadsPublished(p)

IInv == TypeOK /\ (Calm => LockInv /\ FileInv)

LEMMA InitInv == Init => IInv
<1>. SUFFICES ASSUME Init PROVE IInv
  OBVIOUS
<1>1. TypeOK
  BY InitType
<1>2. make_state /= None => make_state \in Inode
  BY <1>1 DEF TypeOK
<1>3. LockInv
  <2>1. \A p \in Proc : pc[p] \in {"rlock", "gone"} /\ (named[p] <=> p \notin NoExec)
    BY DEF Init
  <2>. QED  BY <2>1, FilesAssumption
            DEF Init, LockInv, OwnerUsesLock, Owns, OnlyReads, Held, Writing
<1>4. FileInv
  BY <1>2, FilesAssumption DEF Init, FileInv, Replaces, ReadsPublished
<1>. QED  BY <1>1, <1>3, <1>4 DEF IInv

\* A lock that is not free does not time out, its make uses it; a free one can
\* be made.
LEMMA NoTimeout ==
  ASSUME Calm, LockInv
  PROVE  ~NotLocked
BY DEF Calm, LockInv, OwnerUsesLock, NotLocked, TimedOut, Held

\* The steps of a make, and what they do to the lock.
LEMMA LockStep ==
  ASSUME NEW p \in Proc, TypeOK, Calm, LockInv, FileInv, UNCHANGED faults,
         Step(p) \/ RunCommand(p) \/ Visit(p) \/ ReadOther(p) \/ Interrupt(p) \/ Crash(p)
  PROVE  LockInv'
<1>. USE FilesAssumption DEF TypeOK, LockInv, OwnerUsesLock, Owns, OnlyReads, Held, Writing,
       files, flags, GoTo, At
<1>1. CASE LockForRead(p)
  BY <1>1, NoTimeout DEF LockForRead, GotLock, SetLocked, Free
<1>2. CASE Exists(p)
  BY <1>2 DEF Exists
<1>3. CASE Open(p)
  BY <1>3 DEF Open, FileInv, Replaces, Return, Back
<1>4. CASE Read(p)
  BY <1>4 DEF Read, FileInv, Replaces, Exit
<1>5. CASE Unlock(p)
  BY <1>5 DEF Unlock, UnlinkLock, Return, Back
<1>6. CASE Forget(p)
  BY <1>6 DEF Forget, Return, Back, SetLocked
<1>7. CASE LockForWrite(p)
  BY <1>7, NoTimeout DEF LockForWrite, GotLock, SetLocked, Free
<1>8. CASE UnlinkTmp(p)
  BY <1>8 DEF UnlinkTmp
<1>9. CASE OpenTmp(p)
  BY <1>9 DEF OpenTmp, Release, UnlinkHeld, UnlinkLock, SetLocked, Exit
<1>10. CASE Write(p)
  BY <1>10 DEF Write, AfterWrite, Release, UnlinkHeld, UnlinkLock, SetLocked, Exit, Calm
<1>11. CASE UnlinkState(p)
  BY <1>11 DEF UnlinkState, Release, UnlinkHeld, UnlinkLock, SetLocked, Exit
<1>12. CASE Rename(p)
  BY <1>12 DEF Rename, Release, UnlinkHeld, UnlinkLock, SetLocked, Exit
<1>13. CASE Finish(p)
  BY <1>13 DEF Finish, Exit
<1>14. CASE Cleanup(p)
  BY <1>14 DEF Cleanup, UnlinkHeld, UnlinkLock, SetLocked, Waits
<1>15. CASE RunCommand(p)
  BY <1>15 DEF RunCommand
<1>16. CASE Visit(p)
  BY <1>16 DEF Visit, Waits
<1>17. CASE ReadOther(p)
  BY <1>17 DEF ReadOther
<1>18. CASE Interrupt(p) \/ Crash(p)
  BY <1>18 DEF Interrupt, Crash, Calm
<1>. QED
  BY <1>1, <1>2, <1>3, <1>4, <1>5, <1>6, <1>7, <1>8, <1>9, <1>10, <1>11, <1>12, <1>13,
     <1>14, <1>15, <1>16, <1>17, <1>18 DEF Step

\* The steps of a make, and what they do to the files.
LEMMA FileStep ==
  ASSUME NEW p \in Proc, TypeOK, Calm, LockInv, FileInv, UNCHANGED faults,
         Step(p) \/ RunCommand(p) \/ Visit(p) \/ ReadOther(p) \/ Interrupt(p) \/ Crash(p)
  PROVE  FileInv'
<1>. USE FilesAssumption DEF TypeOK, FileInv, Replaces, ReadsPublished, Held, Writing, files,
       flags, GoTo, At
<1>0. /\ \A q \in Proc \ NoExec : pc[q] \in Held /\ pc[p] \in Held /\ p \notin NoExec => p = q
      /\ p \in NoExec => pc[p] \notin Writing \cup {"forget"}
  BY DEF LockInv, Owns, OnlyReads
<1>1. CASE LockForRead(p)
  BY <1>1, NoTimeout DEF LockForRead, GotLock, SetLocked, Free
<1>2. CASE Exists(p)
  BY <1>2 DEF Exists
<1>3. CASE Open(p)
  BY <1>3 DEF Open, Return, Back
<1>4. CASE Read(p)
  BY <1>4 DEF Read, Exit
<1>5. CASE Unlock(p)
  BY <1>5 DEF Unlock, UnlinkLock, Return, Back
<1>6. CASE Forget(p)
  BY <1>6 DEF Forget, Return, Back, SetLocked
<1>7. CASE LockForWrite(p)
  BY <1>7, NoTimeout DEF LockForWrite, GotLock, SetLocked, Free
<1>8. CASE UnlinkTmp(p)
  BY <1>0, <1>8 DEF UnlinkTmp
<1>9. CASE OpenTmp(p)
  <2>1. tmp = None /\ p \notin NoExec
    BY <1>0, <1>9 DEF OpenTmp
  <2>2. CASE UNCHANGED <<tmp, content, fd>> /\ Exit(p)
    BY <1>0, <1>9, <2>2 DEF OpenTmp, Exit
  <2>3. CASE \E i \in Inode :
                /\ i \notin Used
                /\ tmp' = i /\ fd' = [fd EXCEPT ![p] = i]
                /\ content' = [content EXCEPT ![i] =
                                 IF \E q \in Proc : fd[q] = i THEN "torn" ELSE "part"]
                /\ GoTo(p, "writing")
    <3>1. PICK i \in Inode :
                /\ i \notin Used
                /\ tmp' = i /\ fd' = [fd EXCEPT ![p] = i]
                /\ content' = [content EXCEPT ![i] =
                                 IF \E q \in Proc : fd[q] = i THEN "torn" ELSE "part"]
                /\ GoTo(p, "writing")
      BY <2>3
    <3>2. i /= make_state /\ \A q \in Proc : fd[q] /= i
      BY <3>1 DEF Used
    <3>3. content' = [content EXCEPT ![i] = "part"]
      BY <3>1, <3>2
    <3>4. UNCHANGED <<make_state, attempts>>
      BY <1>9 DEF OpenTmp
    <3>5. ASSUME NEW q \in Proc \ NoExec PROVE Replaces(q)'
      <4>1. CASE q = p
        BY <1>9, <2>1, <3>1, <3>3, <3>4, <4>1 DEF OpenTmp
      <4>2. CASE q /= p
        BY <1>0, <1>9, <2>1, <3>1, <3>4, <4>2 DEF OpenTmp
      <4>. QED  BY <4>1, <4>2
    <3>6. ASSUME NEW q \in Proc PROVE ReadsPublished(q)'
      <4>1. CASE q = p
        BY <3>1, <3>4, <4>1
      <4>2. CASE q /= p
        <5>1. pc'[q] = pc[q] /\ fd'[q] = fd[q] /\ fd[q] /= i
          BY <3>1, <3>2, <4>2
        <5>2. fd[q] \in Inode => content'[fd[q]] = content[fd[q]]
          BY <3>3, <5>1
        <5>3. ReadsPublished(q)
          OBVIOUS
        <5>. QED  BY <3>1, <5>1, <5>2, <5>3
      <4>. QED  BY <4>1, <4>2
    <3>. QED  BY <3>1, <3>2, <3>3, <3>4, <3>5, <3>6
  <2>. DEFINE i == CHOOSE j \in Inode : j \notin Used
  <2>4. i \in Inode /\ i \notin Used
    BY UnusedInode
  <2>5. \/ /\ tmp' = i /\ fd' = [fd EXCEPT ![p] = i]
           /\ content' = [content EXCEPT ![i] =
                            IF \E q \in Proc : fd[q] = i THEN "torn" ELSE "part"]
           /\ GoTo(p, "writing")
        \/ UNCHANGED <<tmp, content, fd>> /\ Exit(p)
    <3>. HIDE DEF TypeOK, FileInv, Replaces, ReadsPublished
    <3>. QED  BY <1>9, <2>1 DEF OpenTmp
  <2>. HIDE DEF i
  <2>. QED  BY <2>2, <2>3, <2>4, <2>5
<1>10. CASE Write(p)
  BY <1>0, <1>10 DEF Write, AfterWrite, Exit, Calm
<1>11. CASE UnlinkState(p)
  BY <1>0, <1>11 DEF UnlinkState, Exit
<1>12. CASE Rename(p)
  BY <1>0, <1>12 DEF Rename, Exit
<1>13. CASE Finish(p)
  BY <1>13 DEF Finish, Exit
<1>14. CASE Cleanup(p)
  BY <1>14 DEF Cleanup, UnlinkHeld, UnlinkLock, SetLocked, Waits
<1>15. CASE RunCommand(p)
  BY <1>15 DEF RunCommand
<1>16. CASE Visit(p)
  BY <1>16 DEF Visit
<1>17. CASE ReadOther(p)
  BY <1>17 DEF ReadOther
<1>18. CASE Interrupt(p) \/ Crash(p)
  BY <1>18 DEF Interrupt, Crash, Calm
<1>. QED
  BY <1>1, <1>2, <1>3, <1>4, <1>5, <1>6, <1>7, <1>8, <1>9, <1>10, <1>11, <1>12, <1>13,
     <1>14, <1>15, <1>16, <1>17, <1>18 DEF Step

LEMMA NextInv == IInv /\ [Next]_vars => IInv'
<1>. SUFFICES ASSUME IInv, [Next]_vars PROVE IInv'
  OBVIOUS
<1>1. TypeOK'
  BY NextType DEF IInv
<1>2. CASE UNCHANGED vars
  <2>1. ASSUME Calm' PROVE LockInv' /\ FileInv'
    BY <1>2, <2>1 DEF IInv, Calm, LockInv, OwnerUsesLock, Owns, OnlyReads, FileInv, Replaces,
                      ReadsPublished, vars, files, flags
  <2>. QED  BY <1>1, <2>1 DEF IInv
<1>3. CASE Next /\ ~Over
  <2>1. ASSUME Calm' PROVE LockInv' /\ FileInv'
    <3>1. UNCHANGED faults /\ Calm
      BY <1>3, <2>1 DEF Next, Calm
    <3>. QED  BY <1>3, <3>1, LockStep, FileStep DEF IInv, Next
  <2>. QED  BY <1>1, <2>1 DEF IInv
<1>. QED  BY <1>2, <1>3 DEF Next, Over

\* The lock has one owner at most, and what is read or renamed is whole, in
\* every reachable state of a family that is Calm.
THEOREM Invariant == Spec => []IInv
<1>. QED  BY InitInv, NextInv, PTL DEF Spec

-----------------------------------------------------------------------------
(* What the lock promises                                                  *)

\* No two makes use the state file at the same time, however many there are
\* (file_lock(), write_state_file() and read_simple_file()).
THEOREM LockIsExclusive == Spec => []Exclusive
<1>1. IInv => Exclusive
  BY DEF IInv, Exclusive, LockInv, Owns, OwnerUsesLock, Uses, Held, Reading, Writing
<1>. QED  BY <1>1, Invariant, PTL

\* Nobody reads a file that another make has not finished, locked or not
\* (write_state_file() renames it only after fclose()); and with the lock the
\* size that exists() took is that of the file that is read (read.cc 338-354).
THEOREM WholeFilesAreRead == Spec => []ReadsWhole
<1>1. IInv => ReadsWhole
  BY DEF IInv, ReadsWhole, FileInv, Replaces, ReadsPublished, At
<1>. QED  BY <1>1, Invariant, PTL

\* A step of a make that has not the lock leaves the lock alone.
LEMMA OwnerRemoves ==
  ASSUME NEW p \in Proc, NEW q \in Proc, TypeOK, Calm, LockInv, lock = q, lock' /= q,
         Step(p) \/ RunCommand(p) \/ Visit(p) \/ ReadOther(p) \/ Interrupt(p) \/ Crash(p)
  PROVE  pc'[q] /= pc[q] \/ named'[q] /= named[q]
<1>. USE FilesAssumption DEF TypeOK, files, GoTo, At
<1>1. lock /= None
  BY DEF TypeOK
<1>2. q \notin NoExec /\ pc[q] \in Held
  BY <1>1 DEF LockInv, OwnerUsesLock
<1>3. p \notin NoExec /\ pc[p] \in Held => p = q
  BY DEF LockInv, Owns
<1>4. locked[p] /\ pc[p] /= "forget" => p = q
  BY DEF LockInv, Owns, OnlyReads
<1>5. ~Interrupt(p) /\ ~Crash(p)
  BY DEF Calm, Interrupt, Crash
<1>6. ~ReadOther(p)
  BY DEF ReadOther, LockInv, Owns, OnlyReads
<1>7. CASE Unlock(p)
  BY <1>4, <1>7 DEF Unlock
<1>8. UnlinkHeld(p) /\ pc[p] /= "forget" => p = q
  BY <1>4 DEF UnlinkHeld
<1>9. Exit(p) => pc'[p] \in {"gone", "cleanup"}
  BY DEF Exit
<1>10. CASE OpenTmp(p) \/ Write(p) \/ UnlinkState(p) \/ Rename(p)
  <2>1. Release(p) /\ Exit(p) /\ pc[p] \in Writing
    BY <1>10 DEF OpenTmp, Write, UnlinkState, Rename, flags, Writing
  <2>2. p = q
    BY <1>8, <2>1 DEF Release, Writing
  <2>. QED  BY <1>9, <2>1, <2>2 DEF Writing
<1>11. CASE Cleanup(p)
  <2>1. p = q
    BY <1>8, <1>11 DEF Cleanup
  <2>. QED  BY <1>11, <2>1 DEF Cleanup
<1>12. CASE LockForRead(p) \/ LockForWrite(p)
  BY <1>1, <1>12 DEF LockForRead, LockForWrite, GotLock, Free
<1>. QED
  BY <1>5, <1>6, <1>7, <1>10, <1>11, <1>12
     DEF Step, RunCommand, Visit, Exists, Open, Read, Forget, UnlinkTmp, Finish

\* The lock file is removed by a step of the make that made it.
THEOREM OwnersRemoveLocks == Spec => OwnLockOnly
<1>1. ASSUME IInv, [Next]_vars, Calm, NEW q \in Proc, lock = q, lock' /= q
      PROVE  pc'[q] /= pc[q] \/ named'[q] /= named[q]
  <2>1. Next /\ ~Over
    BY <1>1 DEF Next, Over, vars, files
  <2>. QED  BY <1>1, <2>1, OwnerRemoves DEF IInv, Next
<1>2. IInv /\ [Next]_vars =>
        [Calm => \A p \in Proc : lock = p /\ lock' /= p =>
                   pc'[p] /= pc[p] \/ named'[p] /= named[p]]_vars
  BY <1>1
<1>. QED  BY <1>2, Invariant, PTL DEF Spec, OwnLockOnly
=============================================================================
