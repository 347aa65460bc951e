----------------------------- MODULE StateFile -----------------------------
(***************************************************************************)
(* Several makes share one .make.state: read_simple_file() reads it,       *)
(* write_state_file() replaces it, both under the lock file                *)
(* .make.state.lock that file_lock() makes with symlink().  A make reads   *)
(* the file when it starts and when a recursive make may have changed it,  *)
(* writes it before a recursive make and, from the exit handler, when it   *)
(* ends.  Every step is one system call on the shared directory, or what   *)
(* a make does between two of them.                                        *)
(***************************************************************************)
EXTENDS Naturals, FiniteSets

CONSTANTS
    Proc,       \* the makes of one directory
    Inode,      \* files .make.state and .make.state.tmp may name
    None,       \* no file, no owner
    NoExec,     \* makes with -n: they read without the lock and never write
    Families,   \* [makes, faults]: which makes there are, and what may go wrong
    Visits,     \* how often a make reads or writes the file before it ends
    GiveUp      \* 5: writes that may fail before write_state_file() gives up

\* Making the lock fails, or writing, or opening a file in /tmp, or replacing
\* the file; make is interrupted or killed, or holds the lock for minutes; the compiler
\* keeps `attempts' in a register that longjmp() restores.
Fault == {"symlink", "write", "mkstemp", "rename", "interrupt", "crash", "slow", "register"}

ASSUME FilesAssumption ==
    /\ None \notin Proc \cup Inode
    /\ NoExec \subseteq Proc
    /\ IsFiniteSet(Proc) /\ IsFiniteSet(Inode)
    /\ Cardinality(Inode) >= 2 * Cardinality(Proc) + 3
    /\ Families \subseteq [makes : SUBSET Proc, faults : SUBSET Fault]
    /\ Visits \in Nat /\ GiveUp \in Nat

VARIABLES
    lock,       \* who made .make.state.lock
    make_state, \* the file .make.state names
    tmp,        \* the file .make.state.tmp names
    content,    \* of each file: "part", "whole" or "torn" (by two writers)
    pc,         \* where each make is
    mode,       \* "run", "handler" (of an interrupt) or "exit" (handler)
    named,      \* make_state_lockfile is not NULL
    locked,     \* make_state_locked
    fd,         \* the file open in write_state_file() or for reading
    sized,      \* the file of which exists() has kept the size
    attempts,   \* its local: failed writes
    changed,    \* rewrite_statefile and command_changed
    visits,     \* reads and writes left
    hit,        \* the make was interrupted
    faults      \* what may go wrong in this family of makes, a subset of Fault

files == <<lock, make_state, tmp, content>>
flags == <<named, locked>>
vars == <<files, pc, mode, flags, fd, sized, attempts, changed, visits, hit, faults>>

Reading == {"rlock", "rexists", "ropen", "reading"}
Writing == {"wlock", "unlinktmp", "opentmp", "writing", "unlinkstate", "rename"}

Init ==
    /\ lock = None /\ tmp = None
    /\ make_state \in {None, CHOOSE i \in Inode : TRUE}
    /\ content = [i \in Inode |-> "whole"]
    /\ \E family \in Families :
         /\ faults = family.faults
         /\ pc = [p \in Proc |-> IF p \in family.makes THEN "rlock" ELSE "gone"]
    /\ mode = [p \in Proc |-> "run"]
    /\ named = [p \in Proc |-> p \notin NoExec] /\ locked = [p \in Proc |-> FALSE]
    /\ fd = [p \in Proc |-> None] /\ sized = [p \in Proc |-> None]
    /\ attempts = [p \in Proc |-> 0]
    /\ changed = [p \in Proc |-> FALSE]
    /\ visits = [p \in Proc |-> Visits]
    /\ hit = [p \in Proc |-> FALSE]
-----------------------------------------------------------------------------
(* Steps of the program of one make *)

At(p, s)  == pc[p] = s
GoTo(p, s) == pc' = [pc EXCEPT ![p] = s]

\* Where the make goes on after it read or wrote the file: the handler of an
\* interrupt calls exit(), the exit handler is done.
Back(p) == CASE mode[p] = "run"     -> "build"
             [] mode[p] = "handler" -> "cleanup"
             [] mode[p] = "exit"    -> "gone"

Return(p) == GoTo(p, Back(p))

\* exit(): the exit handler runs once.
Exit(p) == GoTo(p, IF mode[p] = "exit" THEN "gone" ELSE "cleanup")

\* unlink(make_state_lockfile): whoever made the lock.
UnlinkLock == lock' = None

SetLocked(p, b) == /\ named' = [named EXCEPT ![p] = b]
                   /\ locked' = [locked EXCEPT ![p] = b]

\* Wrong: the lock is removed without asking whose it is.
UnlinkHeldAnyway(p) == UnlinkLock

\* The lock is removed when this make holds it.
UnlinkHeld(p) == IF named[p] /\ locked[p] THEN UnlinkLock ELSE UNCHANGED lock

\* It is removed and forgotten.
Release(p) == UnlinkHeld(p) /\ SetLocked(p, FALSE)
-----------------------------------------------------------------------------
(* file_lock() *)

\* Wrong: the lock file is made although there is one.
FreeAlways == TRUE

\* symlink() succeeds.
Free == lock = None

\* Wrong: file_lock() waits for ever.
NeverTimedOut == FALSE

\* After two minutes; a lock is not held that long unless its make is gone or
\* very slow, or has the lock and does not know it.
TimedOut ==
    /\ lock /= None
    /\ "slow" \in faults \/ pc[lock] \in {"build", "gone", "rlock", "wlock"}

\* file_lock() returns an error.
NotLocked == TimedOut \/ (Free /\ "symlink" \in faults)

GotLock(p, next) ==
    /\ Free
    /\ lock' = p
    /\ SetLocked(p, TRUE)
    /\ GoTo(p, next)

LockForRead(p) ==
    /\ At(p, "rlock")
    /\ \/ p \in NoExec /\ GoTo(p, "rexists") /\ UNCHANGED <<lock, flags>>
       \/ p \notin NoExec /\ GotLock(p, "rexists")
       \/ \* "-- NO LOCKING for read"
          /\ p \notin NoExec /\ NotLocked
          /\ SetLocked(p, FALSE)
          /\ Return(p)
          /\ UNCHANGED lock
    /\ UNCHANGED <<make_state, tmp, content, mode, fd, sized, attempts, changed,
                   visits, hit>>

\* The exit handler writes the file even when it cannot lock it, if it can
\* open another one in /tmp.
LockForWrite(p) ==
    /\ At(p, "wlock")
    /\ \/ GotLock(p, "unlinktmp")
       \/ /\ NotLocked
          /\ SetLocked(p, FALSE)
          /\ \/ mode[p] = "exit" /\ GoTo(p, "unlinktmp")
             \/ (mode[p] /= "exit" \/ "mkstemp" \in faults) /\ Exit(p)
          /\ UNCHANGED lock
    /\ attempts' = [attempts EXCEPT ![p] = 0]
    /\ UNCHANGED <<make_state, tmp, content, mode, fd, sized, changed, visits, hit>>

\* file_lock() starts: it has no lock yet, whatever the make had before.
Waits(p) == /\ named' = [named EXCEPT ![p] = p \notin NoExec]
            /\ locked' = [locked EXCEPT ![p] = FALSE]
-----------------------------------------------------------------------------
(* Reading .make.state *)

\* exists() keeps the size of the file that is there now.
Exists(p) ==
    /\ At(p, "rexists")
    /\ GoTo(p, IF make_state = None THEN "unlock" ELSE "ropen")
    /\ sized' = [sized EXCEPT ![p] = make_state]
    /\ UNCHANGED <<files, mode, flags, fd, attempts, changed, visits, hit>>

\* The file of that name may be another one now; when there is none,
\* read_simple_file() fails and keeps the lock.
Open(p) ==
    /\ At(p, "ropen")
    /\ IF make_state = None
         THEN Return(p) /\ sized' = [sized EXCEPT ![p] = None] /\ UNCHANGED fd
         ELSE GoTo(p, "reading") /\ fd' = [fd EXCEPT ![p] = make_state] /\ UNCHANGED sized
    /\ UNCHANGED <<files, mode, flags, attempts, changed, visits, hit>>

\* read() is asked for as many bytes as exists() saw.  Another file may be
\* longer, then its end is not read, or shorter, "Premature EOF" or an error
\* that is fatal.  get_next_block_fn() closes the file, then the lock goes.
Read(p) ==
    /\ At(p, "reading")
    /\ \/ GoTo(p, "unlock")
       \/ sized[p] /= fd[p] /\ Exit(p)
    /\ fd' = [fd EXCEPT ![p] = None] /\ sized' = [sized EXCEPT ![p] = None]
    /\ UNCHANGED <<files, mode, flags, attempts, changed, visits, hit>>

\* The lock file is removed in one step, and forgotten in the next.
Unlock(p) ==
    /\ At(p, "unlock")
    /\ IF named[p] /\ locked[p] THEN UnlinkLock /\ GoTo(p, "forget")
                                ELSE Return(p) /\ UNCHANGED lock
    /\ UNCHANGED <<make_state, tmp, content, mode, flags, fd, sized, attempts,
                   changed, visits, hit>>

Forget(p) ==
    /\ At(p, "forget")
    /\ SetLocked(p, FALSE)
    /\ Return(p)
    /\ UNCHANGED <<files, mode, fd, sized, attempts, changed, visits, hit>>
-----------------------------------------------------------------------------
(* write_state_file() *)

\* Wrong: the old .make.state is deleted before the new one is written.
UnlinkTmpAndState(p) ==
    /\ At(p, "unlinktmp")
    /\ tmp' = None /\ make_state' = None
    /\ GoTo(p, "opentmp")
    /\ UNCHANGED <<lock, content, mode, flags, fd, sized, attempts, changed, visits, hit>>

UnlinkTmp(p) ==
    /\ At(p, "unlinktmp")
    /\ tmp' = None
    /\ GoTo(p, "opentmp")
    /\ UNCHANGED <<lock, make_state, content, mode, flags, fd, sized, attempts,
                   changed, visits, hit>>

Used == {make_state, tmp} \cup {fd[p] : p \in Proc} \cup {sized[p] : p \in Proc}

\* fopen(make_state_tempfile, "w") makes a file, or empties the one that is
\* there, which another make may just write.
OpenTmp(p) ==
    /\ At(p, "opentmp")
    /\ \/ LET i == IF tmp = None THEN CHOOSE j \in Inode : j \notin Used ELSE tmp
          IN /\ tmp' = i
             /\ fd' = [fd EXCEPT ![p] = i]
             /\ content' = [content EXCEPT ![i] =
                              IF \E q \in Proc : fd[q] = i THEN "torn" ELSE "part"]
             /\ GoTo(p, "writing")
             /\ UNCHANGED <<lock, flags>>
       \/ /\ "write" \in faults
          /\ Release(p) /\ Exit(p)
          /\ UNCHANGED <<tmp, content, fd>>
    /\ UNCHANGED <<make_state, mode, sized, attempts, changed, visits, hit>>

\* Wrong: the file is published although its first write failed.
AfterWriteAlways(p) == "unlinkstate"

\* Only the file .make.state.tmp is published, not its replacement in /tmp.
AfterWrite(p) == IF attempts[p] = 0 THEN "unlinkstate" ELSE "unlock"

GivesUp(failures) == failures > GiveUp

\* All is written and closed; or a write fails, and after longjmp() the local
\* `attempts' has its value or, kept in a register, that of setjmp().
Write(p) ==
    /\ At(p, "writing")
    /\ fd' = [fd EXCEPT ![p] = None]
    /\ \/ /\ content' = [i \in Inode |-> IF i = fd[p] /\ content[i] = "part"
                                           THEN "whole" ELSE content[i]]
          /\ GoTo(p, AfterWrite(p))
          /\ UNCHANGED <<lock, flags, attempts>>
       \/ /\ "write" \in faults
          /\ \E seen \in {attempts[p]} \cup (IF "register" \in faults THEN {0} ELSE {}) :
               \/ \* "Giving up on writing statefile"
                  /\ GivesUp(seen)
                  /\ Release(p) /\ Exit(p)
                  /\ UNCHANGED attempts
               \/ \* "Trying again" on a file in /tmp, if that can be opened;
                  \* if not, fatal() is called with the lock held
                  /\ ~GivesUp(seen)
                  /\ attempts' = [attempts EXCEPT ![p] = seen + 1]
                  /\ UNCHANGED pc \/ ("mkstemp" \in faults /\ Exit(p))
                  /\ UNCHANGED <<lock, flags>>
          /\ UNCHANGED content
    /\ UNCHANGED <<make_state, tmp, mode, sized, changed, visits, hit>>

UnlinkState(p) ==
    /\ At(p, "unlinkstate")
    /\ \/ /\ make_state' = None
          /\ GoTo(p, "rename")
          /\ UNCHANGED <<tmp, lock, flags>>
       \/ /\ "rename" \in faults
          /\ tmp' = None
          /\ Release(p) /\ Exit(p)
          /\ UNCHANGED make_state
    /\ UNCHANGED <<content, mode, fd, sized, attempts, changed, visits, hit>>

Rename(p) ==
    /\ At(p, "rename")
    /\ \/ /\ tmp /= None
          /\ make_state' = tmp /\ tmp' = None
          /\ GoTo(p, "unlock")
          /\ UNCHANGED <<lock, flags>>
       \/ /\ tmp = None \/ "rename" \in faults
          /\ tmp' = None
          /\ Release(p) /\ Exit(p)
          /\ UNCHANGED make_state
    /\ UNCHANGED <<content, mode, fd, sized, attempts, changed, visits, hit>>
-----------------------------------------------------------------------------
(* The rest of make *)

\* A command ran: .make.state has to be written.
RunCommand(p) ==
    /\ At(p, "build") /\ ~changed[p] /\ p \notin NoExec
    /\ changed' = [changed EXCEPT ![p] = TRUE]
    /\ UNCHANGED <<files, pc, mode, flags, fd, sized, attempts, visits, hit>>

\* The file is written before a recursive make, or read again after it.
Visit(p) ==
    /\ At(p, "build") /\ visits[p] > 0
    /\ visits' = [visits EXCEPT ![p] = @ - 1]
    /\ \/ GoTo(p, "rlock")
       \/ changed[p] /\ GoTo(p, "wlock")
    /\ Waits(p)
    /\ UNCHANGED <<files, mode, fd, sized, attempts, changed, hit>>

\* At the end of any other file get_next_block_fn() removes the lock that
\* make_state_lockfile names.
ReadOther(p) ==
    /\ At(p, "build") /\ named[p]
    /\ UnlinkLock /\ SetLocked(p, FALSE)
    /\ UNCHANGED <<make_state, tmp, content, pc, mode, fd, sized, attempts, changed,
                   visits, hit>>

Finish(p) ==
    /\ At(p, "build") /\ Exit(p)
    /\ UNCHANGED <<files, mode, flags, fd, sized, attempts, changed, visits, hit>>

\* cleanup_after_exit(): the lock goes, then the file is written.
Cleanup(p) ==
    /\ At(p, "cleanup")
    /\ mode' = [mode EXCEPT ![p] = "exit"]
    /\ UnlinkHeld(p)
    /\ IF changed[p] THEN GoTo(p, "wlock") /\ Waits(p)
                     ELSE GoTo(p, "gone") /\ SetLocked(p, FALSE)
    /\ UNCHANGED <<make_state, tmp, content, fd, sized, attempts, changed, visits, hit>>

\* handle_interrupt(): what a job reported may be read first, and at the end of
\* that file the lock that is named is removed; then the lock that is held goes;
\* then .make.state is read again if it changed.
Interrupt(p) ==
    /\ "interrupt" \in faults /\ ~hit[p] /\ ~At(p, "gone")
    /\ hit' = [hit EXCEPT ![p] = TRUE]
    /\ mode' = [mode EXCEPT ![p] = IF @ = "exit" THEN @ ELSE "handler"]
    /\ fd' = [fd EXCEPT ![p] = None] /\ sized' = [sized EXCEPT ![p] = None]
    /\ \/ named[p] /\ changed[p] /\ UnlinkLock
       \/ UnlinkHeld(p)
    /\ \/ GoTo(p, "rlock") /\ Waits(p)
       \/ Exit(p) /\ SetLocked(p, FALSE)
    /\ UNCHANGED <<make_state, tmp, content, attempts, changed, visits>>

Crash(p) ==
    /\ "crash" \in faults /\ ~At(p, "gone")
    /\ GoTo(p, "gone")
    /\ fd' = [fd EXCEPT ![p] = None] /\ sized' = [sized EXCEPT ![p] = None]
    /\ UNCHANGED <<files, mode, flags, attempts, changed, visits, hit>>

Step(p) ==
    \/ LockForRead(p) \/ Exists(p) \/ Open(p) \/ Read(p) \/ Unlock(p) \/ Forget(p)
    \/ LockForWrite(p) \/ UnlinkTmp(p) \/ OpenTmp(p) \/ Write(p)
    \/ UnlinkState(p) \/ Rename(p) \/ Finish(p) \/ Cleanup(p)

Over == (\A p \in Proc : At(p, "gone")) /\ UNCHANGED vars

Next == \/ Over
        \/ /\ \E p \in Proc : \/ Step(p) \/ RunCommand(p) \/ Visit(p)
                              \/ ReadOther(p) \/ Interrupt(p) \/ Crash(p)
           /\ UNCHANGED faults

\* Every make goes on until it is gone.
Fairness == \A p \in Proc : WF_vars(Step(p) /\ UNCHANGED faults)

Spec == Init /\ [][Next]_vars /\ Fairness
-----------------------------------------------------------------------------
(* Properties *)

TypeOK ==
    /\ lock \in Proc \cup {None}
    /\ make_state \in Inode \cup {None} /\ tmp \in Inode \cup {None}
    /\ content \in [Inode -> {"part", "whole", "torn"}]
    /\ pc \in [Proc -> Reading \cup Writing
                         \cup {"unlock", "forget", "build", "cleanup", "gone"}]
    /\ mode \in [Proc -> {"run", "handler", "exit"}]
    /\ named \in [Proc -> BOOLEAN] /\ locked \in [Proc -> BOOLEAN]
    /\ fd \in [Proc -> Inode \cup {None}] /\ sized \in [Proc -> Inode \cup {None}]
    /\ attempts \in [Proc -> 0..(GiveUp + 1)]
    /\ changed \in [Proc -> BOOLEAN] /\ hit \in [Proc -> BOOLEAN]
    /\ faults \subseteq Fault
    /\ visits \in [Proc -> 0..Visits]

\* p is between getting the lock and removing it.
Uses(p) == pc[p] \in (Reading \cup Writing) \ {"rlock", "wlock"}

\* What spoils the lock: it cannot be made, and in the exit handler make does
\* without; it times out when its make is killed or very slow, or
\* ends in fatal() without removing it, because no file in /tmp can be opened;
\* and an interrupt may come between its removal and the flag.
Calm == faults \cap {"symlink", "interrupt", "crash", "slow", "mkstemp"} = {}

\* No two makes read or write the state file at the same time (but for -n),
\* though writes fail and .make.state cannot be replaced (file_lock(),
\* state.cc 156-174, read.cc 265).
Exclusive ==
    Calm => \A p, q \in Proc \ NoExec : Uses(p) /\ Uses(q) => p = q

\* Whoever reads .make.state reads a file that one make has finished: it is
\* renamed only after it was closed without an error, and nobody writes to a
\* file that has been published.  With the lock it is also the file whose size
\* exists() has kept, so that all of it is read; a make with -n has no lock,
\* and reads as many bytes as another file had (read_simple_file(): "Lock the
\* file for read, but not when -n").
ReadsWhole ==
    Calm => \A p \in Proc : At(p, "reading") =>
        /\ content[fd[p]] = "whole"
        /\ p \notin NoExec => sized[p] = fd[p]

\* Between unlink() and rename() there is no .make.state, but in the end there
\* is one if there ever was: what earlier builds recorded is not lost.
StateComesBack ==
    Calm /\ "rename" \notin faults => [](make_state /= None => <>[](make_state /= None))

\* Only the make that made the lock file removes it.
OwnLockOnly ==
    [][Calm => \A p \in Proc : lock = p /\ lock' /= p =>
         pc'[p] /= pc[p] \/ named'[p] /= named[p]]_vars

\* Every make comes to an end, whatever fails and whatever became of the lock,
\* provided that `attempts' is kept in memory.
Terminates == "register" \notin faults => <>(\A p \in Proc : At(p, "gone"))
=============================================================================
