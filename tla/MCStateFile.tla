---------------------------- MODULE MCStateFile ----------------------------
(* Makes that share one .make.state, for TLC. *)
EXTENDS StateFile
CONSTANTS p, q, r

\* Three makes, one with -n, when writing fails; two, when also .make.state
\* cannot be replaced; two, when no file in /tmp can be opened and they are killed;
\* two that are too slow, and interrupted or killed, or cannot make the lock.
SomeFamilies ==
    {[makes |-> {p, q, r}, faults |-> {"write", "register"}],
     [makes |-> {p, q}, faults |-> {"write", "rename"}],
     [makes |-> {p, q}, faults |-> {"write", "mkstemp", "crash"}],
     [makes |-> {p, q}, faults |-> {"interrupt", "slow"}],
     [makes |-> {p, q}, faults |-> {"crash", "slow", "symlink"}]}
=============================================================================
