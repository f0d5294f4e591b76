------------------------------ MODULE Bootstrap -----------------------------
(***************************************************************************)
(* How Core processes of one project start and stop: the files of          *)
(* .coordify/runtime that make one of them the Core                        *)
(* (packages/coordify-core/src/main.rs, bootstrap.rs and session.rs).      *)
(*                                                                         *)
(* A Core creates the lock file and then writes itself into it, or reads   *)
(* the lock it finds and takes it for stale when it cannot be read or      *)
(* names a dead process; it writes token and pid, replaces the socket,     *)
(* loads, serves, saves and removes the files again.  Every system call on *)
(* a shared file is a step, and a process may die between any two.         *)
(***************************************************************************)
EXTENDS Integers, FiniteSets, Sequences

CONSTANTS
  Core,        \* processes, numbered in the order in which they are spawned
  Starters,    \* bound: how many may be starting at a time
  MaxFaults    \* bound: how many die or fail to write a file

ASSUME BootstrapAssumption ==
  /\ Core \subseteq Nat \ {0}
  /\ IsFiniteSet(Core)
  /\ Starters \in Nat \ {0}
  /\ MaxFaults \in Nat

VARIABLES
  at,       \* where each process is
  file,     \* who wrote each runtime file, if it is there
  whole,    \* the lock file has its content
  saw,      \* what a process read in the lock file
  retried,  \* processes that have removed a stale lock
  left,     \* the files a process has still to remove
  unlucky   \* processes that died or failed (history)

bootVars == <<at, file, whole, saw, retried, left, unlucky>>

NoFile == 0
Torn   == -1    \* a lock without its content

Files == {"lock", "token", "pid", "socket"}

\* The order in which finalize and main's cleanup remove the files.
FinalRemovals   == <<"socket", "lock", "token", "pid">>
CleanupRemovals == <<"lock", "socket", "token", "pid">>

Starting == {"create", "write", "read", "judge", "remove", "token", "pid", "unlink", "bind", "load"}
Working  == {"serve", "save", "final"}
Alive    == Starting \cup Working \cup {"removing"}

alive(c) == at[c] \in Alive

BootTypeOK ==
  /\ at \in [Core -> Alive \cup {"off", "down"}]
  /\ file \in [Files -> Core \cup {NoFile}]
  /\ whole \in BOOLEAN
  /\ saw \in [Core -> Core \cup {NoFile, Torn}]
  /\ retried \subseteq Core
  /\ left \in [Core -> Seq(Files)]
  /\ unlucky \subseteq Core

BootInit ==
  /\ at = [c \in Core |-> "off"]
  /\ file = [f \in Files |-> NoFile]
  /\ whole = FALSE
  /\ saw = [c \in Core |-> NoFile]
  /\ retried = {}
  /\ left = [c \in Core |-> <<>>]
  /\ unlucky = {}

Goto(c, p) == at' = [at EXCEPT ![c] = p]
Put(f, c)  == file' = [file EXCEPT ![f] = c]
Step(c, p, q) == at[c] = p /\ Goto(c, q)

-----------------------------------------------------------------------------
(* acquire_lock                                                            *)

Spawn(c) ==
  /\ Step(c, "off", "create")
  /\ \A d \in Core : d < c => at[d] # "off"
  /\ Cardinality({d \in Core : at[d] \in Starting}) < Starters
  /\ UNCHANGED <<file, whole, saw, retried, left, unlucky>>

\* Mutant: an existing file is opened like a new one.
CreateLockAnyway(c) ==
  /\ at[c] = "create"
  /\ Put("lock", c) /\ whole' = FALSE /\ Goto(c, "write")
  /\ UNCHANGED <<saw, retried, left, unlucky>>

\* create_new: the file is there, and empty, before anything is in it.
CreateLock(c) ==
  /\ at[c] = "create"
  /\ IF file["lock"] = NoFile
       THEN Put("lock", c) /\ whole' = FALSE /\ Goto(c, "write")
       ELSE Goto(c, "read") /\ UNCHANGED <<file, whole>>
  /\ UNCHANGED <<saw, retried, left, unlucky>>

\* Whoever has removed the file meanwhile, the write goes to what was removed.
WriteLock(c) ==
  /\ Step(c, "write", "token")
  /\ whole' = (whole \/ file["lock"] = c)
  /\ UNCHANGED <<file, saw, retried, left, unlucky>>

\* The file may have gone: that is an error, and the process exits.
ReadLock(c) ==
  /\ at[c] = "read"
  /\ IF file["lock"] = NoFile
       THEN Goto(c, "down") /\ UNCHANGED saw
       ELSE /\ saw' = [saw EXCEPT ![c] = IF whole THEN file["lock"] ELSE Torn]
            /\ Goto(c, "judge")
  /\ UNCHANGED <<file, whole, retried, left, unlucky>>

\* (Mutant: the process id is not looked up.)
HeldByNobody(c) == FALSE
HeldByLive(c) == saw[c] # Torn /\ alive(saw[c])

\* HeldBy: exit 0.  Stale: remove it, the first time.
JudgeLock(c) ==
  /\ at[c] = "judge"
  /\ Goto(c, IF HeldByLive(c) \/ c \in retried THEN "down" ELSE "remove")
  /\ saw' = [saw EXCEPT ![c] = NoFile]
  /\ UNCHANGED <<file, whole, retried, left, unlucky>>

RemoveStale(c) ==
  /\ at[c] = "remove"
  /\ IF file["lock"] = NoFile
       THEN Goto(c, "down") /\ UNCHANGED <<file, whole, retried>>
       ELSE /\ Put("lock", NoFile)
            /\ whole' = FALSE
            /\ retried' = retried \cup {c}
            /\ Goto(c, "create")
  /\ UNCHANGED <<saw, left, unlucky>>

-----------------------------------------------------------------------------
(* main::run up to the accept loop                                         *)

WriteToken(c) ==
  Step(c, "token", "pid") /\ Put("token", c) /\ UNCHANGED <<whole, saw, retried, left, unlucky>>
WritePid(c) ==
  Step(c, "pid", "unlink") /\ Put("pid", c) /\ UNCHANGED <<whole, saw, retried, left, unlucky>>

\* Mutant: a socket that is there is left there.
UnlinkNothing(c) == Step(c, "unlink", "bind") /\ UNCHANGED <<file, whole, saw, retried, left, unlucky>>

UnlinkSocket(c) ==
  /\ Step(c, "unlink", "bind")
  /\ Put("socket", NoFile)
  /\ UNCHANGED <<whole, saw, retried, left, unlucky>>

\* bind fails if another process has put its socket there meanwhile.
Bind(c) ==
  /\ at[c] = "bind"
  /\ IF file["socket"] = NoFile
       THEN Put("socket", c) /\ Goto(c, "load") /\ UNCHANGED left
       ELSE /\ Goto(c, "removing")
            /\ left' = [left EXCEPT ![c] = CleanupRemovals]
            /\ UNCHANGED file
  /\ UNCHANGED <<whole, saw, retried, unlucky>>

Load(c) == Step(c, "load", "serve") /\ UNCHANGED <<file, whole, saw, retried, left, unlucky>>

-----------------------------------------------------------------------------
(* The end: the network is empty, what was learned is saved, network-final *)
(* is written and the files are removed, whoever wrote them                *)

NetworkEnds(c) == Step(c, "serve", "save")  /\ UNCHANGED <<file, whole, saw, retried, left, unlucky>>
Saved(c)       == Step(c, "save", "final") /\ UNCHANGED <<file, whole, saw, retried, left, unlucky>>

Finalize(c) ==
  /\ Step(c, "final", "removing")
  /\ left' = [left EXCEPT ![c] = FinalRemovals]
  /\ UNCHANGED <<file, whole, saw, retried, unlucky>>

RemoveFile(c) ==
  /\ at[c] = "removing"
  /\ left[c] # <<>>
  /\ Put(Head(left[c]), NoFile)
  /\ whole' = (whole /\ Head(left[c]) # "lock")
  /\ left' = [left EXCEPT ![c] = Tail(@)]
  /\ UNCHANGED <<at, saw, retried, unlucky>>

Exit(c) ==
  /\ left[c] = <<>>
  /\ Step(c, "removing", "down")
  /\ UNCHANGED <<file, whole, saw, retried, left, unlucky>>

-----------------------------------------------------------------------------
(* Faults                                                                  *)

Unlucky(c) ==
  /\ Cardinality(unlucky) < MaxFaults
  /\ unlucky' = unlucky \cup {c}

Die(c) ==
  /\ alive(c)
  /\ Unlucky(c)
  /\ Goto(c, "down")
  /\ left' = [left EXCEPT ![c] = <<>>]
  /\ UNCHANGED <<file, whole, saw, retried>>

\* A file cannot be written.  In acquire_lock and when the reaper finalizes the
\* process just exits; in main::run the files are removed first.
WriteFails(c) ==
  /\ Unlucky(c)
  /\ \/ at[c] \in {"write", "final"} /\ Goto(c, "down") /\ UNCHANGED left
     \/ /\ at[c] \in {"token", "pid", "load", "final"}
        /\ Goto(c, "removing")
        /\ left' = [left EXCEPT ![c] = CleanupRemovals]
  /\ UNCHANGED <<file, whole, saw, retried>>

\* Saving goes on with the next task: no runtime file is touched.
SaveBreaks(c) ==
  /\ at[c] = "save"
  /\ Unlucky(c)
  /\ UNCHANGED <<at, file, whole, saw, retried, left>>

-----------------------------------------------------------------------------

Acquire(c) == CreateLock(c) \/ WriteLock(c) \/ ReadLock(c) \/ JudgeLock(c) \/ RemoveStale(c)
Boot(c)    == WriteToken(c) \/ WritePid(c) \/ UnlinkSocket(c) \/ Bind(c)
Finish(c)  == Finalize(c) \/ RemoveFile(c) \/ Exit(c)

BootNext ==
  \E c \in Core : \/ Spawn(c) \/ Acquire(c) \/ Boot(c) \/ Load(c)
                  \/ NetworkEnds(c) \/ Saved(c) \/ Finish(c)
                  \/ Die(c) \/ WriteFails(c) \/ SaveBreaks(c)

BootSpec == BootInit /\ [][BootNext]_bootVars

-----------------------------------------------------------------------------

\* A Core that has the lock, until it removes it.
Holds(c) ==
  \/ at[c] \in {"write", "token", "pid", "unlink", "bind", "load"} \cup Working
  \/ at[c] = "removing" /\ \E i \in DOMAIN left[c] : left[c][i] = "lock"

\* The lock arbitrates: of two Cores at most one gets past it, whoever died or
\* could not write before and whatever stale lock they find.
MutualExclusion == \A c, d \in Core : Holds(c) /\ Holds(d) => c = d

\* A Core that serves loses a runtime file only to one that is just ending: one
\* that starts does no harm, and neither does one that has saved its session.
StartersDoNoHarm ==
  [][\A c \in Core, f \in Files :
       at[c] = "serve" /\ at'[c] = "serve" /\ file[f] = c /\ file'[f] # c
         => \E d \in Core \ {c} : at[d] = "removing" /\ left'[d] # left[d]]_bootVars

\* Whatever number of Cores start at the same time, crash or cannot write, at most
\* one more is past the lock than processes have taken a lock for stale and removed
\* it: acquire_lock creates the file only where there is none, removes it once, and
\* an ending Core removes it as it stops to hold it.
RemovalsBoundHolders == Cardinality({c \in Core : Holds(c)}) <= 1 + Cardinality(retried)

\* However many start at the same time, a Core that serves loses a runtime file to
\* one that starts only where a lock has been taken for stale: create_new alone
\* keeps starters from each other's token, pid and socket.
OnlyRemoversDoHarm ==
  [][\A c \in Core, f \in Files :
       at[c] = "serve" /\ at'[c] = "serve" /\ file[f] = c /\ file'[f] # c
         => \/ retried' # {}
            \/ \E d \in Core \ {c} : at[d] = "removing" /\ left'[d] # left[d]]_bootVars
=============================================================================
