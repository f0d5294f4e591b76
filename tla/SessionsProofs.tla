--------------------------- MODULE SessionsProofs ----------------------------
(***************************************************************************)
(* The files of .coordify/runtime and what outlives a session, for every   *)
(* number of Cores, of deaths, of failed writes and of damaged files.      *)
(* However many start at the same time, holders of the lock are bounded by *)
(* the removals of locks taken for stale.  As long as no lock is removed   *)
(* that is held, the lock arbitrates, the last good save is never lost,    *)
(* and sessions add up.                                                    *)
(***************************************************************************)
EXTENDS Sessions, FiniteSetTheorems, TLAPS


-----------------------------------------------------------------------------
(* Type correctness                                                        *)

LEMMA RemovalsAreFiles ==
  /\ FinalRemovals \in Seq(Files)
  /\ CleanupRemovals \in Seq(Files)
  BY DEF FinalRemovals, CleanupRemovals, Files

LEMMA TypesInit == BootInit => BootTypeOK
<1> SUFFICES ASSUME BootInit PROVE BootTypeOK
  OBVIOUS
<1> USE DEF BootInit, NoFile
<1>1. at \in [Core -> Alive \cup {"off", "down"}]
  OBVIOUS
<1>2. /\ file \in [Files -> Core \cup {NoFile}]
      /\ saw \in [Core -> Core \cup {NoFile, Torn}]
  OBVIOUS
<1>3. left \in [Core -> Seq(Files)]
  OBVIOUS
<1>. QED
  BY <1>1, <1>2, <1>3 DEF BootTypeOK

LEMMA TypesNext == BootTypeOK /\ [BootNext]_bootVars => BootTypeOK'
<1> SUFFICES ASSUME BootTypeOK, [BootNext]_bootVars
             PROVE  BootTypeOK'
  OBVIOUS
<1> USE DEF BootTypeOK, Alive, Starting, Working, NoFile, Goto, Put, Step
<1>1. ASSUME NEW c \in Core, Spawn(c) PROVE BootTypeOK'
  BY <1>1 DEF Spawn
<1>2. ASSUME NEW c \in Core, CreateLock(c) \/ WriteLock(c) \/ ReadLock(c) PROVE BootTypeOK'
  <2>1. CASE CreateLock(c)
    <3>1. at' \in [Core -> Alive \cup {"off", "down"}]
      BY <2>1 DEF CreateLock
    <3>2. file' \in [Files -> Core \cup {NoFile}]
      BY <2>1 DEF CreateLock
    <3>3. whole' \in BOOLEAN
      BY <2>1 DEF CreateLock
    <3>. QED  BY <2>1, <3>1, <3>2, <3>3 DEF CreateLock
  <2>2. CASE WriteLock(c)
    BY <2>2 DEF WriteLock, Files
  <2>3. CASE ReadLock(c)
    BY <2>3 DEF ReadLock, Files
  <2>. QED  BY <1>2, <2>1, <2>2, <2>3
<1>3. ASSUME NEW c \in Core, JudgeLock(c) \/ RemoveStale(c) PROVE BootTypeOK'
  <2>1. CASE JudgeLock(c)
    <3>1. at' \in [Core -> Alive \cup {"off", "down"}]
      BY <2>1 DEF JudgeLock
    <3>. QED  BY <2>1, <3>1 DEF JudgeLock
  <2>2. CASE RemoveStale(c)
    <3>1. at' \in [Core -> Alive \cup {"off", "down"}]
      BY <2>2 DEF RemoveStale
    <3>2. /\ file' \in [Files -> Core \cup {NoFile}] /\ whole' \in BOOLEAN
          /\ retried' \subseteq Core
      BY <2>2, ZenonT(30) DEF RemoveStale
    <3>. QED  BY <2>2, <3>1, <3>2 DEF RemoveStale
  <2>. QED  BY <1>3, <2>1, <2>2
<1>4. ASSUME NEW c \in Core, Boot(c) PROVE BootTypeOK'
  <2>1. CASE WriteToken(c)
    BY <2>1 DEF WriteToken
  <2>2. CASE WritePid(c)
    BY <2>2 DEF WritePid
  <2>3. CASE UnlinkSocket(c)
    BY <2>3 DEF UnlinkSocket
  <2>4. CASE Bind(c)
    <3>1. at' \in [Core -> Alive \cup {"off", "down"}]
      BY <2>4 DEF Bind
    <3>2. file' \in [Files -> Core \cup {NoFile}]
      <4>1. file' = file \/ Put("socket", c)
        BY <2>4 DEF Bind
      <4>. QED
        BY <4>1
    <3>3. left' \in [Core -> Seq(Files)]
      BY <2>4, RemovalsAreFiles DEF Bind
    <3>. QED  BY <2>4, <3>1, <3>2, <3>3 DEF Bind
  <2>. QED  BY <1>4, <2>1, <2>2, <2>3, <2>4 DEF Boot
<1>5. ASSUME NEW c \in Core, Load(c) \/ NetworkEnds(c) \/ Saved(c) PROVE BootTypeOK'
  BY <1>5 DEF Load, NetworkEnds, Saved
<1>6. ASSUME NEW c \in Core, Finalize(c) PROVE BootTypeOK'
  BY <1>6, RemovalsAreFiles DEF Finalize
<1>7. ASSUME NEW c \in Core, RemoveFile(c) PROVE BootTypeOK'
  BY <1>7 DEF RemoveFile
<1>8. ASSUME NEW c \in Core, Exit(c) PROVE BootTypeOK'
  BY <1>8 DEF Exit
<1>9. ASSUME NEW c \in Core, Die(c) \/ WriteFails(c) \/ SaveBreaks(c) PROVE BootTypeOK'
  <2>1. CASE Die(c)
    BY <2>1 DEF Die, Unlucky
  <2>2. CASE WriteFails(c)
    BY <2>2, RemovalsAreFiles DEF WriteFails, Unlucky
  <2>3. CASE SaveBreaks(c)
    BY <2>3 DEF SaveBreaks, Unlucky
  <2>. QED  BY <1>9, <2>1, <2>2, <2>3
<1>10. CASE UNCHANGED bootVars
  BY <1>10 DEF bootVars
<1>. QED
  BY <1>1, <1>2, <1>3, <1>4, <1>5, <1>6, <1>7, <1>8, <1>9, <1>10
  DEF BootNext, Acquire, Finish

\* Every reachable state of the runtime files has its shape.
THEOREM BootTypeCorrect == BootSpec => []BootTypeOK
  BY TypesInit, TypesNext, PTL DEF BootSpec

-----------------------------------------------------------------------------
(* What a step does to the lock                                            *)

RemovesOnce ==
  \A c \in Core : \A i, j \in DOMAIN left[c] : left[c][i] = left[c][j] => i = j

\* The four things a step can do to the lock, of which the first is nothing.
KeepsLock ==
  /\ file'["lock"] = file["lock"] /\ (whole => whole') /\ retried' = retried
  /\ \A d \in Core : Holds(d)' => /\ Holds(d)
                                  /\ \/ at[d] # "write" \/ at'[d] = "write"
                                     \/ whole' \/ file["lock"] # d

TakesLock(c) ==
  /\ file["lock"] = NoFile /\ file'["lock"] = c /\ at'[c] = "write" /\ retried' = retried
  /\ at[c] = "create" /\ \A d \in Core \ {c} : at'[d] = at[d]
  /\ \A d \in Core : Holds(d)' => Holds(d) \/ d = c

BreaksLock(c) ==
  /\ at[c] = "remove" /\ at'[c] = "create" /\ retried' = retried \cup {c}
  /\ file["lock"] # NoFile /\ file'["lock"] = NoFile
  /\ \A d \in Core : Holds(d)' => Holds(d)

GivesLockUp(c) ==
  /\ Holds(c) /\ ~Holds(c)' /\ file'["lock"] = NoFile /\ retried' = retried
  /\ \A d \in Core : Holds(d)' => Holds(d)

LockStep ==
  \/ KeepsLock
  \/ \E c \in Core : TakesLock(c) \/ BreaksLock(c) \/ GivesLockUp(c)

LEMMA RemovalsAreDistinct ==
  ASSUME NEW s \in {<<>>, FinalRemovals, CleanupRemovals}
  PROVE  \A i, j \in DOMAIN s : s[i] = s[j] => i = j
  BY DEF FinalRemovals, CleanupRemovals

LEMMA TailKeeps ==
  ASSUME NEW s \in Seq(Files), s # <<>>,
         \A i, j \in DOMAIN s : s[i] = s[j] => i = j
  PROVE  /\ \A i, j \in DOMAIN Tail(s) : Tail(s)[i] = Tail(s)[j] => i = j
         /\ \A i \in DOMAIN Tail(s) : Tail(s)[i] # Head(s)
         /\ \A f : (\E i \in DOMAIN Tail(s) : Tail(s)[i] = f)
                     => \E i \in DOMAIN s : s[i] = f
         /\ \E i \in DOMAIN s : s[i] = Head(s)
<1>1. /\ DOMAIN s = 1 .. Len(s) /\ Len(s) \in Nat /\ Len(s) > 0
      /\ DOMAIN Tail(s) = 1 .. Len(s) - 1
  OBVIOUS
<1>2. \A i \in DOMAIN Tail(s) : Tail(s)[i] = s[i + 1] /\ i + 1 \in DOMAIN s /\ i + 1 # 1
  BY <1>1
<1>3. Head(s) = s[1] /\ 1 \in DOMAIN s
  BY <1>1
<1>. QED  BY <1>1, <1>2, <1>3

\* A step of c alone that keeps the lock file and what c may hold of it.
LEMMA QuietStep ==
  ASSUME RemovesOnce, NEW c \in Core,
         \A d \in Core \ {c} : at'[d] = at[d] /\ left'[d] = left[d],
         file'["lock"] = file["lock"], whole' = whole, retried' = retried,
         Holds(c)' => Holds(c) /\ at[c] # "write",
         \A i, j \in DOMAIN left'[c] : left'[c][i] = left'[c][j] => i = j
  PROVE  RemovesOnce' /\ LockStep
<1>1. \A d \in Core \ {c} : Holds(d)' => Holds(d)
  BY DEF Holds
<1>2. \A d \in Core \ {c} : at[d] # "write" \/ at'[d] = "write"
  OBVIOUS
<1>3. KeepsLock
  BY <1>1, <1>2 DEF KeepsLock
<1>. QED  BY <1>3 DEF LockStep, RemovesOnce

LEMMA StepOnLock ==
  ASSUME BootTypeOK, RemovesOnce, [BootNext]_bootVars
  PROVE  RemovesOnce' /\ LockStep
<1> USE DEF Goto, Put, Step
<1>1. ASSUME NEW c \in Core, Spawn(c) PROVE RemovesOnce' /\ LockStep
  BY <1>1, QuietStep DEF Spawn, BootTypeOK, RemovesOnce, Holds, Working
<1>2. ASSUME NEW c \in Core, CreateLock(c) PROVE RemovesOnce' /\ LockStep
  <2>1. CASE file["lock"] = NoFile
    <3>1. /\ at'[c] = "write" /\ file'["lock"] = c /\ left' = left /\ retried' = retried
          /\ at[c] = "create" /\ \A d \in Core \ {c} : at'[d] = at[d]
      BY <1>2, <2>1 DEF CreateLock, BootTypeOK, Files
    <3>2. \A d \in Core : Holds(d)' => Holds(d) \/ d = c
      BY <3>1 DEF Holds
    <3>3. TakesLock(c)
      BY <2>1, <3>1, <3>2 DEF TakesLock
    <3>. QED  BY <3>1, <3>3 DEF LockStep, RemovesOnce
  <2>2. CASE file["lock"] # NoFile
    <3>1. ~Holds(c)'
      BY <1>2, <2>2 DEF CreateLock, BootTypeOK, Holds, Working
    <3>. QED
      BY <1>2, <2>2, <3>1, QuietStep DEF CreateLock, BootTypeOK, RemovesOnce
  <2>. QED  BY <2>1, <2>2
<1>3. ASSUME NEW c \in Core, WriteLock(c) PROVE RemovesOnce' /\ LockStep
  <2>1. Holds(c) /\ (whole' \/ file["lock"] # c) /\ file'["lock"] = file["lock"]
        /\ (whole => whole') /\ retried' = retried /\ left' = left
    BY <1>3 DEF WriteLock, Holds
  <2>2. \A d \in Core \ {c} : at'[d] = at[d]
    BY <1>3 DEF WriteLock, BootTypeOK
  <2>3. \A d \in Core : Holds(d)' => Holds(d)
    BY <2>1, <2>2 DEF Holds
  <2>4. KeepsLock
    BY <2>1, <2>2, <2>3 DEF KeepsLock
  <2>. QED  BY <2>1, <2>4 DEF LockStep, RemovesOnce
<1>4. ASSUME NEW c \in Core, ReadLock(c) \/ JudgeLock(c) PROVE RemovesOnce' /\ LockStep
  <2>1. /\ at'[c] \in {"judge", "down", "remove"}
        /\ \A d \in Core \ {c} : at'[d] = at[d]
        /\ UNCHANGED <<file, whole, retried, left>>
    BY <1>4 DEF ReadLock, JudgeLock, BootTypeOK
  <2>2. ~Holds(c)'
    BY <2>1 DEF Holds, Working
  <2>. QED  BY <2>1, <2>2, QuietStep DEF RemovesOnce
<1>5. ASSUME NEW c \in Core, RemoveStale(c) PROVE RemovesOnce' /\ LockStep
  <2>1. /\ at[c] = "remove" /\ left' = left /\ at'[c] \in {"create", "down"}
        /\ \A d \in Core \ {c} : at'[d] = at[d]
    BY <1>5 DEF RemoveStale, BootTypeOK
  <2>2. ~Holds(c)' /\ \A d \in Core : Holds(d)' => Holds(d)
    BY <2>1 DEF Holds, Working
  <2>3. CASE file["lock"] = NoFile
    BY <1>5, <2>1, <2>2, <2>3, QuietStep DEF RemoveStale, RemovesOnce
  <2>4. CASE file["lock"] # NoFile
    <3>1. BreaksLock(c)
      BY <1>5, <2>1, <2>2, <2>4 DEF RemoveStale, BreaksLock, BootTypeOK, Files
    <3>. QED  BY <2>1, <3>1 DEF LockStep, RemovesOnce
  <2>. QED  BY <2>3, <2>4
<1>6. ASSUME NEW c \in Core, WriteToken(c) \/ WritePid(c) \/ UnlinkSocket(c)
      PROVE  RemovesOnce' /\ LockStep
  <2>1. /\ at[c] \in {"token", "pid", "unlink"}
        /\ \A d \in Core \ {c} : at'[d] = at[d]
        /\ UNCHANGED <<whole, retried, left>>
    BY <1>6 DEF WriteToken, WritePid, UnlinkSocket, BootTypeOK
  <2>2. file'["lock"] = file["lock"]
    BY <1>6 DEF WriteToken, WritePid, UnlinkSocket, BootTypeOK, Files
  <2>3. Holds(c) /\ at[c] # "write"
    BY <2>1 DEF Holds
  <2>. QED  BY <2>1, <2>2, <2>3, QuietStep DEF RemovesOnce
<1>7. ASSUME NEW c \in Core, Bind(c) PROVE RemovesOnce' /\ LockStep
  <2>1. Holds(c) /\ at[c] = "bind"
    BY <1>7 DEF Bind, Holds
  <2>2. file'["lock"] = file["lock"]
    BY <1>7 DEF Bind, BootTypeOK, Files
  <2>3. \A i, j \in DOMAIN left'[c] : left'[c][i] = left'[c][j] => i = j
    BY <1>7, RemovalsAreDistinct DEF Bind, BootTypeOK, RemovesOnce
  <2>4. \A d \in Core \ {c} : at'[d] = at[d] /\ left'[d] = left[d]
    BY <1>7 DEF Bind, BootTypeOK
  <2>. QED  BY <1>7, <2>1, <2>2, <2>3, <2>4, QuietStep DEF Bind
<1>8. ASSUME NEW c \in Core, Load(c) \/ NetworkEnds(c) \/ Saved(c)
      PROVE  RemovesOnce' /\ LockStep
  <2>1. Holds(c) /\ at[c] # "write"
    BY <1>8 DEF Load, NetworkEnds, Saved, Holds, Working
  <2>2. \A d \in Core \ {c} : at'[d] = at[d]
    BY <1>8 DEF Load, NetworkEnds, Saved, BootTypeOK
  <2>. QED
    BY <1>8, <2>1, <2>2, QuietStep DEF Load, NetworkEnds, Saved, RemovesOnce
<1>9. ASSUME NEW c \in Core, Finalize(c) PROVE RemovesOnce' /\ LockStep
  <2>1. Holds(c) /\ at[c] # "write"
    BY <1>9 DEF Finalize, Holds, Working
  <2>2. \A d \in Core \ {c} : at'[d] = at[d] /\ left'[d] = left[d]
    BY <1>9 DEF Finalize, BootTypeOK
  <2>3. \A i, j \in DOMAIN left'[c] : left'[c][i] = left'[c][j] => i = j
    BY <1>9, RemovalsAreDistinct DEF Finalize, BootTypeOK
  <2>. QED  BY <1>9, <2>1, <2>2, <2>3, QuietStep DEF Finalize
<1>10. ASSUME NEW c \in Core, RemoveFile(c) PROVE RemovesOnce' /\ LockStep
  <2> DEFINE f == Head(left[c])
  <2>1. /\ left[c] \in Seq(Files) /\ left[c] # <<>> /\ left'[c] = Tail(left[c])
        /\ at' = at /\ retried' = retried /\ at[c] = "removing"
        /\ \A d \in Core \ {c} : left'[d] = left[d]
    BY <1>10 DEF RemoveFile, BootTypeOK
  <2>2. /\ \A i, j \in DOMAIN left'[c] : left'[c][i] = left'[c][j] => i = j
        /\ \A i \in DOMAIN left'[c] : left'[c][i] # f
        /\ \A g : (\E i \in DOMAIN left'[c] : left'[c][i] = g)
                    => \E i \in DOMAIN left[c] : left[c][i] = g
        /\ \E i \in DOMAIN left[c] : left[c][i] = f
    BY <2>1, TailKeeps DEF RemovesOnce
  <2>3. Holds(c)' => Holds(c) /\ f # "lock"
    BY <2>1, <2>2 DEF Holds, Working
  <2>4. CASE f # "lock"
    <3>1. file'["lock"] = file["lock"] /\ whole' = whole
      BY <1>10, <2>4 DEF RemoveFile, BootTypeOK, Files
    <3>. QED  BY <2>1, <2>2, <2>3, <3>1, QuietStep
  <2>5. CASE f = "lock"
    <3>1. Holds(c) /\ ~Holds(c)'
      BY <2>1, <2>2, <2>3, <2>5 DEF Holds
    <3>2. \A d \in Core : Holds(d)' => Holds(d)
      BY <2>1, <3>1 DEF Holds
    <3>3. file'["lock"] = NoFile
      BY <1>10, <2>5 DEF RemoveFile, BootTypeOK, Files
    <3>4. GivesLockUp(c)
      BY <2>1, <3>1, <3>2, <3>3 DEF GivesLockUp
    <3>5. RemovesOnce'
      BY <2>1, <2>2, ZenonT(30) DEF RemovesOnce
    <3>. QED  BY <3>4, <3>5 DEF LockStep
  <2>. QED  BY <2>4, <2>5
<1>11. ASSUME NEW c \in Core, Exit(c) PROVE RemovesOnce' /\ LockStep
  BY <1>11, QuietStep DEF Exit, BootTypeOK, RemovesOnce, Holds, Working
<1>12. ASSUME NEW c \in Core, Die(c) PROVE RemovesOnce' /\ LockStep
  <2>1. at'[c] = "down" /\ left'[c] = <<>> /\ ~Holds(c)'
    BY <1>12 DEF Die, BootTypeOK, Holds, Working
  <2>2. \A i, j \in DOMAIN left'[c] : left'[c][i] = left'[c][j] => i = j
    BY <2>1, RemovalsAreDistinct
  <2>3. \A d \in Core \ {c} : at'[d] = at[d] /\ left'[d] = left[d]
    BY <1>12 DEF Die, BootTypeOK
  <2>. QED  BY <1>12, <2>1, <2>2, <2>3, QuietStep DEF Die
<1>13. ASSUME NEW c \in Core, WriteFails(c) PROVE RemovesOnce' /\ LockStep
  <2>1. /\ at'[c] \in {"down", "removing"}
        /\ at'[c] = "removing" => Holds(c) /\ at[c] # "write"
        /\ ~("down" \in Working)
    BY <1>13 DEF WriteFails, BootTypeOK, Holds, Working
  <2>2. Holds(c)' => at'[c] = "removing"
    BY <2>1 DEF Holds, Working
  <2>3. \A i, j \in DOMAIN left'[c] : left'[c][i] = left'[c][j] => i = j
    BY <1>13, RemovalsAreDistinct DEF WriteFails, BootTypeOK, RemovesOnce
  <2>4. \A d \in Core \ {c} : at'[d] = at[d] /\ left'[d] = left[d]
    BY <1>13 DEF WriteFails, BootTypeOK
  <2>. QED  BY <1>13, <2>1, <2>2, <2>3, <2>4, QuietStep DEF WriteFails
<1>14. CASE UNCHANGED <<at, file, whole, retried, left>>
  <2>1. KeepsLock
    BY <1>14 DEF KeepsLock, Holds
  <2>. QED  BY <1>14, <2>1 DEF LockStep, RemovesOnce
<1>. QED
  BY <1>1, <1>2, <1>3, <1>4, <1>5, <1>6, <1>7, <1>8, <1>9, <1>10, <1>11, <1>12,
     <1>13, <1>14
  DEF BootNext, Acquire, Boot, Finish, SaveBreaks, bootVars

\* How a process comes to start, to judge what it has read and to remove a lock.
LEMMA StepOfStarter ==
  ASSUME BootTypeOK, [BootNext]_bootVars, NEW c \in Core
  PROVE  /\ at'[c] \in Starting => at[c] \in Starting \/ Spawn(c)
         /\ at'[c] = "judge" => ReadLock(c) \/ (at[c] = "judge" /\ saw'[c] = saw[c])
         /\ at'[c] = "remove" => JudgeLock(c) \/ at[c] = "remove"
<1> USE DEF Goto, Put, Step, BootTypeOK, Starting
<1>1. ASSUME NEW d \in Core, Spawn(d)
      PROVE  /\ at'[c] \in Starting => at[c] \in Starting \/ Spawn(c)
             /\ at'[c] \in {"judge", "remove"} => at[c] = at'[c] /\ saw'[c] = saw[c]
  BY <1>1 DEF Spawn
<1>2. ASSUME NEW d \in Core, Acquire(d)
      PROVE  /\ at'[c] \in Starting => at[c] \in Starting
             /\ at'[c] = "judge" => ReadLock(c) \/ (at[c] = "judge" /\ saw'[c] = saw[c])
             /\ at'[c] = "remove" => JudgeLock(c) \/ at[c] = "remove"
  <2>1. CASE CreateLock(d)
    BY <2>1 DEF CreateLock
  <2>2. CASE WriteLock(d)
    BY <2>2 DEF WriteLock
  <2>3. CASE ReadLock(d)
    BY <2>3 DEF ReadLock
  <2>4. CASE JudgeLock(d)
    BY <2>4 DEF JudgeLock
  <2>5. CASE RemoveStale(d)
    BY <2>5 DEF RemoveStale
  <2>. QED  BY <1>2, <2>1, <2>2, <2>3, <2>4, <2>5 DEF Acquire
<1>3. ASSUME NEW d \in Core, Boot(d) \/ Load(d) \/ NetworkEnds(d) \/ Saved(d)
      PROVE  /\ at'[c] \in Starting => at[c] \in Starting
             /\ at'[c] \in {"judge", "remove"} => at[c] = at'[c] /\ saw'[c] = saw[c]
  BY <1>3 DEF Boot, WriteToken, WritePid, UnlinkSocket, Bind, Load, NetworkEnds, Saved
<1>4. ASSUME NEW d \in Core, Finish(d) \/ Die(d) \/ WriteFails(d) \/ SaveBreaks(d)
      PROVE  /\ at'[c] \in Starting => at[c] \in Starting
             /\ at'[c] \in {"judge", "remove"} => at[c] = at'[c] /\ saw'[c] = saw[c]
  BY <1>4 DEF Finish, Finalize, RemoveFile, Exit, Die, WriteFails, SaveBreaks
<1>5. CASE UNCHANGED bootVars
  BY <1>5 DEF bootVars
<1>. QED
  BY <1>1, <1>2, <1>3, <1>4, <1>5 DEF BootNext

-----------------------------------------------------------------------------
(* Any number of Cores start at the same time                              *)

Holders == {c \in Core : Holds(c)}

\* Without a lock file there is room for one holder more.
HoldersAreCounted ==
  Cardinality(Holders) + (IF file["lock"] = NoFile THEN 1 ELSE 0) <= 1 + Cardinality(retried)

\* Who is about to remove the lock has not done so before.
RemoverIsNew == \A c \in Core : at[c] = "remove" => c \notin retried

CountInv == BootTypeOK /\ RemovesOnce /\ RemoverIsNew /\ HoldersAreCounted

LEMMA HoldersAreFinite ==
  IsFiniteSet(Holders) /\ Cardinality(Holders) \in Nat
<1>1. Holders \in SUBSET Core
  BY DEF Holders
<1>2. IsFiniteSet(Holders)
  BY <1>1, BootstrapAssumption, FS_Subset
<1>. QED  BY <1>2, FS_CardinalityType

LEMMA CountInit == BootInit => CountInv
<1> SUFFICES ASSUME BootInit PROVE CountInv
  OBVIOUS
<1>1. Holders = {} /\ retried = {} /\ RemoverIsNew
  BY DEF BootInit, Holders, Holds, Working, RemoverIsNew
<1>2. Cardinality(Holders) = 0 /\ Cardinality(retried) = 0
  BY <1>1, FS_EmptySet
<1>3. RemovesOnce
  BY RemovalsAreDistinct DEF BootInit, RemovesOnce
<1>. QED
  BY <1>1, <1>2, <1>3, TypesInit DEF CountInv, HoldersAreCounted

LEMMA CountNext == CountInv /\ [BootNext]_bootVars => CountInv'
<1> SUFFICES ASSUME CountInv, [BootNext]_bootVars
             PROVE  CountInv'
  OBVIOUS
<1>1. BootTypeOK' /\ RemovesOnce' /\ LockStep
  BY TypesNext, StepOnLock DEF CountInv
<1>2. RemoverIsNew'
  <2> SUFFICES ASSUME NEW c \in Core, at'[c] = "remove", c \in retried'
               PROVE  FALSE
    BY DEF RemoverIsNew
  <2>1. c \notin retried
    <3>1. JudgeLock(c) => c \notin retried
      BY DEF JudgeLock, Goto, CountInv, BootTypeOK
    <3>. QED  BY <3>1, StepOfStarter DEF CountInv, RemoverIsNew
  <2>2. PICK d \in Core : BreaksLock(d)
    BY <1>1, <2>1 DEF LockStep, KeepsLock, TakesLock, GivesLockUp
  <2>3. d = c /\ at'[d] = "create"
    BY <2>1, <2>2 DEF BreaksLock
  <2>. QED  BY <2>3
<1>3. HoldersAreCounted'
  <2> DEFINE n == Cardinality(Holders)
             m == Cardinality(Holders')
  <2>0. /\ IsFiniteSet(Holders) /\ n \in Nat
        /\ IsFiniteSet(retried) /\ Cardinality(retried) \in Nat
    BY HoldersAreFinite, BootstrapAssumption, FS_Subset, FS_CardinalityType
    DEF CountInv, BootTypeOK
  <2>1. CASE KeepsLock
    <3>1. Holders' \in SUBSET Holders
      BY <2>1 DEF KeepsLock, Holders
    <3>2. m \in Nat /\ m <= n
      BY <2>0, <3>1, FS_Subset, FS_CardinalityType
    <3>. QED  BY <2>0, <2>1, <3>2 DEF KeepsLock, CountInv, HoldersAreCounted
  <2>2. ASSUME NEW c \in Core, TakesLock(c) PROVE HoldersAreCounted'
    <3>1. Holders' \in SUBSET (Holders \cup {c})
      BY <2>2 DEF TakesLock, Holders
    <3>2. /\ IsFiniteSet(Holders \cup {c})
          /\ Cardinality(Holders \cup {c}) \in Nat
          /\ Cardinality(Holders \cup {c}) <= n + 1
      <4>1. /\ IsFiniteSet(Holders \cup {c})
            /\ Cardinality(Holders \cup {c}) = IF c \in Holders THEN n ELSE n + 1
        BY <2>0, FS_AddElement
      <4>. QED  BY <2>0, <4>1
    <3>3. m \in Nat /\ m <= n + 1
      BY <2>0, <3>1, <3>2, FS_Subset, FS_CardinalityType
    <3>4. file["lock"] = NoFile /\ file'["lock"] # NoFile /\ retried' = retried
      BY <2>2, BootstrapAssumption DEF TakesLock, NoFile
    <3>. QED  BY <2>0, <3>3, <3>4 DEF CountInv, HoldersAreCounted
  <2>3. ASSUME NEW c \in Core, BreaksLock(c) PROVE HoldersAreCounted'
    <3>1. Holders' \in SUBSET Holders
      BY <2>3 DEF BreaksLock, Holders
    <3>2. m \in Nat /\ m <= n
      BY <2>0, <3>1, FS_Subset, FS_CardinalityType
    <3>3. c \notin retried /\ retried' = retried \cup {c}
      BY <2>3 DEF BreaksLock, CountInv, RemoverIsNew
    <3>4. Cardinality(retried') = Cardinality(retried) + 1
      BY <2>0, <3>3, FS_AddElement
    <3>5. file["lock"] # NoFile /\ file'["lock"] = NoFile
      BY <2>3 DEF BreaksLock
    <3>. QED  BY <2>0, <3>2, <3>4, <3>5 DEF CountInv, HoldersAreCounted
  <2>4. ASSUME NEW c \in Core, GivesLockUp(c) PROVE HoldersAreCounted'
    <3>1. Holders' \in SUBSET (Holders \ {c}) /\ c \in Holders
      BY <2>4 DEF GivesLockUp, Holders
    <3>2. /\ IsFiniteSet(Holders \ {c})
          /\ Cardinality(Holders \ {c}) = n - 1
      BY <2>0, <3>1, FS_RemoveElement
    <3>3. m \in Nat /\ m <= n - 1
      BY <3>1, <3>2, FS_Subset, FS_CardinalityType
    <3>4. file'["lock"] = NoFile /\ retried' = retried
      BY <2>4 DEF GivesLockUp
    <3>. QED  BY <2>0, <3>3, <3>4 DEF CountInv, HoldersAreCounted
  <2>. QED  BY <1>1, <2>1, <2>2, <2>3, <2>4 DEF LockStep
<1>. QED  BY <1>1, <1>2, <1>3 DEF CountInv

\* Of any number of Cores that start at the same time, die or cannot write, at
\* most one more is past the lock than have removed one they took for stale.
THEOREM RemovalsBound == BootSpec => []RemovalsBoundHolders
<1>1. CountInv => RemovalsBoundHolders
  <2> SUFFICES ASSUME CountInv PROVE RemovalsBoundHolders
    OBVIOUS
  <2>1. Cardinality(Holders) \in Nat /\ Cardinality(retried) \in Nat
    BY HoldersAreFinite, BootstrapAssumption, FS_Subset, FS_CardinalityType
    DEF CountInv, BootTypeOK
  <2>. QED
    BY <2>1 DEF CountInv, HoldersAreCounted, Holders, RemovalsBoundHolders
<1>. QED
  BY <1>1, CountInit, CountNext, PTL DEF BootSpec

\* As long as nobody has removed a lock there is one holder, however many start.
LEMMA NoRemovalOneHolder ==
  ASSUME CountInv, retried = {}, NEW c \in Core, NEW d \in Core, Holds(c), Holds(d)
  PROVE  c = d
<1>1. Cardinality(Holders) <= 1 /\ Cardinality(Holders) \in Nat /\ IsFiniteSet(Holders)
  BY HoldersAreFinite, FS_EmptySet DEF CountInv, HoldersAreCounted
<1>2. c \in Holders /\ d \in Holders
  BY DEF Holders
<1>3. Cardinality(Holders) # 0
  BY <1>1, <1>2, FS_EmptySet
<1>4. \E x : Holders = {x}
  BY <1>1, <1>3, FS_Singleton
<1>. QED  BY <1>2, <1>4

\* Who can take a file from a Core that serves.
LEMMA TakersOfFiles ==
  ASSUME BootTypeOK, [BootNext]_bootVars, NEW c \in Core, NEW f \in Files,
         at[c] = "serve", at'[c] = "serve", file[f] = c, file'[f] # c
  PROVE  \/ \E d \in Core \ {c} : at[d] = "removing" /\ left'[d] # left[d]
         \/ \E d \in Core \ {c} : Holds(d) /\ at[d] \in Starting
         \/ \E d \in Core : at[d] = "remove" /\ at'[d] = "create" /\ d \in retried'
<1> USE DEF Goto, Put, Step
<1>1. file[f] # NoFile /\ file' # file
  BY BootstrapAssumption DEF NoFile
<1>2. ASSUME NEW d \in Core, RemoveFile(d)
      PROVE  d # c /\ at[d] = "removing" /\ left'[d] # left[d]
  <2>1. /\ at[d] = "removing" /\ d # c
        /\ left[d] \in Seq(Files) /\ left[d] # <<>> /\ left'[d] = Tail(left[d])
    BY <1>2 DEF RemoveFile, BootTypeOK
  <2>2. Len(left'[d]) # Len(left[d])
    BY <2>1
  <2>. QED  BY <2>1, <2>2
<1>3. ASSUME NEW d \in Core, CreateLock(d) PROVE FALSE
  BY <1>1, <1>3 DEF CreateLock, BootTypeOK, Files
<1>4. ASSUME NEW d \in Core, WriteToken(d) \/ WritePid(d) \/ UnlinkSocket(d) \/ Bind(d)
      PROVE  d # c /\ Holds(d) /\ at[d] \in Starting
  BY <1>4 DEF WriteToken, WritePid, UnlinkSocket, Bind, Holds, Starting
<1>5. ASSUME NEW d \in Core, RemoveStale(d)
      PROVE  at[d] = "remove" /\ at'[d] = "create" /\ d \in retried'
  BY <1>1, <1>5 DEF RemoveStale, BootTypeOK
<1>. QED
  BY <1>1, <1>2, <1>3, <1>4, <1>5
  DEF BootNext, Acquire, Boot, Finish, Spawn, WriteLock, ReadLock, JudgeLock, Load,
      NetworkEnds, Saved, Finalize, Exit, Die, WriteFails, SaveBreaks, bootVars

HarmOfRemovers ==
  \A c \in Core, f \in Files :
    at[c] = "serve" /\ at'[c] = "serve" /\ file[f] = c /\ file'[f] # c
      => \/ retried' # {}
         \/ \E d \in Core \ {c} : at[d] = "removing" /\ left'[d] # left[d]

\* However many start at the same time, a Core that serves loses no file to one
\* that starts, as long as nobody has removed a lock that was taken for stale.
THEOREM ServersKeepFiles == BootSpec => OnlyRemoversDoHarm
<1>1. ASSUME CountInv, [BootNext]_bootVars PROVE HarmOfRemovers
  <2> SUFFICES ASSUME NEW c \in Core, NEW f \in Files,
                      at[c] = "serve", at'[c] = "serve", file[f] = c, file'[f] # c,
                      retried' = {}
               PROVE  \E d \in Core \ {c} : at[d] = "removing" /\ left'[d] # left[d]
    BY DEF HarmOfRemovers
  <2>1. retried = {}
    BY <1>1, StepOnLock
    DEF CountInv, LockStep, KeepsLock, TakesLock, BreaksLock, GivesLockUp
  <2>2. Holds(c)
    BY DEF Holds, Working
  <2>3. \A d \in Core \ {c} : ~Holds(d)
    BY <1>1, <2>1, <2>2, NoRemovalOneHolder
  <2>. QED  BY <1>1, <2>3, TakersOfFiles DEF CountInv
<1>2. CountInv /\ [BootNext]_bootVars => [HarmOfRemovers]_bootVars
  BY <1>1
<1>. QED
  BY <1>2, CountInit, CountNext, PTL DEF BootSpec, OnlyRemoversDoHarm, HarmOfRemovers

-----------------------------------------------------------------------------
(* Only locks without a holder are removed                                 *)

\* A starter that removes a lock meets nobody who holds it.  One starter at a time
\* keeps to this (OneStarterRemovesStale); two need not.
RemovesStale ==
  \A c \in Core : at[c] = "remove" /\ at'[c] = "create" => \A d \in Core : ~Holds(d)

\* Who holds the lock can be read in the lock file, once it is written.
HolderIsWritten ==
  \A c \in Core : Holds(c) => file["lock"] = c /\ (whole \/ at[c] = "write")

HolderInv == BootTypeOK /\ HolderIsWritten /\ RemovesOnce

LEMMA HolderInit == BootInit => HolderInv
<1> SUFFICES ASSUME BootInit PROVE HolderInv
  OBVIOUS
<1>1. \A c \in Core : ~Holds(c)
  BY DEF BootInit, Holds, Working
<1>2. RemovesOnce
  BY RemovalsAreDistinct DEF BootInit, RemovesOnce
<1>. QED
  BY <1>1, <1>2, TypesInit DEF HolderInv, HolderIsWritten

LEMMA HolderNext ==
  ASSUME HolderInv, [BootNext]_bootVars, RemovesStale
  PROVE  HolderInv'
<1>1. BootTypeOK' /\ RemovesOnce' /\ LockStep
  BY TypesNext, StepOnLock DEF HolderInv
<1>2. ASSUME KeepsLock PROVE HolderIsWritten'
  <2> SUFFICES ASSUME NEW d \in Core, Holds(d)'
               PROVE  file'["lock"] = d /\ (whole' \/ at'[d] = "write")
    BY DEF HolderIsWritten
  <2>1. Holds(d) /\ file["lock"] = d /\ (whole \/ at[d] = "write")
    BY <1>2 DEF KeepsLock, HolderInv, HolderIsWritten
  <2>. QED  BY <1>2, <2>1, Zenon DEF KeepsLock
<1>3. ASSUME NEW c \in Core, TakesLock(c) PROVE HolderIsWritten'
  <2>1. \A d \in Core : ~Holds(d)
    BY <1>3, BootstrapAssumption DEF TakesLock, HolderInv, HolderIsWritten, NoFile
  <2>. QED  BY <1>3, <2>1 DEF TakesLock, HolderIsWritten
<1>4. ASSUME NEW c \in Core, BreaksLock(c) PROVE HolderIsWritten'
  BY <1>4 DEF BreaksLock, RemovesStale, HolderIsWritten
<1>5. ASSUME NEW c \in Core, GivesLockUp(c) PROVE HolderIsWritten'
  <2>1. \A d \in Core : Holds(d) => d = c
    BY <1>5 DEF GivesLockUp, HolderInv, HolderIsWritten
  <2>. QED  BY <1>5, <2>1 DEF GivesLockUp, HolderIsWritten
<1>6. HolderIsWritten'
  BY <1>1, <1>2, <1>3, <1>4, <1>5 DEF HolderInv, LockStep
<1>. QED  BY <1>1, <1>6 DEF HolderInv

LEMMA HolderStep ==
  HolderInv /\ [BootNext]_bootVars /\ [RemovesStale]_bootVars => HolderInv'
<1> SUFFICES ASSUME HolderInv, [BootNext]_bootVars, [RemovesStale]_bootVars
             PROVE  HolderInv'
  OBVIOUS
<1>1. CASE RemovesStale
  BY <1>1, HolderNext
<1>2. CASE UNCHANGED bootVars
  BY <1>2
  DEF bootVars, HolderInv, BootTypeOK, HolderIsWritten, RemovesOnce, Holds
<1>. QED  BY <1>1, <1>2

NoHarm ==
  \A c \in Core, f \in Files :
    at[c] = "serve" /\ at'[c] = "serve" /\ file[f] = c /\ file'[f] # c
      => \E d \in Core \ {c} : at[d] = "removing" /\ left'[d] # left[d]

\* If starters remove no lock that is held, the lock arbitrates and those that
\* start do no harm, however many there are: that removal is the only gap.
LEMMA RemovalIsTheOnlyGap ==
  BootSpec /\ [][RemovesStale]_bootVars => []MutualExclusion /\ StartersDoNoHarm
<1>1. HolderInv => MutualExclusion
  BY DEF HolderInv, HolderIsWritten, MutualExclusion
<1>2. ASSUME HolderInv, [BootNext]_bootVars, RemovesStale PROVE NoHarm
  <2> SUFFICES ASSUME NEW c \in Core, NEW f \in Files,
                      at[c] = "serve", at'[c] = "serve", file[f] = c, file'[f] # c
               PROVE  \E d \in Core \ {c} : at[d] = "removing" /\ left'[d] # left[d]
    BY DEF NoHarm
  <2>1. Holds(c)
    BY DEF Holds, Working
  <2>2. \A d \in Core \ {c} : ~Holds(d)
    BY <1>1, <1>2, <2>1 DEF MutualExclusion
  <2>. QED  BY <1>2, <2>1, <2>2, TakersOfFiles DEF HolderInv, RemovesStale
<1>3. HolderInv /\ [BootNext]_bootVars /\ [RemovesStale]_bootVars => [NoHarm]_bootVars
  BY <1>2
<1>. QED
  BY <1>1, <1>3, HolderInit, HolderStep, PTL DEF BootSpec, StartersDoNoHarm, NoHarm

-----------------------------------------------------------------------------
(* One starter at a time                                                   *)

StartersAlone ==
  \A c, d \in Core : at[c] \in Starting /\ at[d] \in Starting => c = d

\* What a starter has read is still so: a holder may go, but none comes.
ReaderSawHolder == \A c, d \in Core : at[c] = "judge" /\ Holds(d) => saw[c] = d

RemoverMeetsNobody == \A c, d \in Core : at[c] = "remove" => ~Holds(d)

LockInv == HolderInv /\ StartersAlone /\ ReaderSawHolder /\ RemoverMeetsNobody

\* With one starter at a time, who is spawned is alone.
LEMMA SpawnIsAlone ==
  ASSUME BootTypeOK, Starters = 1, NEW c \in Core, Spawn(c)
  PROVE  \A d \in Core : at[d] \notin Starting /\ (at'[d] \in Starting => d = c)
<1> DEFINE S == {d \in Core : at[d] \in Starting}
<1>1. IsFiniteSet(S)
  BY BootstrapAssumption, FS_Subset
<1>2. Cardinality(S) \in Nat /\ Cardinality(S) < 1
  BY <1>1, FS_CardinalityType DEF Spawn
<1>3. S = {}
  BY <1>1, <1>2, FS_EmptySet
<1>. QED  BY <1>3 DEF Spawn, Step, Goto, BootTypeOK

LEMMA LockInvInit == BootInit => LockInv
<1> SUFFICES ASSUME BootInit PROVE LockInv
  OBVIOUS
<1>1. \A c \in Core : at[c] \notin Starting /\ at[c] \notin {"judge", "remove"}
  BY DEF BootInit, Starting
<1>. QED
  BY <1>1, HolderInit
  DEF LockInv, StartersAlone, ReaderSawHolder, RemoverMeetsNobody

LEMMA LockInvNext ==
  ASSUME Starters = 1, LockInv, [BootNext]_bootVars
  PROVE  LockInv' /\ RemovesStale
<1>0. BootTypeOK /\ RemovesOnce
  BY DEF LockInv, HolderInv
<1>1. RemovesStale
  BY DEF LockInv, RemoverMeetsNobody, RemovesStale
<1>2. HolderInv'
  BY <1>1, HolderNext DEF LockInv
<1>3. StartersAlone'
  <2>1. CASE \E c \in Core : Spawn(c)
    BY <1>0, <2>1, SpawnIsAlone DEF StartersAlone
  <2>2. CASE ~\E c \in Core : Spawn(c)
    BY <1>0, <2>2, StepOfStarter DEF LockInv, StartersAlone
  <2>. QED  BY <2>1, <2>2
<1>4. ASSUME NEW c \in Core, at'[c] \in {"judge", "remove"}, NEW d \in Core, Holds(d)'
      PROVE  Holds(d)
  <2> SUFFICES ASSUME ~Holds(d) PROVE FALSE
    OBVIOUS
  <2>1. PICK e \in Core : TakesLock(e)
    BY <1>0, <1>4, StepOnLock DEF LockStep, KeepsLock, BreaksLock, GivesLockUp
  <2>2. e # c /\ at[e] = "create" /\ at[c] = at'[c]
    BY <1>4, <2>1 DEF TakesLock
  <2>. QED  BY <1>4, <2>2 DEF LockInv, StartersAlone, Starting
<1>5. ReaderSawHolder'
  <2> SUFFICES ASSUME NEW c \in Core, NEW d \in Core, at'[c] = "judge", Holds(d)'
               PROVE  saw'[c] = d
    BY DEF ReaderSawHolder
  <2>1. Holds(d)
    BY <1>4
  <2>2. CASE ReadLock(c)
    <3>1. file["lock"] = d /\ (whole \/ at[d] = "write")
      BY <2>1 DEF LockInv, HolderInv, HolderIsWritten
    <3>2. at[d] # "write"
      BY <2>2 DEF ReadLock, LockInv, StartersAlone, Starting
    <3>3. at'[c] = "judge" /\ file["lock"] # NoFile
      BY <3>1, BootstrapAssumption DEF NoFile
    <3>. QED  BY <1>0, <2>2, <3>1, <3>2, <3>3 DEF ReadLock, BootTypeOK
  <2>3. CASE at[c] = "judge" /\ saw'[c] = saw[c]
    BY <2>1, <2>3 DEF LockInv, ReaderSawHolder
  <2>. QED  BY <1>0, <2>2, <2>3, StepOfStarter
<1>6. RemoverMeetsNobody'
  <2> SUFFICES ASSUME NEW c \in Core, NEW d \in Core, at'[c] = "remove", Holds(d)'
               PROVE  FALSE
    BY DEF RemoverMeetsNobody
  <2>1. Holds(d)
    BY <1>4
  <2>2. CASE JudgeLock(c)
    <3>1. ~HeldByLive(c) /\ at[c] = "judge"
      BY <1>0, <2>2 DEF JudgeLock, Goto, BootTypeOK
    <3>2. saw[c] = d /\ saw[c] # Torn
      BY <2>1, <3>1, BootstrapAssumption DEF LockInv, ReaderSawHolder, Torn
    <3>3. alive(d)
      BY <2>1 DEF Holds, alive, Alive, Starting
    <3>. QED  BY <3>1, <3>2, <3>3 DEF HeldByLive
  <2>3. CASE at[c] = "remove"
    BY <2>1, <2>3 DEF LockInv, RemoverMeetsNobody
  <2>. QED  BY <1>0, <2>2, <2>3, StepOfStarter
<1>. QED  BY <1>1, <1>2, <1>3, <1>5, <1>6 DEF LockInv

\* One that starts alone removes no lock that is held, so that what follows from
\* RemovesStale holds of one starter at a time.
LEMMA OneStarterRemovesStale ==
  ASSUME Starters = 1
  PROVE  BootSpec => [][RemovesStale]_bootVars
<1>1. LockInv /\ [BootNext]_bootVars => LockInv' /\ [RemovesStale]_bootVars
  BY LockInvNext
<1>. QED  BY <1>1, LockInvInit, PTL DEF BootSpec

-----------------------------------------------------------------------------
(* Sessions keeps to Bootstrap                                             *)

LEMMA StepsAreBootSteps == [Next]_vars => [BootNext]_bootVars
<1> SUFFICES ASSUME [Next]_vars
             PROVE  [BootNext]_bootVars
  OBVIOUS
<1>1. ASSUME NEW c \in Core, Run(c) PROVE [BootNext]_bootVars
  <2>1. CASE Untouched(Acquire(c) \/ Boot(c) \/ Finish(c))
    BY <2>1 DEF Untouched, BootNext
  <2>2. CASE LoadKnowledge(c)
    BY <2>2 DEF LoadKnowledge, BootNext
  <2>3. CASE Save(c)
    BY <2>3 DEF Save, Merge, Rotate, OpenTmp, FillTmp, RenameTmp, WriteReport
  <2>4. CASE SaveEnds(c)
    BY <2>4 DEF SaveEnds, BootNext
  <2>. QED  BY <1>1, <2>1, <2>2, <2>3, <2>4 DEF Run
<1>2. ASSUME NEW c \in Core, EndNetwork(c) \/ SaveFails(c) \/ DieWith(c)
      PROVE  [BootNext]_bootVars
  BY <1>2 DEF EndNetwork, SaveFails, DieWith, BootNext
<1>3. ASSUME NEW c \in Core, Untouched(Spawn(c) \/ WriteFails(c))
      PROVE  [BootNext]_bootVars
  BY <1>3 DEF Untouched, BootNext
<1>4. ASSUME NEW f \in Kept, Damage(f) PROVE [BootNext]_bootVars
  BY <1>4 DEF Damage
<1>5. CASE UNCHANGED vars
  BY <1>5 DEF vars
<1>. QED
  BY <1>1, <1>2, <1>3, <1>4, <1>5 DEF Next

\* Keeping knowledge and statistics adds no behaviour to the runtime files: all
\* that is proved of BootSpec holds of Spec.
THEOREM SessionsKeepBootstrap == Spec => BootSpec
<1>1. Init => BootInit
  BY DEF Init
<1>. QED
  BY <1>1, StepsAreBootSteps, PTL DEF Spec, BootSpec

-----------------------------------------------------------------------------
(* Type correctness                                                        *)

TaskNames == Kept \cup {"artifacts", "views"}

StoreTypes ==
  /\ disk \in [Kept -> [now : Contents, prev : Contents, tmp : Contents]]
  /\ mem \in [Core -> [Kept -> SUBSET Core]]
  /\ todo \in [Core -> Seq(TaskNames)]
  /\ stage \in [Core -> {"rotate", "open", "fill", "rename"}]
  /\ saved \in [Kept -> SUBSET Core]
  /\ gap \subseteq Kept
  /\ damages \in 0 .. MaxDamages

\* A process that is not saving has nothing to do, and only a file that is kept
\* is written in stages.
TasksInv ==
  /\ \A c \in Core : at[c] # "save" => todo[c] = <<>>
  /\ \A c \in Core : todo[c] = <<>> => stage[c] = "rotate"
  /\ \A c \in Core : stage[c] # "rotate" => Head(todo[c]) \in Kept

LEMMA TaskLists == Tasks \in Seq(TaskNames) /\ StatsTasks \in Seq(TaskNames) /\ Tasks # <<>>
<1>1. StatsTasks \in Seq(TaskNames)
  BY DEF StatsTasks, TaskNames, Kept
<1>2. <<"hotzones", "coupling">> \in Seq(TaskNames) /\ Len(<<"hotzones", "coupling">>) = 2
  BY DEF TaskNames, Kept
<1>3. Tasks \in Seq(TaskNames) /\ Len(Tasks) = 2 + Len(StatsTasks)
  BY <1>1, <1>2 DEF Tasks
<1>. QED  BY <1>1, <1>3

LEMMA ContentsHold ==
  /\ Nothing \in Contents /\ Half \in Contents /\ Garbage \in Contents
  /\ \A S \in SUBSET Core : Content(S) \in Contents
  /\ \A x \in Contents : x.of \in SUBSET Core
  /\ \A x \in Contents : x.state \in {"half", "garbage"} => x.of = {}
  /\ \A S : Content(S).of = S /\ Content(S) # Half
  /\ Nothing.of = {} /\ Half.of = {} /\ Garbage.of = {}
  /\ Nothing # Half /\ Garbage # Half
<1>1. /\ Nothing \in Contents /\ Half \in Contents /\ Garbage \in Contents
      /\ \A S \in SUBSET Core : Content(S) \in Contents
  BY DEF Contents
<1>2. /\ Nothing.of = {} /\ Half.of = {} /\ Garbage.of = {}
      /\ \A S : Content(S).of = S /\ Content(S).state = "good"
      /\ Nothing.state = "absent" /\ Half.state = "half" /\ Garbage.state = "garbage"
  BY DEF Nothing, Half, Garbage, Content
<1>3. \A x \in Contents : x \in {Nothing, Half, Garbage} \/ \E S \in SUBSET Core : x = Content(S)
  BY DEF Contents
<1>4. /\ \A x \in Contents : x.of \in SUBSET Core
      /\ \A x \in Contents : x.state \in {"half", "garbage"} => x.of = {}
  BY <1>2, <1>3
<1>5. Nothing # Half /\ Garbage # Half /\ \A S : Content(S) # Half
  BY <1>2
<1>. QED
  BY <1>1, <1>2, <1>4, <1>5

LEMMA QuarantineKeepsTypes ==
  ASSUME StoreTypes, NEW S
  PROVE  /\ Quarantined(S) \in [Kept -> [now : Contents, prev : Contents, tmp : Contents]]
         /\ \A f \in Kept : /\ Quarantined(S)[f].tmp = disk[f].tmp
                            /\ Quarantined(S)[f].prev = disk[f].prev
                            /\ \/ Quarantined(S)[f].now = disk[f].now
                               \/ Quarantined(S)[f].now = Nothing /\ disk[f].now.of = {}
         /\ \A f \in Kept : Parsed(f) \in SUBSET Core
<1>1. \A f \in Kept : /\ disk[f] \in [now : Contents, prev : Contents, tmp : Contents]
                      /\ disk[f].now \in Contents
  BY DEF StoreTypes
<1>2. \A f \in Kept : /\ [disk[f] EXCEPT !.now = Nothing] \in [now : Contents, prev : Contents, tmp : Contents]
                      /\ [disk[f] EXCEPT !.now = Nothing].now = Nothing
                      /\ [disk[f] EXCEPT !.now = Nothing].prev = disk[f].prev
                      /\ [disk[f] EXCEPT !.now = Nothing].tmp = disk[f].tmp
  BY <1>1, ContentsHold
<1>. QED
  BY <1>1, <1>2, ContentsHold DEF Quarantined, Parsed

LEMMA TodoFacts ==
  ASSUME StoreTypes, TasksInv, NEW c \in Core, todo[c] # <<>>
  PROVE  /\ at[c] = "save"
         /\ todo[c] \in Seq(TaskNames)
         /\ Now(c) \in TaskNames
         /\ Tail(todo[c]) \in Seq(TaskNames)
  BY DEF StoreTypes, TasksInv, Now

LEMMA StoreInit == Init => StoreTypes /\ TasksInv
<1> SUFFICES ASSUME Init PROVE StoreTypes /\ TasksInv
  OBVIOUS
<1>1. disk \in [Kept -> [now : Contents, prev : Contents, tmp : Contents]]
  BY ContentsHold DEF Init
<1>2. todo \in [Core -> Seq(TaskNames)]
  BY DEF Init
<1>3. TasksInv
  BY DEF Init, TasksInv
<1>. QED
  BY <1>1, <1>2, <1>3, SessionsAssumption DEF Init, StoreTypes

\* The types and the task lists, one action after the other.
LEMMA StoreNext ==
  ASSUME BootTypeOK, StoreTypes, TasksInv, [Next]_vars
  PROVE  StoreTypes' /\ TasksInv'
<1> USE DEF Goto, Put, Step, Turn, Doing
<1>1. ASSUME NEW c \in Core, Untouched(Acquire(c) \/ Boot(c) \/ Finish(c) \/ Spawn(c) \/ WriteFails(c))
      PROVE  StoreTypes' /\ TasksInv'
  <2>1. UNCHANGED storeVars /\ at[c] # "save" /\ \A d \in Core \ {c} : at'[d] = at[d]
    BY <1>1
    DEF Untouched, Acquire, CreateLock, WriteLock, ReadLock, JudgeLock, RemoveStale, Boot,
        WriteToken, WritePid, UnlinkSocket, Bind, Finish, Finalize, RemoveFile, Exit, Spawn,
        WriteFails, BootTypeOK
  <2>2. StoreTypes'
    BY <2>1 DEF storeVars, StoreTypes
  <2>3. TasksInv'
    BY <2>1 DEF storeVars, TasksInv
  <2>. QED  BY <2>2, <2>3
<1>2. ASSUME NEW c \in Core, LoadKnowledge(c) PROVE StoreTypes' /\ TasksInv'
  <2>1. mem' \in [Core -> [Kept -> SUBSET Core]]
    <3>1. [f \in Kept |-> IF f \in Knowledge THEN Parsed(f) ELSE {}] \in [Kept -> SUBSET Core]
      BY QuarantineKeepsTypes
    <3>. QED  BY <1>2, <3>1 DEF LoadKnowledge, StoreTypes
  <2>2. StoreTypes'
    BY <1>2, <2>1, QuarantineKeepsTypes DEF LoadKnowledge, StoreTypes
  <2>3. TasksInv'
    BY <1>2 DEF LoadKnowledge, Load, TasksInv, BootTypeOK
  <2>. QED  BY <2>2, <2>3
<1>3. ASSUME NEW c \in Core, EndNetwork(c) PROVE StoreTypes' /\ TasksInv'
  <2>1. mem' \in [Core -> [Kept -> SUBSET Core]]
    <3>1. [f \in Kept |-> IF f \in Knowledge THEN mem[c][f] \cup {c} ELSE {}] \in [Kept -> SUBSET Core]
      BY DEF StoreTypes
    <3>. QED  BY <1>3, <3>1 DEF EndNetwork, StoreTypes
  <2>2. StoreTypes'
    BY <1>3, <2>1, TaskLists DEF EndNetwork, StoreTypes
  <2>3. /\ at[c] = "serve" /\ at'[c] = "save" /\ todo'[c] = Tasks
        /\ stage' = stage
        /\ \A d \in Core \ {c} : at'[d] = at[d] /\ todo'[d] = todo[d]
    BY <1>3 DEF EndNetwork, NetworkEnds, BootTypeOK, StoreTypes
  <2>4. stage[c] = "rotate"
    BY <2>3 DEF TasksInv
  <2>5. TasksInv'
    BY <2>3, <2>4, TaskLists DEF TasksInv
  <2>. QED  BY <2>2, <2>5
<1>4. ASSUME NEW c \in Core, Merge(c) PROVE StoreTypes' /\ TasksInv'
  <2>1. mem' \in [Core -> [Kept -> SUBSET Core]]
    <3>1. Parsed("profiles") \cup {c} \in SUBSET Core
      BY QuarantineKeepsTypes DEF Kept
    <3>2. [mem[c] EXCEPT !["profiles"] = Parsed("profiles") \cup {c}] \in [Kept -> SUBSET Core]
      BY <3>1 DEF StoreTypes
    <3>. QED  BY <1>4, <3>2 DEF Merge, StoreTypes
  <2>2. StoreTypes'
    BY <1>4, <2>1, QuarantineKeepsTypes DEF Merge, StoreTypes
  <2>3. TasksInv'
    BY <1>4 DEF Merge, bootVars, TasksInv
  <2>. QED  BY <2>2, <2>3
<1>5. ASSUME NEW c \in Core, Rotate(c) \/ OpenTmp(c) \/ FillTmp(c) PROVE StoreTypes' /\ TasksInv'
  <2>1. /\ todo[c] # <<>> /\ UNCHANGED <<at, mem, todo, saved, gap, damages>>
        /\ \E s \in {"open", "fill", "rename"} : stage' = [stage EXCEPT ![c] = s]
        /\ Now(c) \in Kept
    BY <1>5 DEF Rotate, OpenTmp, FillTmp, bootVars, TasksInv, Now
  <2>2. disk' \in [Kept -> [now : Contents, prev : Contents, tmp : Contents]]
    <3>1. /\ disk[Now(c)] \in [now : Contents, prev : Contents, tmp : Contents]
          /\ Content(mem[c][Now(c)]) \in Contents
      BY <2>1, ContentsHold DEF StoreTypes
    <3>2. CASE Rotate(c)
      BY <2>1, <3>1, <3>2, ContentsHold DEF Rotate, StoreTypes
    <3>3. CASE OpenTmp(c)
      BY <2>1, <3>1, <3>3, ContentsHold DEF OpenTmp, StoreTypes
    <3>4. CASE FillTmp(c)
      BY <2>1, <3>1, <3>4, ContentsHold DEF FillTmp, StoreTypes
    <3>. QED  BY <1>5, <3>2, <3>3, <3>4
  <2>3. StoreTypes'
    BY <2>1, <2>2 DEF StoreTypes
  <2>4. TasksInv'
    BY <2>1 DEF TasksInv, StoreTypes, Now
  <2>. QED  BY <2>3, <2>4
<1>6. ASSUME NEW c \in Core, RenameTmp(c) PROVE StoreTypes' /\ TasksInv'
  <2>1. todo[c] # <<>> /\ at[c] = "save" /\ at' = at /\ Now(c) \in Kept
    BY <1>6 DEF RenameTmp, bootVars, TasksInv, Now
  <2>2. disk' \in [Kept -> [now : Contents, prev : Contents, tmp : Contents]]
    <3>1. disk[Now(c)] \in [now : Contents, prev : Contents, tmp : Contents]
      BY <2>1 DEF StoreTypes
    <3>. QED  BY <1>6, <2>1, <3>1, ContentsHold DEF RenameTmp, StoreTypes
  <2>3. saved' \in [Kept -> SUBSET Core]
    BY <1>6, <2>1 DEF RenameTmp, StoreTypes
  <2>4. todo' \in [Core -> Seq(TaskNames)]
    BY <1>6, <2>1, TodoFacts DEF RenameTmp, StoreTypes
  <2>5. StoreTypes'
    BY <1>6, <2>2, <2>3, <2>4 DEF RenameTmp, StoreTypes
  <2>6. TasksInv'
    BY <1>6, <2>1 DEF RenameTmp, TasksInv, StoreTypes
  <2>. QED  BY <2>5, <2>6
<1>7. ASSUME NEW c \in Core, WriteReport(c) PROVE StoreTypes' /\ TasksInv'
  <2>1. todo' \in [Core -> Seq(TaskNames)]
    BY <1>7, TodoFacts DEF WriteReport, StoreTypes
  <2>2. StoreTypes'
    BY <1>7, <2>1 DEF WriteReport, StoreTypes
  <2>3. TasksInv'
    BY <1>7 DEF WriteReport, bootVars, TasksInv, StoreTypes
  <2>. QED  BY <2>2, <2>3
<1>8. ASSUME NEW c \in Core, SaveEnds(c) PROVE StoreTypes' /\ TasksInv'
  <2>1. StoreTypes'
    BY <1>8 DEF SaveEnds, StoreTypes
  <2>2. TasksInv'
    BY <1>8 DEF SaveEnds, Saved, TasksInv, BootTypeOK
  <2>. QED  BY <2>1, <2>2
<1>9. ASSUME NEW c \in Core, SaveFails(c) PROVE StoreTypes' /\ TasksInv'
  <2>1. gap' \subseteq Kept
    BY <1>9 DEF SaveFails, Broken, StoreTypes
  <2>2. /\ todo' \in [Core -> Seq(TaskNames)]
        /\ stage' \in [Core -> {"rotate", "open", "fill", "rename"}]
    BY <1>9, TaskLists DEF SaveFails, StoreTypes
  <2>3. StoreTypes'
    BY <1>9, <2>1, <2>2 DEF SaveFails, StoreTypes
  <2>4. TasksInv'
    BY <1>9 DEF SaveFails, SaveBreaks, TasksInv, StoreTypes
  <2>. QED  BY <2>3, <2>4
<1>10. ASSUME NEW c \in Core, DieWith(c) PROVE StoreTypes' /\ TasksInv'
  <2>1. gap' \subseteq Kept
    BY <1>10 DEF DieWith, Broken, StoreTypes
  <2>2. /\ todo' \in [Core -> Seq(TaskNames)]
        /\ stage' \in [Core -> {"rotate", "open", "fill", "rename"}]
        /\ mem' \in [Core -> [Kept -> SUBSET Core]]
    BY <1>10 DEF DieWith, StoreTypes
  <2>3. StoreTypes'
    BY <1>10, <2>1, <2>2 DEF DieWith, StoreTypes
  <2>4. TasksInv'
    BY <1>10 DEF DieWith, Die, TasksInv, StoreTypes, BootTypeOK
  <2>. QED  BY <2>3, <2>4
<1>11. ASSUME NEW f \in Kept, Damage(f) PROVE StoreTypes' /\ TasksInv'
  <2>1. disk' \in [Kept -> [now : Contents, prev : Contents, tmp : Contents]]
    BY <1>11, ContentsHold DEF Damage, StoreTypes
  <2>2. saved' \in [Kept -> SUBSET Core] /\ gap' \subseteq Kept /\ damages' \in 0 .. MaxDamages
    BY <1>11, SessionsAssumption DEF Damage, StoreTypes
  <2>3. StoreTypes'
    BY <1>11, <2>1, <2>2 DEF Damage, StoreTypes
  <2>4. TasksInv'
    BY <1>11 DEF Damage, bootVars, TasksInv
  <2>. QED  BY <2>3, <2>4
<1>12. CASE UNCHANGED vars
  BY <1>12 DEF vars, bootVars, storeVars, StoreTypes, TasksInv
<1>. QED
  BY <1>1, <1>2, <1>3, <1>4, <1>5, <1>6, <1>7, <1>8, <1>9, <1>10, <1>11, <1>12
  DEF Next, Run, Save, Untouched

\* Every reachable state has its shape, for every number of Cores and faults.
THEOREM StoreTypeCorrect == Spec => []TypeOK
<1>1. Init => BootTypeOK
  BY TypesInit DEF Init
<1>2. BootTypeOK /\ [Next]_vars => BootTypeOK'
  BY StepsAreBootSteps, TypesNext
<1>3. BootTypeOK /\ StoreTypes /\ TasksInv => TypeOK
  BY DEF StoreTypes, TaskNames, TypeOK
<1>. QED
  BY <1>1, <1>2, <1>3, StoreInit, StoreNext, PTL DEF Spec

-----------------------------------------------------------------------------
(* What is saved is kept                                                   *)

\* c is replacing f: the old file has been moved away.
Replacing(c, f) == at[c] = "save" /\ todo[c] # <<>> /\ Now(c) = f /\ stage[c] # "rotate"

\* The last good save is in its place, or nothing is and it is the spare.
SaveIsThere ==
  \A f \in Kept :
    saved[f] # {} => \/ disk[f].now.of = saved[f]
                     \/ disk[f].now = Nothing /\ disk[f].prev.of = saved[f]

\* While a file is replaced nothing is in its place; what is going to be put
\* there is whole, and for the profiles it has been merged.
ReplacementIsWhole ==
  \A c \in Core, f \in Kept : Replacing(c, f) =>
    /\ disk[f].now = Nothing
    /\ stage[c] = "rename" => disk[f].tmp = Content(mem[c][f])
    /\ f = "profiles" => c \in mem[c][f]

NoHalves == \A f \in Kept : disk[f].now # Half /\ disk[f].prev # Half

\* Unless it was lost, what was saved can be read, but while it is replaced.
SaveIsReadable ==
  \A f \in Kept \ gap :
    saved[f] = {} \/ disk[f].now.of = saved[f] \/ \E c \in Core : Replacing(c, f)

\* What c has read, and will write, of f.
HasRead(c, f) ==
  \/ at[c] \in {"serve", "save"} /\ f \in Knowledge
  \/ at[c] = "save" /\ f = "profiles" /\ c \in mem[c][f]

MemoryIsComplete ==
  \A c \in Core, f \in Kept \ gap : HasRead(c, f) => saved[f] \subseteq mem[c][f]

StoreInv ==
  /\ HolderInv /\ StoreTypes /\ TasksInv
  /\ SaveIsThere /\ ReplacementIsWhole /\ NoHalves
  /\ SaveIsReadable /\ MemoryIsComplete

\* Who loads, serves or saves does so alone.
LEMMA OneAtWork ==
  ASSUME HolderInv
  PROVE  \A c, d \in Core : at[c] \in {"load", "serve", "save"} /\ at[d] \in {"load", "serve", "save"}
                              => c = d
  BY DEF HolderInv, HolderIsWritten, Holds, Working

Remembers ==
  \A f \in Kept \ (gap \cup gap') : saved[f] \subseteq saved'[f]

StoreRest ==
  SaveIsThere /\ ReplacementIsWhole /\ NoHalves /\ SaveIsReadable /\ MemoryIsComplete

LEMMA StoreRestInit == Init => StoreRest
<1> SUFFICES ASSUME Init PROVE StoreRest
  OBVIOUS
<1>1. \A f \in Kept : /\ disk[f].now = Nothing /\ disk[f].prev = Nothing
                      /\ saved[f] = {}
  BY DEF Init
<1>2. \A c \in Core : at[c] = "off" /\ todo[c] = <<>>
  BY DEF Init, BootInit
<1>. QED
  BY <1>1, <1>2, ContentsHold
  DEF StoreRest, SaveIsThere, ReplacementIsWhole, NoHalves, SaveIsReadable,
      MemoryIsComplete, Replacing, HasRead

\* A step of the runtime files that neither begins nor ends a session's work.
LEMMA BootStepKeepsStore ==
  ASSUME StoreInv, UNCHANGED storeVars, NEW c \in Core,
         \A d \in Core \ {c} : at'[d] = at[d],
         at[c] # "save", at'[c] \notin {"serve", "save"}
  PROVE  StoreRest'
<1>1. \A d \in Core, f \in Kept : /\ Replacing(d, f)' <=> Replacing(d, f)
                                  /\ HasRead(d, f)' => HasRead(d, f)
  BY DEF storeVars, Replacing, HasRead, Now
<1>. QED
  BY <1>1
  DEF storeVars, StoreInv, StoreRest, SaveIsThere, ReplacementIsWhole, NoHalves,
      SaveIsReadable, MemoryIsComplete

LEMMA StoreRestNext ==
  ASSUME StoreInv, StoreTypes', [Next]_vars
  PROVE  StoreRest' /\ (Remembers \/ UNCHANGED vars)
<1> USE DEF Goto, Put, Step, Turn, Doing
<1>. BootTypeOK /\ StoreTypes /\ TasksInv
  BY DEF StoreInv, HolderInv
<1>0. \A c, d \in Core : at[c] \in {"load", "serve", "save"} /\ at[d] \in {"load", "serve", "save"}
                            => c = d
  BY OneAtWork DEF StoreInv
<1> DEFINE Quiet == saved' = saved
<1>q. Quiet => Remembers
  BY DEF Remembers
<1>1. ASSUME NEW c \in Core, Untouched(Acquire(c) \/ Boot(c) \/ Finish(c) \/ Spawn(c) \/ WriteFails(c))
      PROVE  StoreRest' /\ Quiet
  <2>1. /\ UNCHANGED storeVars /\ at[c] # "save" /\ at'[c] \notin {"serve", "save"}
        /\ \A d \in Core \ {c} : at'[d] = at[d]
    BY <1>1
    DEF Untouched, Acquire, CreateLock, WriteLock, ReadLock, JudgeLock, RemoveStale, Boot,
        WriteToken, WritePid, UnlinkSocket, Bind, Finish, Finalize, RemoveFile, Exit, Spawn,
        WriteFails, BootTypeOK
  <2>. QED  BY <2>1, BootStepKeepsStore DEF storeVars
<1>2. ASSUME NEW c \in Core, LoadKnowledge(c) PROVE StoreRest' /\ Quiet
  <2>1. /\ at[c] = "load" /\ at'[c] = "serve"
        /\ \A d \in Core \ {c} : at'[d] = at[d] /\ mem'[d] = mem[d]
        /\ \A d \in Core \ {c} : at[d] \notin {"load", "serve", "save"}
        /\ UNCHANGED <<todo, stage, saved, gap>>
        /\ \A f \in Knowledge : mem'[c][f] = Parsed(f)
    BY <1>0, <1>2 DEF LoadKnowledge, Load, BootTypeOK, StoreTypes, Knowledge, Kept
  <2>2. \A f \in Kept : /\ disk'[f].tmp = disk[f].tmp /\ disk'[f].prev = disk[f].prev
                        /\ \/ disk'[f].now = disk[f].now
                           \/ disk'[f].now = Nothing /\ disk[f].now.of = {}
    BY <1>2, QuarantineKeepsTypes DEF LoadKnowledge
  <2>3. \A d \in Core, f \in Kept : ~Replacing(d, f) /\ ~Replacing(d, f)'
    BY <2>1 DEF Replacing
  <2>4. SaveIsThere'
    BY <2>1, <2>2 DEF StoreInv, SaveIsThere
  <2>5. NoHalves'
    BY <2>2, ContentsHold DEF StoreInv, NoHalves
  <2>6. ReplacementIsWhole'
    BY <2>3 DEF ReplacementIsWhole
  <2>7. \A f \in Kept \ gap : saved[f] = {} \/ disk[f].now.of = saved[f]
    BY <2>3 DEF StoreInv, SaveIsReadable
  <2>8. SaveIsReadable'
    BY <2>1, <2>2, <2>7 DEF SaveIsReadable
  <2>9. \A d \in Core, f \in Kept : HasRead(d, f)' => d = c /\ f \in Knowledge
    BY <2>1 DEF HasRead
  <2>10. MemoryIsComplete'
    BY <2>1, <2>7, <2>9 DEF MemoryIsComplete, Parsed
  <2>. QED  BY <2>1, <2>4, <2>5, <2>6, <2>8, <2>10 DEF StoreRest
<1>3. ASSUME NEW c \in Core, EndNetwork(c) PROVE StoreRest' /\ Quiet
  <2>1. /\ at[c] = "serve" /\ at'[c] = "save" /\ stage[c] = "rotate"
        /\ \A d \in Core \ {c} : at'[d] = at[d] /\ mem'[d] = mem[d] /\ todo'[d] = todo[d]
        /\ UNCHANGED <<disk, stage, saved, gap>>
        /\ \A f \in Knowledge : mem'[c][f] = mem[c][f] \cup {c}
        /\ mem'[c]["profiles"] = {}
    BY <1>3 DEF EndNetwork, NetworkEnds, BootTypeOK, StoreTypes, TasksInv, Knowledge, Kept
  <2>2. \A d \in Core, f \in Kept : Replacing(d, f)' => Replacing(d, f) /\ d # c
    BY <2>1 DEF Replacing, Now
  <2>3. \A d \in Core, f \in Kept : Replacing(d, f) => Replacing(d, f)'
    BY <2>1 DEF Replacing, Now
  <2>4. \A d \in Core, f \in Kept : HasRead(d, f)' => /\ HasRead(d, f)
                                                      /\ mem[d][f] \subseteq mem'[d][f]
    BY <2>1 DEF HasRead
  <2>. QED
    BY <2>1, <2>2, <2>3, <2>4
    DEF StoreInv, StoreRest, SaveIsThere, ReplacementIsWhole, NoHalves, SaveIsReadable,
        MemoryIsComplete
<1>4. ASSUME NEW c \in Core, Merge(c) PROVE StoreRest' /\ Quiet
  <2>1. /\ at[c] = "save" /\ at' = at /\ stage[c] = "rotate" /\ todo[c] # <<>>
        /\ \A d \in Core \ {c} : mem'[d] = mem[d] /\ at[d] # "save"
        /\ \A f \in Knowledge : mem'[c][f] = mem[c][f]
        /\ mem'[c]["profiles"] = Parsed("profiles") \cup {c}
        /\ UNCHANGED <<todo, stage, saved, gap>>
    BY <1>0, <1>4 DEF Merge, bootVars, StoreTypes, Knowledge, Kept
  <2>2. \A f \in Kept : /\ disk'[f].tmp = disk[f].tmp /\ disk'[f].prev = disk[f].prev
                        /\ \/ disk'[f].now = disk[f].now
                           \/ disk'[f].now = Nothing /\ disk[f].now.of = {}
    BY <1>4, QuarantineKeepsTypes DEF Merge
  <2>3. \A d \in Core, f \in Kept : ~Replacing(d, f) /\ ~Replacing(d, f)'
    BY <2>1 DEF Replacing
  <2>4. SaveIsThere'
    BY <2>1, <2>2 DEF StoreInv, SaveIsThere
  <2>5. NoHalves'
    BY <2>2, ContentsHold DEF StoreInv, NoHalves
  <2>6. ReplacementIsWhole'
    BY <2>3 DEF ReplacementIsWhole
  <2>7. \A f \in Kept \ gap : saved[f] = {} \/ disk[f].now.of = saved[f]
    BY <2>3 DEF StoreInv, SaveIsReadable
  <2>8. SaveIsReadable'
    BY <2>1, <2>2, <2>7 DEF SaveIsReadable
  <2>9. ASSUME NEW d \in Core, NEW f \in Kept \ gap, HasRead(d, f)'
        PROVE  saved[f] \subseteq mem'[d][f]
    <3>1. CASE d = c /\ f = "profiles"
      BY <2>1, <2>7, <3>1 DEF Parsed
    <3>2. CASE ~(d = c /\ f = "profiles")
      BY <2>1, <2>9, <3>2 DEF HasRead, StoreInv, MemoryIsComplete, Kept, Knowledge
    <3>. QED  BY <3>1, <3>2
  <2>10. MemoryIsComplete'
    BY <2>1, <2>9 DEF MemoryIsComplete
  <2>. QED  BY <2>1, <2>4, <2>5, <2>6, <2>8, <2>10 DEF StoreRest
<1>5. ASSUME NEW c \in Core, Rotate(c) \/ OpenTmp(c) \/ FillTmp(c) PROVE StoreRest' /\ Quiet
  <2>. PICK f \in Kept : f = Now(c)
    BY <1>5 DEF Rotate, OpenTmp, FillTmp, TasksInv, Now
  <2>1. /\ at[c] = "save" /\ todo[c] # <<>>
        /\ \A d \in Core \ {c} : at[d] # "save" /\ stage'[d] = stage[d]
        /\ UNCHANGED <<at, mem, todo, saved, gap>>
        /\ stage'[c] \in {"open", "fill", "rename"}
        /\ f = "profiles" => c \in mem[c][f]
    BY <1>0, <1>5
    DEF Rotate, OpenTmp, FillTmp, bootVars, StoreTypes, TasksInv, Now, StoreInv,
        ReplacementIsWhole, Replacing
  <2>2. \A g \in Kept \ {f} : disk'[g] = disk[g]
    BY <1>5, <2>1 DEF Rotate, OpenTmp, FillTmp, StoreTypes
  <2>3. /\ disk'[f].now = Nothing
        /\ \/ disk[f].now = Nothing /\ disk'[f].prev = disk[f].prev
           \/ disk[f].now # Nothing /\ disk'[f].prev = disk[f].now
    <3>1. CASE Rotate(c)
      BY <2>1, <3>1 DEF Rotate, StoreTypes
    <3>2. CASE OpenTmp(c) \/ FillTmp(c)
      <4>1. Replacing(c, f)
        BY <2>1, <3>2 DEF OpenTmp, FillTmp, Replacing
      <4>. QED
        BY <2>1, <3>2, <4>1 DEF OpenTmp, FillTmp, StoreTypes, StoreInv, ReplacementIsWhole
    <3>. QED  BY <1>5, <3>1, <3>2
  <2>4. stage'[c] = "rename" => disk'[f].tmp = Content(mem[c][f])
    BY <1>5, <2>1 DEF Rotate, OpenTmp, FillTmp, StoreTypes
  <2>5. \A d \in Core, g \in Kept : /\ Replacing(d, g)' => d = c /\ g = f
                                    /\ Replacing(d, g) => Replacing(d, g)'
                                    /\ Replacing(c, f)'
    BY <2>1 DEF Replacing, Now
  <2>6. SaveIsThere'
    <3> SUFFICES ASSUME NEW g \in Kept, saved[g] # {}
                 PROVE  \/ disk'[g].now.of = saved[g]
                        \/ disk'[g].now = Nothing /\ disk'[g].prev.of = saved[g]
      BY <2>1 DEF SaveIsThere
    <3>1. \/ disk[g].now.of = saved[g]
          \/ disk[g].now = Nothing /\ disk[g].prev.of = saved[g]
      BY DEF StoreInv, SaveIsThere
    <3>2. Nothing.of = {}
      BY ContentsHold
    <3>3. CASE g = f
      BY <2>3, <3>1, <3>2, <3>3
    <3>4. CASE g # f
      BY <2>2, <3>1, <3>4
    <3>. QED  BY <3>3, <3>4
  <2>7. ReplacementIsWhole'
    BY <2>1, <2>3, <2>4, <2>5 DEF ReplacementIsWhole
  <2>8. NoHalves'
    BY <2>2, <2>3, ContentsHold DEF StoreInv, NoHalves
  <2>9. SaveIsReadable'
    <3>1. ASSUME NEW g \in Kept \ gap
          PROVE  saved[g] = {} \/ disk'[g].now.of = saved[g] \/ \E d \in Core : Replacing(d, g)'
      <4>1. CASE g = f
        BY <2>5, <4>1
      <4>2. CASE g # f
        <5>1. saved[g] = {} \/ disk[g].now.of = saved[g] \/ \E d \in Core : Replacing(d, g)
          BY DEF StoreInv, SaveIsReadable
        <5>. QED  BY <2>2, <2>5, <4>2, <5>1
      <4>. QED  BY <4>1, <4>2
    <3>. QED
      BY <2>1, <3>1 DEF SaveIsReadable
  <2>10. MemoryIsComplete'
    BY <2>1 DEF StoreInv, MemoryIsComplete, HasRead
  <2>. QED  BY <2>1, <2>6, <2>7, <2>8, <2>9, <2>10 DEF StoreRest
<1>6. ASSUME NEW c \in Core, RenameTmp(c) PROVE StoreRest' /\ Remembers
  <2>. PICK f \in Kept : f = Now(c)
    BY <1>6 DEF RenameTmp, TasksInv, Now
  <2>1. /\ Replacing(c, f) /\ stage[c] = "rename" /\ stage'[c] = "rotate"
        /\ \A d \in Core \ {c} : /\ at[d] \notin {"serve", "save"}
                                 /\ stage'[d] = stage[d] /\ todo'[d] = todo[d]
        /\ UNCHANGED <<at, mem>>
        /\ gap' = gap \ {f}
        /\ saved' = [saved EXCEPT ![f] = mem[c][f]]
    BY <1>0, <1>6
    DEF RenameTmp, bootVars, StoreTypes, TasksInv, Now, Replacing
  <2>2. /\ disk[f].tmp = Content(mem[c][f])
        /\ f = "profiles" => c \in mem[c][f]
    BY <2>1 DEF StoreInv, ReplacementIsWhole
  <2>3. /\ \A g \in Kept \ {f} : disk'[g] = disk[g] /\ saved'[g] = saved[g]
        /\ disk'[f].now = Content(mem[c][f]) /\ disk'[f].prev = disk[f].prev
        /\ saved'[f] = mem[c][f]
    BY <1>6, <2>1, <2>2 DEF RenameTmp, StoreTypes
  <2>4. \A d \in Core, g \in Kept : /\ ~Replacing(d, g)'
                                    /\ Replacing(d, g) => d = c /\ g = f
    BY <2>1 DEF Replacing, Now
  <2>5. SaveIsThere' /\ NoHalves'
    BY <2>3, ContentsHold DEF StoreInv, SaveIsThere, NoHalves
  <2>6. ReplacementIsWhole'
    BY <2>4 DEF ReplacementIsWhole
  <2>7. SaveIsReadable'
    BY <2>1, <2>3, <2>4, ContentsHold DEF StoreInv, SaveIsReadable
  <2>8. \A d \in Core, g \in Kept : /\ HasRead(d, g)' => HasRead(d, g) /\ d = c
                                    /\ HasRead(c, f)
    BY <2>1, <2>2 DEF HasRead, Replacing, Kept, Knowledge
  <2>9. MemoryIsComplete'
    BY <2>1, <2>3, <2>8 DEF StoreInv, MemoryIsComplete
  <2>10. Remembers
    BY <2>1, <2>3, <2>8 DEF StoreInv, MemoryIsComplete, Remembers
  <2>. QED  BY <2>5, <2>6, <2>7, <2>9, <2>10 DEF StoreRest
<1>7. ASSUME NEW c \in Core, WriteReport(c) PROVE StoreRest' /\ Quiet
  <2>1. /\ stage[c] = "rotate"
        /\ UNCHANGED <<at, disk, mem, stage, saved, gap>>
        /\ \A d \in Core \ {c} : todo'[d] = todo[d]
    BY <1>7 DEF WriteReport, bootVars, StoreTypes
  <2>2. \A d \in Core, f \in Kept : /\ Replacing(d, f)' <=> Replacing(d, f)
                                    /\ HasRead(d, f)' <=> HasRead(d, f)
    BY <2>1 DEF Replacing, HasRead, Now
  <2>. QED
    BY <2>1, <2>2
    DEF StoreInv, StoreRest, SaveIsThere, ReplacementIsWhole, NoHalves, SaveIsReadable,
        MemoryIsComplete
<1>8. ASSUME NEW c \in Core, SaveEnds(c) PROVE StoreRest' /\ Quiet
  <2>1. /\ at[c] = "save" /\ at'[c] = "final" /\ todo[c] = <<>>
        /\ UNCHANGED <<disk, todo, stage, saved, gap>>
        /\ \A d \in Core \ {c} : at'[d] = at[d] /\ mem'[d] = mem[d]
    BY <1>8 DEF SaveEnds, Saved, StoreTypes, BootTypeOK
  <2>2. \A d \in Core, f \in Kept : /\ Replacing(d, f)' <=> Replacing(d, f)
                                    /\ Replacing(d, f)' => d # c
                                    /\ HasRead(d, f)' => HasRead(d, f) /\ d # c
    BY <2>1 DEF Replacing, HasRead, Now
  <2>. QED
    BY <2>1, <2>2
    DEF StoreInv, StoreRest, SaveIsThere, ReplacementIsWhole, NoHalves, SaveIsReadable,
        MemoryIsComplete
<1>9. ASSUME NEW c \in Core, SaveFails(c) \/ DieWith(c) PROVE StoreRest' /\ Quiet
  <2>1. /\ stage'[c] = "rotate" /\ Broken(c)
        /\ UNCHANGED <<disk, saved>>
        /\ (at'[c] = at[c] /\ mem'[c] = mem[c]) \/ at'[c] = "down"
        /\ \A d \in Core \ {c} : /\ at'[d] = at[d] /\ mem'[d] = mem[d]
                                 /\ todo'[d] = todo[d] /\ stage'[d] = stage[d]
    BY <1>9 DEF SaveFails, SaveBreaks, DieWith, Die, StoreTypes, BootTypeOK
  <2>2. \A f \in Kept : Replacing(c, f) => f \in gap'
    BY <2>1 DEF Broken, Replacing, StoreInv, ReplacementIsWhole
  <2>3. gap \subseteq gap'
    BY <2>1 DEF Broken
  <2>4. \A d \in Core, f \in Kept : /\ Replacing(d, f)' => Replacing(d, f) /\ d # c
                                    /\ Replacing(d, f) => Replacing(d, f)' \/ d = c
                                    /\ HasRead(d, f)' => HasRead(d, f) /\ mem'[d][f] = mem[d][f]
    BY <2>1 DEF Replacing, HasRead, Now
  <2>. QED
    BY <2>1, <2>2, <2>3, <2>4
    DEF StoreInv, StoreRest, SaveIsThere, ReplacementIsWhole, NoHalves, SaveIsReadable,
        MemoryIsComplete
<1>10. ASSUME NEW f \in Kept, Damage(f) PROVE StoreRest' /\ Remembers
  <2>1. /\ \A d \in Core : at[d] \notin {"serve", "save"}
        /\ UNCHANGED <<at, mem, todo, stage>>
        /\ gap' = gap \cup {f}
        /\ \A g \in Kept \ {f} : disk'[g] = disk[g] /\ saved'[g] = saved[g]
        /\ saved'[f] = {} /\ disk'[f].now = Garbage /\ disk'[f].prev = disk[f].prev
    BY <1>10 DEF Damage, bootVars, alive, Alive, Working, StoreTypes
  <2>2. \A d \in Core, g \in Kept : /\ ~Replacing(d, g) /\ ~Replacing(d, g)'
                                    /\ ~HasRead(d, g)'
    BY <2>1 DEF Replacing, HasRead
  <2>3. Remembers
    BY <2>1 DEF Remembers
  <2>. QED
    BY <2>1, <2>2, <2>3, ContentsHold
    DEF StoreInv, StoreRest, SaveIsThere, ReplacementIsWhole, NoHalves, SaveIsReadable,
        MemoryIsComplete
<1>11. CASE UNCHANGED vars
  BY <1>11
  DEF vars, bootVars, storeVars, StoreInv, StoreRest, SaveIsThere, ReplacementIsWhole,
      NoHalves, SaveIsReadable, MemoryIsComplete, Replacing, HasRead, Now
<1>. QED
  BY <1>q, <1>1, <1>2, <1>3, <1>4, <1>5, <1>6, <1>7, <1>8, <1>9, <1>10, <1>11
  DEF Next, Run, Save, Untouched

LEMMA StoreInvInit == Init => StoreInv
  BY HolderInit, StoreInit, StoreRestInit DEF Init, StoreInv, StoreRest

LEMMA StoreInvNext ==
  ASSUME StoreInv, [Next]_vars, [RemovesStale]_bootVars
  PROVE  StoreInv' /\ (Remembers \/ UNCHANGED vars)
<1>1. HolderInv'
  BY StepsAreBootSteps, HolderStep DEF StoreInv
<1>2. StoreTypes' /\ TasksInv'
  BY StoreNext DEF StoreInv, HolderInv
<1>3. StoreRest' /\ (Remembers \/ UNCHANGED vars)
  BY <1>2, StoreRestNext
<1>. QED  BY <1>1, <1>2, <1>3 DEF StoreInv, StoreRest

\* Whatever dies or fails, in any number of sessions, the last good save of each
\* file is in its place or its spare, if no lock is removed that is held.
THEOREM LastSaveIsKept ==
  Spec /\ [][RemovesStale]_bootVars => []LastGoodKept
<1>1. StoreInv => LastGoodKept
  BY DEF StoreInv, SaveIsThere, LastGoodKept
<1>2. StoreInv /\ [Next]_vars /\ [RemovesStale]_bootVars => StoreInv'
  BY StoreInvNext
<1>. QED
  BY <1>1, <1>2, StoreInvInit, PTL DEF Spec

\* No crash leaves a half-written file where it is read, or as the spare, if no
\* lock is removed that is held.
THEOREM FilesAreWhole ==
  Spec /\ [][RemovesStale]_bootVars => []NeverHalfWritten
<1>1. StoreInv => NeverHalfWritten
  BY DEF StoreInv, NoHalves, NeverHalfWritten
<1>2. StoreInv /\ [Next]_vars /\ [RemovesStale]_bootVars => StoreInv'
  BY StoreInvNext
<1>. QED
  BY <1>1, <1>2, StoreInvInit, PTL DEF Spec

\* A save holds all that the one before it held, unless that was lost in a save
\* that was broken off, or damaged, if no lock is removed that is held.
THEOREM SessionsAddUp ==
  Spec /\ [][RemovesStale]_bootVars => NothingForgotten
<1>1. /\ StoreInv /\ [Next]_vars /\ [RemovesStale]_bootVars => StoreInv'
      /\ StoreInv /\ [Next]_vars /\ [RemovesStale]_bootVars => [Remembers]_vars
  BY StoreInvNext
<1>. QED
  BY <1>1, StoreInvInit, PTL DEF Spec, NothingForgotten, Remembers
=============================================================================
