------------------------------ MODULE Sessions ------------------------------
(***************************************************************************)
(* What outlives a session.  The Cores of Bootstrap load what earlier ones *)
(* have learned and save it again when they end: two files of knowledge    *)
(* (knowledge.rs `save_atomic', `load'), then the statistics and the       *)
(* agents' profiles (stats.rs `ProfileStore', server.rs `persist_stats').  *)
(* Every rename and write of `write_atomic' is a step.  A file's content   *)
(* is the set of sessions that have gone into it.                          *)
(***************************************************************************)
EXTENDS Bootstrap

CONSTANT MaxDamages   \* bound: how often somebody else damages a file

ASSUME SessionsAssumption == MaxDamages \in Nat

VARIABLES
  disk,     \* each kept file, its .prev and its .tmp
  mem,      \* what each Core knows
  todo,     \* what a Core has still to write
  stage,    \* how far it is with the first of them
  saved,    \* what the last completed save of each file held, if nobody
            \* has damaged it since (history)
  gap,      \* files of which that was lost by a fault (history)
  damages

storeVars == <<disk, mem, todo, stage, saved, gap, damages>>
vars == <<bootVars, storeVars>>

Kept      == {"hotzones", "coupling", "profiles"}
Knowledge == {"hotzones", "coupling"}

\* persist_knowledge and persist_stats, in order; "artifacts" are the session's
\* own four files, "views" the two that are derived from the profiles.
StatsTasks == <<"artifacts", "profiles", "views">>
Tasks      == <<"hotzones", "coupling">> \o StatsTasks

Nothing     == [state |-> "absent", of |-> {}]
Half        == [state |-> "half", of |-> {}]
Garbage     == [state |-> "garbage", of |-> {}]
Content(S)  == [state |-> "good", of |-> S]
Contents    == {Nothing, Half, Garbage} \cup {Content(S) : S \in SUBSET Core}

TypeOK ==
  /\ BootTypeOK
  /\ disk \in [Kept -> [now : Contents, prev : Contents, tmp : Contents]]
  /\ mem \in [Core -> [Kept -> SUBSET Core]]
  /\ todo \in [Core -> Seq(Kept \cup {"artifacts", "views"})]
  /\ stage \in [Core -> {"rotate", "open", "fill", "rename"}]
  /\ saved \in [Kept -> SUBSET Core]
  /\ gap \subseteq Kept
  /\ damages \in 0 .. MaxDamages

Init ==
  /\ BootInit
  /\ disk = [f \in Kept |-> [now |-> Nothing, prev |-> Nothing, tmp |-> Nothing]]
  /\ mem = [c \in Core |-> [f \in Kept |-> {}]]
  /\ todo = [c \in Core |-> <<>>]
  /\ stage = [c \in Core |-> "rotate"]
  /\ saved = [f \in Kept |-> {}]
  /\ gap = {}
  /\ damages = 0

-----------------------------------------------------------------------------
(* Reading                                                                 *)

\* A file that cannot be parsed counts as empty and is moved away.
Parsed(f) == disk[f].now.of
Quarantined(S) ==
  [f \in Kept |-> IF f \in S /\ disk[f].now.state \in {"half", "garbage"}
                    THEN [disk[f] EXCEPT !.now = Nothing] ELSE disk[f]]

\* KnowledgeStore::load, after the socket is bound.
LoadKnowledge(c) ==
  /\ Load(c)
  /\ mem' = [mem EXCEPT ![c] = [f \in Kept |-> IF f \in Knowledge THEN Parsed(f) ELSE {}]]
  /\ disk' = Quarantined(Knowledge)
  /\ UNCHANGED <<todo, stage, saved, gap, damages>>

\* The session has taught something when its network ends.
EndNetwork(c) ==
  /\ NetworkEnds(c)
  /\ mem' = [mem EXCEPT ![c] = [f \in Kept |-> IF f \in Knowledge THEN @[f] \cup {c} ELSE {}]]
  /\ todo' = [todo EXCEPT ![c] = Tasks]
  /\ UNCHANGED <<disk, stage, saved, gap, damages>>

-----------------------------------------------------------------------------
(* Writing                                                                 *)

Doing(c, s) == at[c] = "save" /\ todo[c] # <<>> /\ stage[c] = s
Now(c)      == Head(todo[c])
Turn(c, s)  == stage' = [stage EXCEPT ![c] = s]

\* Mutant: the session's profiles replace those on disk.
MergeNothing(c) ==
  /\ Doing(c, "rotate") /\ Now(c) = "profiles" /\ c \notin mem[c]["profiles"]
  /\ mem' = [mem EXCEPT ![c]["profiles"] = {c}]
  /\ UNCHANGED <<bootVars, disk, todo, stage, saved, gap, damages>>

\* ProfileStore::load and merge_session: profiles are read when they are to be
\* written, and the session's tallies added.
Merge(c) ==
  /\ Doing(c, "rotate") /\ Now(c) = "profiles" /\ c \notin mem[c]["profiles"]
  /\ mem' = [mem EXCEPT ![c]["profiles"] = Parsed("profiles") \cup {c}]
  /\ disk' = Quarantined({"profiles"})
  /\ UNCHANGED <<bootVars, todo, stage, saved, gap, damages>>

\* Mutant: the old file is removed to make room.
RotateAway(c) ==
  LET f == Now(c)
  IN  /\ Doing(c, "rotate") /\ f \in Kept
      /\ f = "profiles" => c \in mem[c]["profiles"]
      /\ Turn(c, "open")
      /\ disk' = [disk EXCEPT ![f].now = Nothing]
      /\ UNCHANGED <<bootVars, mem, todo, saved, gap, damages>>

\* A file that is there becomes the .prev of the next one.
Rotate(c) ==
  LET f == Now(c)
  IN  /\ Doing(c, "rotate") /\ f \in Kept
      /\ f = "profiles" => c \in mem[c]["profiles"]
      /\ Turn(c, "open")
      /\ disk' = IF disk[f].now = Nothing THEN disk
                 ELSE [disk EXCEPT ![f].prev = disk[f].now, ![f].now = Nothing]
      /\ UNCHANGED <<bootVars, mem, todo, saved, gap, damages>>

OpenTmp(c) ==
  /\ Doing(c, "open")
  /\ Turn(c, "fill")
  /\ disk' = [disk EXCEPT ![Now(c)].tmp = Half]
  /\ UNCHANGED <<bootVars, mem, todo, saved, gap, damages>>

FillTmp(c) ==
  /\ Doing(c, "fill")
  /\ Turn(c, "rename")
  /\ disk' = [disk EXCEPT ![Now(c)].tmp = Content(mem[c][Now(c)])]
  /\ UNCHANGED <<bootVars, mem, todo, saved, gap, damages>>

RenameTmp(c) ==
  LET f == Now(c)
  IN  /\ Doing(c, "rename")
      /\ Turn(c, "rotate")
      /\ disk' = [disk EXCEPT ![f].now = disk[f].tmp, ![f].tmp = Nothing]
      /\ saved' = [saved EXCEPT ![f] = mem[c][f]]
      /\ gap' = gap \ {f}
      /\ todo' = [todo EXCEPT ![c] = Tail(@)]
      /\ UNCHANGED <<bootVars, mem, damages>>

\* The files that nobody reads back.
WriteReport(c) ==
  /\ Doing(c, "rotate") /\ Now(c) \notin Kept
  /\ todo' = [todo EXCEPT ![c] = Tail(@)]
  /\ UNCHANGED <<bootVars, disk, mem, stage, saved, gap, damages>>

SaveEnds(c) ==
  /\ todo[c] = <<>>
  /\ Saved(c)
  /\ mem' = [mem EXCEPT ![c] = [f \in Kept |-> {}]]
  /\ UNCHANGED <<disk, todo, stage, saved, gap, damages>>

-----------------------------------------------------------------------------
(* Faults                                                                  *)

\* What a save that is broken off leaves behind: the file has been moved to
\* .prev, which nobody reads, and the new one is not in its place.
Broken(c) ==
  gap' = gap \cup {f \in Kept : /\ todo[c] # <<>> /\ f = Now(c) /\ stage[c] # "rotate"
                                /\ disk[f].now = Nothing}

\* Best effort: what is left of the knowledge, or of the statistics, is skipped.
SaveFails(c) ==
  /\ SaveBreaks(c)
  /\ todo[c] # <<>>
  /\ Broken(c)
  /\ Turn(c, "rotate")
  /\ todo' = [todo EXCEPT ![c] = IF Now(c) \in Knowledge THEN StatsTasks ELSE <<>>]
  /\ UNCHANGED <<disk, mem, saved, damages>>

DieWith(c) ==
  /\ Die(c)
  /\ Broken(c)
  /\ todo' = [todo EXCEPT ![c] = <<>>]
  /\ Turn(c, "rotate")
  /\ mem' = [mem EXCEPT ![c] = [f \in Kept |-> {}]]
  /\ UNCHANGED <<disk, saved, damages>>

\* Somebody edits a file, when no Core runs, and leaves it unreadable.
Damage(f) ==
  /\ damages < MaxDamages
  /\ \A c \in Core : ~alive(c)
  /\ disk[f].now.state = "good"
  /\ damages' = damages + 1
  /\ disk' = [disk EXCEPT ![f].now = Garbage]
  /\ saved' = [saved EXCEPT ![f] = {}]
  /\ gap' = gap \cup {f}
  /\ UNCHANGED <<bootVars, mem, todo, stage>>

-----------------------------------------------------------------------------

Save(c) == Merge(c) \/ Rotate(c) \/ OpenTmp(c) \/ FillTmp(c) \/ RenameTmp(c) \/ WriteReport(c)

Untouched(A) == A /\ UNCHANGED storeVars

\* What a process does by itself.
Run(c) ==
  \/ Untouched(Acquire(c) \/ Boot(c) \/ Finish(c))
  \/ LoadKnowledge(c) \/ Save(c) \/ SaveEnds(c)

Next ==
  \/ \E c \in Core : \/ Run(c) \/ EndNetwork(c) \/ SaveFails(c) \/ DieWith(c)
                     \/ Untouched(Spawn(c) \/ WriteFails(c))
  \/ \E f \in Kept : Damage(f)

\* A process that can go on does so; nobody has to start, end or fail.
Spec == Init /\ [][Next]_vars /\ \A c \in Core : WF_vars(Run(c))

-----------------------------------------------------------------------------

\* Whatever dies or fails, what was last saved of a file is still there, in its
\* place or as its .prev, unless somebody else damaged it.
LastGoodKept ==
  \A f \in Kept : saved[f] # {} => \E d \in {disk[f].now, disk[f].prev} : d.of = saved[f]

\* No file is ever half written ("so a crash mid-finalize cannot leave a
\* half-written" one, session.rs:34).
NeverHalfWritten == \A f \in Kept : Half \notin {disk[f].now, disk[f].prev}

\* Sessions add up over any number of Cores: a save holds all that the one
\* before it held, unless that was lost in a broken save or damaged.
NothingForgotten == [][\A f \in Kept \ (gap \cup gap') : saved[f] \subseteq saved'[f]]_vars

\* What a dead Core has left behind never stops one that starts alone.
StaleFilesDoNotBlock ==
  \A c \in Core :
    at[c] = "create" /\ (\A d \in Core \ {c} : ~alive(d)) ~> at[c] = "serve" \/ c \in unlucky
=============================================================================
