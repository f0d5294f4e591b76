-------------------------- MODULE NegotiationProofs --------------------------
(***************************************************************************)
(* Heat, conflicts, decisions and the log, for every number of agents and  *)
(* conflicts, every set of proposals and every interleaving of the two     *)
(* threads.                                                                *)
(***************************************************************************)
EXTENDS Negotiation, WaitGraphProofs, FunctionTheorems

-----------------------------------------------------------------------------
(* The invariant                                                           *)

\* The conflict that the connection thread is deciding.
InHand(i) == conn.pc \in {"weigh", "queue", "decide"} /\ conn.id = i

\* What the connection thread carries at each of its places; the conflict it
\* decides stays open, and those it is going to log are closed.
ConnCarries ==
  /\ conn.pc \in {"snapshot", "drop", "apply"} => conn.agent \in Agent
  /\ conn.pc = "apply" => conn.others \subseteq Agent \ {conn.agent}
  /\ conn.pc \in {"weigh", "queue", "decide"} => conn.id \in Open
  /\ conn.pc = "decide" => conn = [pc |-> "decide", id |-> conn.id, cycle |-> conn.cycle]
  /\ conn.pc = "ask" => conn.id \in Ids
  /\ conn.pc = "log" => conn.closed \subseteq (1 .. nextId - 1) \ Open

ReaperCarries == reaper.pc # "ask" => reaper.late = {}

\* At every step, not only between requests.
ConflictsAreHot ==
  \A i \in Open : /\ conflicts[i].pair \in DOMAIN heat
                  /\ heat[conflicts[i].pair]
                  /\ OpenFor(conflicts[i].pair) = {i}

AnsweredIsDecided ==
  \A i \in Open :
    BothProposed(i) => conflicts[i].state = "AWAITING_USER_DECISION" \/ InHand(i)

NothingLoggedAhead == \A i \in Ids : i >= nextId => closings[i] = 0

NegInv ==
  /\ TypeOK
  /\ ConnCarries /\ ReaperCarries
  /\ ConflictsAreHot /\ AnsweredIsDecided
  /\ UserIsAsked /\ EndIsLoggedOnce /\ NothingLoggedAhead

-----------------------------------------------------------------------------
(* Type correctness                                                        *)

ConflictsTyped ==
  \A i \in Open : /\ conflicts[i] \in ConflictRecords
                  /\ DOMAIN conflicts[i].proposals \subseteq conflicts[i].pair

LEMMA RecordFacts ==
  ASSUME NEW r \in ConflictRecords
  PROVE  /\ r.pair \in Pairs /\ r.state \in OpenStates
         /\ r.proposals \in UNION {[S -> Proposals] : S \in SUBSET Agent}
         /\ r.pair # {} /\ r.pair \subseteq Agent
<1>1. r.pair \in Pairs /\ r.state \in OpenStates
      /\ r.proposals \in UNION {[S -> Proposals] : S \in SUBSET Agent}
  BY DEF ConflictRecords
<1>2. Cardinality(r.pair) = 2 /\ r.pair \subseteq Agent
  BY <1>1 DEF Pairs
<1>3. r.pair # {}
  BY <1>2, FS_EmptySet
<1>. QED  BY <1>1, <1>2, <1>3

LEMMA FreshRecord ==
  ASSUME NEW p \in Pairs
  PROVE  /\ [pair |-> p, state |-> "DETECTED", proposals |-> NoProposals] \in ConflictRecords
         /\ DOMAIN NoProposals = {}
<1>1. NoProposals \in [{} -> Proposals]
  BY DEF NoProposals
<1>2. NoProposals \in UNION {[S -> Proposals] : S \in SUBSET Agent}
  BY <1>1
<1>. QED
  BY <1>1, <1>2 DEF ConflictRecords, OpenStates, AwaitingProposals, NoProposals

\* The conflicts of any set may be closed.
LEMMA CloseFacts ==
  ASSUME NEW S, Close(S)
  PROVE  /\ Open' = Open \ S
         /\ \A i \in Open \ S : conflicts'[i] = conflicts[i]
  BY DEF Close, Restrict, Open

LEMMA SetStateFacts ==
  ASSUME NEW S, NEW s, SetState(S, s), ConflictsTyped, s \in OpenStates
  PROVE  /\ Open' = Open
         /\ \A i \in Open \ S : conflicts'[i] = conflicts[i]
         /\ \A i \in Open \cap S : /\ conflicts'[i].state = s
                                   /\ conflicts'[i].pair = conflicts[i].pair
                                   /\ conflicts'[i].proposals = conflicts[i].proposals
         /\ ConflictsTyped'
<1>1. /\ Open' = Open
      /\ \A i \in Open : conflicts'[i] = IF i \in S THEN [conflicts[i] EXCEPT !.state = s]
                                                    ELSE conflicts[i]
  BY DEF SetState, Open
<1>2. \A i \in Open : /\ conflicts[i] \in ConflictRecords
                      /\ [conflicts[i] EXCEPT !.state = s] \in ConflictRecords
                      /\ [conflicts[i] EXCEPT !.state = s].state = s
                      /\ [conflicts[i] EXCEPT !.state = s].pair = conflicts[i].pair
                      /\ [conflicts[i] EXCEPT !.state = s].proposals = conflicts[i].proposals
  BY DEF ConflictsTyped, ConflictRecords
<1>. QED  BY <1>1, <1>2 DEF ConflictsTyped

LEMMA PairsAreFinite ==
  ASSUME NEW S \in SUBSET Pairs
  PROVE  IsFiniteSet(S) /\ Cardinality(S) \in Nat
<1>1. IsFiniteSet(SUBSET Agent)
  BY NegotiationAssumption, FS_SUBSET
<1>2. S \subseteq SUBSET Agent
  BY DEF Pairs
<1>. QED  BY <1>1, <1>2, FS_Subset, FS_CardinalityType

LEMMA TwoAgentsMakeAPair ==
  ASSUME NEW a \in Agent, NEW b \in Agent, a # b
  PROVE  {a, b} \in Pairs
<1>1. IsFiniteSet({a}) /\ Cardinality({a}) = 1
  BY FS_Singleton
<1>2. Cardinality({a} \cup {b}) = 2
  BY <1>1, FS_AddElement
<1>3. {a} \cup {b} = {a, b}
  OBVIOUS
<1>. QED  BY <1>2, <1>3 DEF Pairs

\* The conflicts that a recomputation opens and ends.
LEMMA ApplyFacts ==
  ASSUME TypeOK, NEW hot \in SUBSET Pairs, ApplyHeat(hot)
  PROVE  LET pairs == {{conn.agent, b} : b \in conn.others}
             ended == Cooled(pairs, hot)
             ids   == nextId .. nextId + Cardinality(Fresh(hot)) - 1
         IN  /\ hot \subseteq pairs
             /\ ids \subseteq Ids /\ ids \cap Open = {}
             /\ nextId' = nextId + Cardinality(Fresh(hot)) /\ nextId' \in 1 .. MaxConflicts + 1
             /\ 1 .. nextId' - 1 = (1 .. nextId - 1) \cup ids
             /\ DOMAIN heat' = DOMAIN heat \cup pairs
             /\ \A p \in DOMAIN heat' : heat'[p] = IF p \in pairs THEN p \in hot ELSE heat[p]
             /\ Open' = (Open \ ended) \cup ids
             /\ \A i \in Open \ ended : conflicts'[i] = conflicts[i]
             /\ \A i \in ids : /\ conflicts'[i].pair \in Fresh(hot)
                               /\ conflicts'[i] = [pair |-> conflicts'[i].pair, state |-> "DETECTED",
                                                   proposals |-> NoProposals]
             /\ \A i, j \in ids : conflicts'[i].pair = conflicts'[j].pair => i = j
             /\ conn' = [pc |-> "log", closed |-> ended]
<1> DEFINE pairs == {{conn.agent, b} : b \in conn.others}
           ended == Cooled(pairs, hot)
           n     == Cardinality(Fresh(hot))
           ids   == nextId .. nextId + n - 1
<1>1. n \in Nat
  BY PairsAreFinite DEF Fresh
<1>2. /\ hot \subseteq pairs /\ ids \subseteq Ids
      /\ nextId' = nextId + n
      /\ heat' = [p \in DOMAIN heat \cup pairs |-> IF p \in pairs THEN p \in hot ELSE heat[p]]
      /\ conn' = [pc |-> "log", closed |-> ended]
  BY DEF ApplyHeat
<1>3. nextId \in 1 .. MaxConflicts + 1 /\ MaxConflicts \in Nat /\ Open \subseteq 1 .. nextId - 1
  BY NegotiationAssumption DEF TypeOK
<1>4. nextId' \in 1 .. MaxConflicts + 1
  <2>1. CASE n = 0
    BY <1>2, <1>3, <2>1
  <2>2. CASE n > 0
    <3>1. nextId + n - 1 \in ids
      BY <1>1, <1>3, <2>2
    <3>. QED  BY <1>1, <1>2, <1>3, <3>1 DEF Ids
  <2>. QED  BY <1>1, <2>1, <2>2
<1>5. ids \cap Open = {} /\ 1 .. nextId' - 1 = (1 .. nextId - 1) \cup ids
  BY <1>1, <1>2, <1>3
<1>6. PICK pairOf \in Bijection(ids, Fresh(hot)) :
        conflicts' = [i \in (Open \ ended) \cup ids |->
                        IF i \in ids
                          THEN [pair |-> pairOf[i], state |-> "DETECTED", proposals |-> NoProposals]
                          ELSE conflicts[i]]
  BY DEF ApplyHeat
<1>7. /\ \A i \in ids : pairOf[i] \in Fresh(hot)
      /\ \A i, j \in ids : pairOf[i] = pairOf[j] => i = j
  <2>1. pairOf \in [ids -> Fresh(hot)] /\ \A i, j \in ids : pairOf[i] = pairOf[j] => i = j
    BY DEF Bijection, Injection, IsInjective
  <2>. QED  BY <2>1
<1>8. Open' = (Open \ ended) \cup ids
  BY <1>6 DEF Open
<1>9. \A i \in Open \ ended : conflicts'[i] = conflicts[i]
  BY <1>5, <1>6
<1>10. \A i \in ids : conflicts'[i] = [pair |-> pairOf[i], state |-> "DETECTED", proposals |-> NoProposals]
  BY <1>6
<1>11. \A i \in ids : conflicts'[i].pair = pairOf[i]
  <2>1. \A c, p : c = [pair |-> p, state |-> "DETECTED", proposals |-> NoProposals] => c.pair = p
    OBVIOUS
  <2>. HIDE DEF ids
  <2>. QED  BY <1>10, <2>1
<1>12. \A i \in ids : /\ conflicts'[i].pair \in Fresh(hot)
                     /\ conflicts'[i] = [pair |-> conflicts'[i].pair, state |-> "DETECTED",
                                         proposals |-> NoProposals]
  BY <1>7, <1>10, <1>11
<1>13. \A i, j \in ids : conflicts'[i].pair = conflicts'[j].pair => i = j
  BY <1>7, <1>11
<1>14. /\ DOMAIN heat' = DOMAIN heat \cup pairs
       /\ \A p \in DOMAIN heat' : heat'[p] = IF p \in pairs THEN p \in hot ELSE heat[p]
  BY <1>2
<1>. HIDE DEF pairs, ended, n, ids
<1>15. /\ hot \subseteq pairs /\ ids \subseteq Ids /\ ids \cap Open = {}
       /\ nextId' = nextId + n /\ nextId' \in 1 .. MaxConflicts + 1
       /\ 1 .. nextId' - 1 = (1 .. nextId - 1) \cup ids
       /\ conn' = [pc |-> "log", closed |-> ended]
  BY <1>2, <1>4, <1>5
<1>. QED
  BY <1>15, <1>8, <1>9, <1>12, <1>13, <1>14 DEF pairs, ended, n, ids

-----------------------------------------------------------------------------
(* What a step may do to the stores and the log                            *)

\* Nothing, and what the threads carry to the log stays with them.
Quiet ==
  /\ UNCHANGED <<heat, conflicts, nextId, asked, closings>>
  /\ reaper'.late = reaper.late
  /\ conn' = conn \/ (conn.pc \notin {"ask", "log"} /\ conn'.pc \notin {"ask", "log"})
  /\ \A i \in Open : InHand(i) /\ BothProposed(i) => InHand(i)'

\* The connection thread closes the conflicts of S and carries them to the log.
Closing(S) ==
  /\ S \subseteq Open /\ Open' = Open \ S
  /\ \A i \in Open \ S : /\ conflicts'[i] = conflicts[i]
                         /\ ~InHand(i)
                         /\ conflicts[i].pair \in DOMAIN heat =>
                              /\ conflicts[i].pair \in DOMAIN heat'
                              /\ heat'[conflicts[i].pair] = heat[conflicts[i].pair]
  /\ DOMAIN heat' \subseteq DOMAIN heat /\ heat' \in [DOMAIN heat' -> BOOLEAN]
  /\ conn.pc \notin {"ask", "log"}
  /\ conn' = [pc |-> "log", closed |-> S]
  /\ UNCHANGED <<nextId, asked, closings, reaper>>

\* A thread makes the conflicts of S wait for the user.
Marking(S) ==
  /\ SetState(S, "AWAITING_USER_DECISION")
  /\ \A i \in S : i \in reaper'.late \/ (conn'.pc = "ask" /\ conn'.id = i)
  /\ reaper.late \subseteq reaper'.late
  /\ conn' = conn \/ (/\ conn.pc = "decide" /\ conn'.pc = "ask"
                      /\ conn'.id = conn.id /\ conn.id \in S)
  /\ UNCHANGED <<heat, nextId, asked, closings>>

\* A thread puts to the user what it carries.
Asking ==
  /\ UNCHANGED <<heat, conflicts, nextId, closings>>
  /\ \A i \in Open : \/ i \in asked
                     \/ i \in reaper.late
                     \/ conn.pc = "ask" /\ conn.id = i
       => \/ i \in asked'
          \/ i \in reaper'.late
          \/ conn'.pc = "ask" /\ conn'.id = i
  /\ conn' = conn \/ (conn.pc = "ask" /\ conn' = Idle)

LEMMA UserDecisionCloses ==
  ASSUME TypeOK, NEW i \in Ids, UserDecision(i)
  PROVE  Closing({i})
<1>1. Open' = Open \ {i} /\ \A j \in Open \ {i} : conflicts'[j] = conflicts[j]
  BY CloseFacts DEF UserDecision
<1>2. /\ i \in Open /\ conn = Idle /\ conn' = [pc |-> "log", closed |-> {i}]
      /\ UNCHANGED <<heat, nextId, asked, closings, reaper>>
  BY DEF UserDecision, ConnIdle, logs
<1>3. conn.pc = "idle"
  BY <1>2 DEF Idle
<1>4. heat' \in [DOMAIN heat' -> BOOLEAN]
  BY <1>2 DEF TypeOK
<1>. QED  BY <1>1, <1>2, <1>3, <1>4 DEF Closing, InHand

LEMMA DropEdgesCloses ==
  ASSUME DropEdges, TypeOK
  PROVE  Closing(OpenOf(conn.agent))
<1>. DEFINE S == OpenOf(conn.agent)
<1>1. Open' = Open \ S /\ \A j \in Open \ S : conflicts'[j] = conflicts[j]
  BY CloseFacts DEF DropEdges
<1>2. /\ conn.pc = "drop" /\ conn' = [pc |-> "log", closed |-> S]
      /\ UNCHANGED <<nextId, asked, closings, reaper>>
  BY DEF DropEdges, logs
<1>3. /\ DOMAIN heat' = {p \in DOMAIN heat : conn.agent \notin p}
      /\ heat' = [p \in DOMAIN heat' |-> heat[p]]
  BY DEF DropEdges, Restrict
<1>4. S \subseteq Open /\ \A j \in Open \ S : conn.agent \notin conflicts[j].pair
  BY DEF OpenOf
<1>5. heat' \in [DOMAIN heat' -> BOOLEAN]
  BY <1>3 DEF TypeOK
<1>. QED  BY <1>1, <1>2, <1>3, <1>4, <1>5 DEF Closing, InHand

LEMMA DecideCloses ==
  ASSUME TypeOK, Decide, ConnCarries,
         conn.cycle = NoCycle /\ Compare(ProposalOf(First), ProposalOf(Second), File).auto
  PROVE  Closing({conn.id})
<1>1. Open' = Open \ {conn.id} /\ \A j \in Open \ {conn.id} : conflicts'[j] = conflicts[j]
  BY CloseFacts DEF Decide
<1>2. /\ conn.pc = "decide" /\ conn' = [pc |-> "log", closed |-> {conn.id}]
      /\ UNCHANGED <<heat, nextId, asked, closings, reaper>>
  BY DEF Decide, logs
<1>3. conn.id \in Open
  BY <1>2 DEF ConnCarries
<1>4. heat' \in [DOMAIN heat' -> BOOLEAN]
  BY <1>2 DEF TypeOK
<1>. QED  BY <1>1, <1>2, <1>3, <1>4 DEF Closing, InHand

LEMMA DecideMarks ==
  ASSUME Decide, ConnCarries,
         ~(conn.cycle = NoCycle /\ Compare(ProposalOf(First), ProposalOf(Second), File).auto)
  PROVE  Marking({conn.id})
<1>1. /\ SetState({conn.id}, "AWAITING_USER_DECISION")
      /\ conn.pc = "decide" /\ conn' = [conn EXCEPT !.pc = "ask"]
      /\ UNCHANGED <<heat, nextId, asked, closings, reaper>>
  BY DEF Decide, logs
<1>2. conn = [pc |-> "decide", id |-> conn.id, cycle |-> conn.cycle]
  BY <1>1 DEF ConnCarries
<1>3. conn'.pc = "ask" /\ conn'.id = conn.id
  BY <1>1, <1>2
<1>. QED  BY <1>1, <1>3 DEF Marking

LEMMA SweepMarks ==
  ASSUME ReaperSweep, ReaperCarries
  PROVE  Marking({i \in Open : Late(i, reaper.old)})
<1>. DEFINE late == {i \in Open : Late(i, reaper.old)}
<1>1. /\ SetState(late, "AWAITING_USER_DECISION")
      /\ reaper.pc = "sweep"
      /\ reaper' = IF late = {} THEN Asleep ELSE [Asleep EXCEPT !.pc = "ask", !.late = late]
      /\ UNCHANGED <<heat, nextId, conn, asked, closings>>
  BY DEF ReaperSweep, logs
<1>2. reaper.late = {}
  BY <1>1 DEF ReaperCarries
<1>3. reaper'.late = late
  BY <1>1 DEF Asleep
<1>. QED  BY <1>1, <1>2, <1>3 DEF Marking

\* The requests that touch no store, and the places between two stores.
LEMMA RequestsAreQuiet ==
  ASSUME NEW a \in Agent,
         \/ ClaimProposed(a) \/ ClearInvoked(a) \/ FileTouched(a) \/ Disconnect(a)
         \/ \E holder \in Agent : ClaimReleased(holder, a)
  PROVE  Quiet
<1>1. conn = Idle /\ UNCHANGED <<heat, conflicts, nextId, asked, closings, reaper>>
  BY DEF ClaimProposed, ClearInvoked, FileTouched, Disconnect, ClaimReleased, ConnIdle, stores, logs
<1>2. conn' = conn \/ conn' = [pc |-> "snapshot", agent |-> a]
  BY DEF ClaimProposed, ClearInvoked, FileTouched, Disconnect, ClaimReleased, Recompute
<1>3. conn.pc = "idle"
  BY <1>1 DEF Idle
<1>. QED  BY <1>1, <1>2, <1>3 DEF Quiet, InHand

LEMMA HandlersAreQuiet ==
  ASSUME Snapshot \/ Weigh \/ Queue
  PROVE  Quiet
<1>1. CASE Snapshot
  <2>1. /\ UNCHANGED <<heat, conflicts, nextId, asked, closings, reaper>>
        /\ conn.pc = "snapshot" /\ conn'.pc \in {"apply", "drop"}
    BY <1>1 DEF Snapshot, stores, logs
  <2>. QED  BY <2>1 DEF Quiet, InHand
<1>2. CASE Weigh
  <2>1. /\ UNCHANGED <<heat, conflicts, nextId, asked, closings, reaper>>
        /\ conn.pc = "weigh" /\ conn'.pc \in {"queue", "idle"}
    BY <1>2 DEF Weigh, Idle, stores, logs
  <2>2. BothProposed(conn.id) => conn'.pc = "queue" /\ conn'.id = conn.id
    BY <1>2 DEF Weigh
  <2>. QED  BY <2>1, <2>2 DEF Quiet, InHand
<1>3. CASE Queue
  <2>1. /\ UNCHANGED <<heat, conflicts, nextId, asked, closings, reaper>>
        /\ conn.pc = "queue" /\ conn'.pc = "decide" /\ conn'.id = conn.id
    BY <1>3 DEF Queue, logs
  <2>. QED  BY <2>1 DEF Quiet, InHand
<1>. QED  BY <1>1, <1>2, <1>3

LEMMA ReaperIsQuiet ==
  ASSUME TypeOK, ReaperCarries,
         ReaperWake \/ (\E lost \in SUBSET Agent : ReaperReap(lost)) \/ ReaperOrphan
  PROVE  Quiet /\ reaper'.pc # "ask"
<1>1. UNCHANGED <<heat, conflicts, nextId, asked, closings, conn>>
  BY DEF ReaperWake, ReaperReap, ReaperOrphan, stores, logs
<1>2. reaper \in [pc : ReaperPlaces, old : SUBSET Ids, lost : SUBSET Agent, late : SUBSET Ids]
  BY DEF TypeOK
<1>3. reaper.pc # "ask" /\ reaper.late = {}
  BY DEF ReaperWake, ReaperReap, ReaperOrphan, ReaperCarries
<1>4. reaper'.late = {} /\ reaper'.pc # "ask"
  <2>1. CASE ReaperWake
    BY <2>1 DEF ReaperWake, Asleep
  <2>2. CASE \E lost \in SUBSET Agent : ReaperReap(lost)
    <3>1. PICK lost \in SUBSET Agent : ReaperReap(lost)
      BY <2>2
    <3>2. reaper' = [reaper EXCEPT !.pc = IF lost = {} THEN "sweep" ELSE "orphan", !.lost = lost]
      BY <3>1 DEF ReaperReap
    <3>. QED  BY <1>2, <1>3, <3>2
  <2>3. CASE ReaperOrphan
    BY <1>2, <1>3, <2>3 DEF ReaperOrphan
  <2>. QED  BY <2>1, <2>2, <2>3
<1>. QED  BY <1>1, <1>3, <1>4 DEF Quiet, InHand

LEMMA LogsAsk ==
  ASSUME LogAsk \/ ReaperAsk
  PROVE  Asking
<1>1. CASE LogAsk
  <2>1. /\ UNCHANGED <<heat, conflicts, nextId, closings, reaper>>
        /\ conn.pc = "ask" /\ conn' = Idle /\ asked' = asked \cup {conn.id}
    BY <1>1 DEF LogAsk, stores
  <2>. QED  BY <2>1 DEF Asking
<1>2. CASE ReaperAsk
  <2>1. /\ UNCHANGED <<heat, conflicts, nextId, closings, conn>>
        /\ asked' = asked \cup reaper.late
    BY <1>2 DEF ReaperAsk, stores
  <2>. QED  BY <2>1 DEF Asking
<1>. QED  BY <1>1, <1>2

\* Every step is of one of seven kinds.
LEMMA StepKinds ==
  ASSUME TypeOK, ConnCarries, ReaperCarries, [Next]_vars
  PROVE  \/ Quiet \/ Asking \/ LogClosed
         \/ \E i \in Ids, a \in Agent, p \in Proposals : ProposalSubmitted(i, a, p)
         \/ \E S \in SUBSET Ids : Closing(S)
         \/ \E S \in SUBSET Ids : Marking(S)
         \/ \E hot \in SUBSET Pairs : ApplyHeat(hot)
<1>1. CASE RequestNext
  <2>1. CASE \E i \in Ids : UserDecision(i)
    <3>1. PICK i \in Ids : UserDecision(i)
      BY <2>1
    <3>2. {i} \in SUBSET Ids
      BY <3>1
    <3>. QED  BY <3>1, <3>2, UserDecisionCloses
  <2>. QED  BY <1>1, <2>1, RequestsAreQuiet DEF RequestNext
<1>2. CASE HandlerNext
  <2>1. CASE DropEdges
    <3>1. OpenOf(conn.agent) \in SUBSET Ids
      BY NegotiationAssumption DEF OpenOf, TypeOK, Ids
    <3>. QED  BY <2>1, <3>1, DropEdgesCloses
  <2>2. CASE Decide
    <3>1. {conn.id} \in SUBSET Ids
      <4>1. conn.id \in Open
        BY <2>2 DEF Decide, ConnCarries
      <4>. QED  BY <4>1, NegotiationAssumption DEF TypeOK, Ids
    <3>. QED  BY <2>2, <3>1, DecideCloses, DecideMarks
  <2>. QED  BY <1>2, <2>1, <2>2, HandlersAreQuiet, LogsAsk DEF HandlerNext
<1>3. CASE ReaperNext
  <2>1. CASE ReaperSweep
    <3>1. {i \in Open : Late(i, reaper.old)} \in SUBSET Ids
      BY NegotiationAssumption DEF TypeOK, Ids
    <3>. QED  BY <2>1, <3>1, SweepMarks
  <2>. QED  BY <1>3, <2>1, ReaperIsQuiet, LogsAsk DEF ReaperNext
<1>4. CASE (\E i \in Ids : GrowOld(i)) \/ UNCHANGED vars
  <2>1. UNCHANGED <<heat, conflicts, nextId, asked, closings, conn, reaper>>
    BY <1>4 DEF GrowOld, vars, stores, logs
  <2>. QED  BY <2>1 DEF Quiet, InHand
<1>. QED  BY <1>1, <1>2, <1>3, <1>4 DEF Next

-----------------------------------------------------------------------------
(* What each kind of step keeps                                            *)

StoresTyped ==
  /\ DOMAIN heat \subseteq Pairs /\ heat \in [DOMAIN heat -> BOOLEAN]
  /\ nextId \in 1 .. MaxConflicts + 1 /\ Open \subseteq 1 .. nextId - 1
  /\ ConflictsTyped
  /\ closings \in [Ids -> Nat]

StoresInv ==
  /\ StoresTyped /\ ConflictsAreHot /\ AnsweredIsDecided
  /\ UserIsAsked /\ EndIsLoggedOnce /\ NothingLoggedAhead

LEMMA StoresAreTyped ==
  ASSUME TypeOK
  PROVE  StoresTyped
BY DEF TypeOK, StoresTyped, ConflictsTyped

LEMMA QuietKeeps ==
  ASSUME NegInv, Quiet
  PROVE  StoresInv'
<1>1. /\ UNCHANGED <<heat, conflicts, nextId, asked, closings>>
      /\ reaper'.late = reaper.late
      /\ conn' = conn \/ (conn.pc \notin {"ask", "log"} /\ conn'.pc \notin {"ask", "log"})
      /\ \A i \in Open : InHand(i) /\ BothProposed(i) => InHand(i)'
  BY DEF Quiet
<1>2. StoresTyped'
  <2>1. StoresTyped
    BY StoresAreTyped DEF NegInv
  <2>. QED  BY <1>1, <2>1 DEF StoresTyped, ConflictsTyped, Open
<1>3. ConflictsAreHot'
  BY <1>1 DEF NegInv, ConflictsAreHot, Open, OpenFor
<1>4. AnsweredIsDecided'
  BY <1>1 DEF NegInv, AnsweredIsDecided, Open, BothProposed
<1>5. UserIsAsked'
  BY <1>1 DEF NegInv, UserIsAsked, Open
<1>6. EndIsLoggedOnce'
  BY <1>1 DEF NegInv, EndIsLoggedOnce, Open
<1>7. NothingLoggedAhead'
  BY <1>1 DEF NegInv, NothingLoggedAhead
<1>. QED  BY <1>2, <1>3, <1>4, <1>5, <1>6, <1>7 DEF StoresInv

LEMMA AskingKeeps ==
  ASSUME NegInv, Asking
  PROVE  StoresInv'
<1>1. /\ UNCHANGED <<heat, conflicts, nextId, closings>>
      /\ \A i \in Open : \/ i \in asked
                         \/ i \in reaper.late
                         \/ conn.pc = "ask" /\ conn.id = i
           => \/ i \in asked'
              \/ i \in reaper'.late
              \/ conn'.pc = "ask" /\ conn'.id = i
      /\ conn' = conn \/ (conn.pc = "ask" /\ conn' = Idle)
  BY DEF Asking
<1>2. conn' = conn \/ (conn.pc = "ask" /\ conn'.pc = "idle")
  BY <1>1 DEF Idle
<1>3. StoresTyped'
  <2>1. StoresTyped
    BY StoresAreTyped DEF NegInv
  <2>. QED  BY <1>1, <2>1 DEF StoresTyped, ConflictsTyped, Open
<1>4. ConflictsAreHot'
  BY <1>1 DEF NegInv, ConflictsAreHot, Open, OpenFor
<1>5. AnsweredIsDecided'
  BY <1>1, <1>2 DEF NegInv, AnsweredIsDecided, Open, BothProposed, InHand
<1>6. UserIsAsked'
  BY <1>1 DEF NegInv, UserIsAsked, Open
<1>7. EndIsLoggedOnce'
  BY <1>1, <1>2 DEF NegInv, EndIsLoggedOnce, Open
<1>8. NothingLoggedAhead'
  BY <1>1 DEF NegInv, NothingLoggedAhead
<1>. QED  BY <1>3, <1>4, <1>5, <1>6, <1>7, <1>8 DEF StoresInv

LEMMA LogClosedKeeps ==
  ASSUME NegInv, LogClosed
  PROVE  StoresInv'
<1>1. /\ UNCHANGED <<heat, conflicts, nextId, asked, reaper>>
      /\ conn.pc = "log" /\ conn'.pc = "idle"
      /\ closings' = [i \in Ids |-> closings[i] + IF i \in conn.closed THEN 1 ELSE 0]
  BY DEF LogClosed, stores, Idle
<1>2. StoresTyped
  BY StoresAreTyped DEF NegInv
<1>3. conn.closed \subseteq (1 .. nextId - 1) \ Open
  BY <1>1 DEF NegInv, ConnCarries
<1>4. closings' \in [Ids -> Nat]
  BY <1>1, <1>2 DEF StoresTyped
<1>5. StoresTyped'
  BY <1>1, <1>2, <1>4 DEF StoresTyped, ConflictsTyped, Open
<1>6. ConflictsAreHot'
  BY <1>1 DEF NegInv, ConflictsAreHot, Open, OpenFor
<1>7. AnsweredIsDecided'
  BY <1>1 DEF NegInv, AnsweredIsDecided, Open, BothProposed, InHand
<1>8. UserIsAsked'
  BY <1>1 DEF NegInv, UserIsAsked, Open
<1>9. EndIsLoggedOnce'
  <2>. SUFFICES ASSUME NEW i \in 1 .. nextId - 1
                PROVE  closings'[i] = IF i \in Open THEN 0 ELSE 1
    BY <1>1 DEF EndIsLoggedOnce, Open
  <2>1. i \in Ids
    BY <1>2, NegotiationAssumption DEF StoresTyped, Ids
  <2>2. closings[i] = IF i \in Open \/ i \in conn.closed THEN 0 ELSE 1
    BY <1>1 DEF NegInv, EndIsLoggedOnce
  <2>. QED  BY <1>1, <1>3, <2>1, <2>2
<1>10. NothingLoggedAhead'
  <2>. SUFFICES ASSUME NEW i \in Ids, i >= nextId
                PROVE  closings'[i] = 0
    BY <1>1 DEF NothingLoggedAhead
  <2>1. closings[i] = 0
    BY DEF NegInv, NothingLoggedAhead
  <2>2. i \notin conn.closed
    BY <1>2, <1>3 DEF StoresTyped, Ids
  <2>. QED  BY <1>1, <2>1, <2>2
<1>. QED  BY <1>5, <1>6, <1>7, <1>8, <1>9, <1>10 DEF StoresInv

LEMMA SubmittedFacts ==
  ASSUME TypeOK, NEW i \in Ids, NEW a \in Agent, NEW p \in Proposals, ProposalSubmitted(i, a, p)
  PROVE  /\ i \in Open /\ Open' = Open
         /\ \A j \in Open \ {i} : conflicts'[j] = conflicts[j]
         /\ conflicts'[i].pair = conflicts[i].pair /\ conflicts'[i].state = "NEGOTIATING"
         /\ ConflictsTyped'
         /\ UNCHANGED <<heat, nextId, asked, closings, reaper>>
         /\ conn.pc = "idle" /\ conn' = [pc |-> "weigh", id |-> i]
<1>. DEFINE r == conflicts[i]
            given == [x \in DOMAIN r.proposals \cup {a} |-> IF x = a THEN p ELSE r.proposals[x]]
            new == [pair |-> r.pair, state |-> "NEGOTIATING", proposals |-> given]
<1>1. /\ i \in Open /\ a \in r.pair
      /\ conflicts' = [conflicts EXCEPT ![i] = new]
      /\ UNCHANGED <<heat, nextId, asked, closings, reaper>>
      /\ conn = Idle /\ conn' = [pc |-> "weigh", id |-> i]
  BY DEF ProposalSubmitted, ConnIdle, logs
<1>2. /\ Open' = Open /\ conflicts'[i] = new
      /\ \A j \in Open \ {i} : conflicts'[j] = conflicts[j]
  BY <1>1 DEF Open
<1>3. ConflictsTyped
  BY DEF TypeOK, ConflictsTyped
<1>4. r \in ConflictRecords /\ DOMAIN r.proposals \subseteq r.pair
  BY <1>1, <1>3 DEF ConflictsTyped
<1>5. r.pair \in Pairs /\ r.proposals \in UNION {[S -> Proposals] : S \in SUBSET Agent}
      /\ r.pair \subseteq Agent
  BY <1>4, RecordFacts
<1>6. given \in UNION {[S -> Proposals] : S \in SUBSET Agent}
  <2>1. DOMAIN r.proposals \in SUBSET Agent /\ r.proposals \in [DOMAIN r.proposals -> Proposals]
    BY <1>5
  <2>2. given \in [DOMAIN r.proposals \cup {a} -> Proposals]
    BY <2>1
  <2>3. DOMAIN r.proposals \cup {a} \in SUBSET Agent
    BY <2>1
  <2>. HIDE DEF given
  <2>. QED  BY <2>2, <2>3
<1>7. DOMAIN given \subseteq r.pair
  BY <1>1, <1>4
<1>8. new \in ConflictRecords /\ new.proposals = given /\ new.pair = r.pair /\ new.state = "NEGOTIATING"
  <2>. HIDE DEF given
  <2>. QED  BY <1>5, <1>6 DEF ConflictRecords, OpenStates, AwaitingProposals
<1>9. ConflictsTyped'
  <2>. HIDE DEF new, given
  <2>. QED  BY <1>2, <1>3, <1>7, <1>8 DEF ConflictsTyped
<1>10. conn.pc = "idle"
  BY <1>1 DEF Idle
<1>. HIDE DEF new, given
<1>. QED  BY <1>1, <1>2, <1>8, <1>9, <1>10

LEMMA SubmittedKeeps ==
  ASSUME NegInv, NEW i \in Ids, NEW a \in Agent, NEW p \in Proposals, ProposalSubmitted(i, a, p)
  PROVE  StoresInv'
<1>1. /\ i \in Open /\ Open' = Open
      /\ \A j \in Open \ {i} : conflicts'[j] = conflicts[j]
      /\ conflicts'[i].pair = conflicts[i].pair /\ conflicts'[i].state = "NEGOTIATING"
      /\ ConflictsTyped'
      /\ UNCHANGED <<heat, nextId, asked, closings, reaper>>
      /\ conn.pc = "idle" /\ conn' = [pc |-> "weigh", id |-> i]
  BY SubmittedFacts DEF NegInv
<1>2. conn'.pc = "weigh" /\ conn'.id = i
  BY <1>1
<1>3. StoresTyped'
  <2>1. StoresTyped
    BY StoresAreTyped DEF NegInv
  <2>. QED  BY <1>1, <2>1 DEF StoresTyped
<1>4. ConflictsAreHot'
  <2>1. \A j \in Open : conflicts'[j].pair = conflicts[j].pair
    BY <1>1
  <2>2. \A q : OpenFor(q)' = OpenFor(q)
    BY <1>1, <2>1 DEF OpenFor
  <2>. QED  BY <1>1, <2>1, <2>2 DEF NegInv, ConflictsAreHot
<1>5. AnsweredIsDecided'
  <2>. SUFFICES ASSUME NEW j \in Open, BothProposed(j)'
                PROVE  conflicts'[j].state = "AWAITING_USER_DECISION" \/ InHand(j)'
    BY <1>1 DEF AnsweredIsDecided
  <2>1. CASE j = i
    BY <1>2, <2>1 DEF InHand
  <2>2. CASE j # i
    <3>1. BothProposed(j) /\ ~InHand(j)
      BY <1>1, <2>2 DEF BothProposed, InHand
    <3>. QED  BY <1>1, <2>2, <3>1 DEF NegInv, AnsweredIsDecided
  <2>. QED  BY <2>1, <2>2
<1>6. UserIsAsked'
  BY <1>1 DEF NegInv, UserIsAsked
<1>7. EndIsLoggedOnce'
  BY <1>1, <1>2 DEF NegInv, EndIsLoggedOnce
<1>8. NothingLoggedAhead'
  BY <1>1 DEF NegInv, NothingLoggedAhead
<1>. QED  BY <1>3, <1>4, <1>5, <1>6, <1>7, <1>8 DEF StoresInv

LEMMA ClosingKeeps ==
  ASSUME NegInv, NEW S, Closing(S)
  PROVE  StoresInv'
<1>1. /\ S \subseteq Open /\ Open' = Open \ S
      /\ \A i \in Open \ S : /\ conflicts'[i] = conflicts[i]
                             /\ ~InHand(i)
                             /\ conflicts[i].pair \in DOMAIN heat =>
                                  /\ conflicts[i].pair \in DOMAIN heat'
                                  /\ heat'[conflicts[i].pair] = heat[conflicts[i].pair]
      /\ DOMAIN heat' \subseteq DOMAIN heat /\ heat' \in [DOMAIN heat' -> BOOLEAN]
      /\ conn.pc \notin {"ask", "log"}
      /\ conn' = [pc |-> "log", closed |-> S]
      /\ UNCHANGED <<nextId, asked, closings, reaper>>
  BY DEF Closing
<1>2. conn'.pc = "log" /\ conn'.closed = S
  BY <1>1
<1>3. StoresTyped'
  <2>1. StoresTyped
    BY StoresAreTyped DEF NegInv
  <2>. QED  BY <1>1, <2>1 DEF StoresTyped, ConflictsTyped
<1>4. ConflictsAreHot'
  <2>. SUFFICES ASSUME NEW i \in Open \ S
                PROVE  /\ conflicts[i].pair \in DOMAIN heat' /\ heat'[conflicts[i].pair]
                       /\ OpenFor(conflicts[i].pair)' = {i}
    BY <1>1 DEF ConflictsAreHot, OpenFor
  <2>1. /\ conflicts[i].pair \in DOMAIN heat /\ heat[conflicts[i].pair]
        /\ OpenFor(conflicts[i].pair) = {i}
    BY DEF NegInv, ConflictsAreHot
  <2>2. OpenFor(conflicts[i].pair)' = {i}
    BY <1>1, <2>1 DEF OpenFor
  <2>. QED  BY <1>1, <2>1, <2>2
<1>5. AnsweredIsDecided'
  BY <1>1 DEF NegInv, AnsweredIsDecided, BothProposed
<1>6. UserIsAsked'
  BY <1>1 DEF NegInv, UserIsAsked
<1>7. EndIsLoggedOnce'
  BY <1>1, <1>2 DEF NegInv, EndIsLoggedOnce
<1>8. NothingLoggedAhead'
  BY <1>1 DEF NegInv, NothingLoggedAhead
<1>. QED  BY <1>3, <1>4, <1>5, <1>6, <1>7, <1>8 DEF StoresInv

LEMMA MarkingKeeps ==
  ASSUME NegInv, NEW S, Marking(S)
  PROVE  StoresInv'
<1>1. /\ SetState(S, "AWAITING_USER_DECISION")
      /\ \A i \in S : i \in reaper'.late \/ (conn'.pc = "ask" /\ conn'.id = i)
      /\ reaper.late \subseteq reaper'.late
      /\ conn' = conn \/ (/\ conn.pc = "decide" /\ conn'.pc = "ask"
                          /\ conn'.id = conn.id /\ conn.id \in S)
      /\ UNCHANGED <<heat, nextId, asked, closings>>
  BY DEF Marking
<1>2. StoresTyped
  BY StoresAreTyped DEF NegInv
<1>3. /\ Open' = Open
      /\ \A i \in Open \ S : conflicts'[i] = conflicts[i]
      /\ \A i \in Open \cap S : /\ conflicts'[i].state = "AWAITING_USER_DECISION"
                                /\ conflicts'[i].pair = conflicts[i].pair
                                /\ conflicts'[i].proposals = conflicts[i].proposals
      /\ ConflictsTyped'
  <2>1. "AWAITING_USER_DECISION" \in OpenStates
    BY DEF OpenStates
  <2>. QED  BY <1>1, <1>2, <2>1, SetStateFacts DEF StoresTyped
<1>4. StoresTyped'
  BY <1>1, <1>2, <1>3 DEF StoresTyped
<1>5. ConflictsAreHot'
  <2>1. \A j \in Open : conflicts'[j].pair = conflicts[j].pair
    BY <1>3
  <2>2. \A q : OpenFor(q)' = OpenFor(q)
    BY <1>3, <2>1 DEF OpenFor
  <2>. QED  BY <1>1, <1>3, <2>1, <2>2 DEF NegInv, ConflictsAreHot
<1>6. AnsweredIsDecided'
  <2>. SUFFICES ASSUME NEW j \in Open, j \notin S, BothProposed(j)'
                PROVE  conflicts'[j].state = "AWAITING_USER_DECISION" \/ InHand(j)'
    BY <1>3 DEF AnsweredIsDecided
  <2>1. conflicts'[j] = conflicts[j] /\ BothProposed(j)
    BY <1>3 DEF BothProposed
  <2>2. conflicts[j].state = "AWAITING_USER_DECISION" \/ InHand(j)
    BY <2>1 DEF NegInv, AnsweredIsDecided
  <2>. QED  BY <1>1, <2>1, <2>2 DEF InHand
<1>7. UserIsAsked'
  <2>. SUFFICES ASSUME NEW j \in Open, j \notin S, conflicts'[j].state = "AWAITING_USER_DECISION"
                PROVE  j \in asked' \/ j \in reaper'.late \/ (conn'.pc = "ask" /\ conn'.id = j)
    BY <1>1, <1>3 DEF UserIsAsked
  <2>1. j \in asked \/ j \in reaper.late \/ (conn.pc = "ask" /\ conn.id = j)
    BY <1>3 DEF NegInv, UserIsAsked
  <2>. QED  BY <1>1, <2>1
<1>8. EndIsLoggedOnce'
  BY <1>1, <1>3 DEF NegInv, EndIsLoggedOnce
<1>9. NothingLoggedAhead'
  BY <1>1 DEF NegInv, NothingLoggedAhead
<1>. QED  BY <1>4, <1>5, <1>6, <1>7, <1>8, <1>9 DEF StoresInv

LEMMA ApplyKeeps ==
  ASSUME NegInv, NEW hot \in SUBSET Pairs, ApplyHeat(hot)
  PROVE  StoresInv'
<1> DEFINE pairs == {{conn.agent, b} : b \in conn.others}
           ended == Cooled(pairs, hot)
           ids   == nextId .. nextId + Cardinality(Fresh(hot)) - 1
<1>1. /\ hot \subseteq pairs
      /\ ids \subseteq Ids /\ ids \cap Open = {}
      /\ nextId' = nextId + Cardinality(Fresh(hot)) /\ nextId' \in 1 .. MaxConflicts + 1
      /\ 1 .. nextId' - 1 = (1 .. nextId - 1) \cup ids
      /\ DOMAIN heat' = DOMAIN heat \cup pairs
      /\ \A p \in DOMAIN heat' : heat'[p] = IF p \in pairs THEN p \in hot ELSE heat[p]
      /\ Open' = (Open \ ended) \cup ids
      /\ \A i \in Open \ ended : conflicts'[i] = conflicts[i]
      /\ \A i \in ids : /\ conflicts'[i].pair \in Fresh(hot)
                        /\ conflicts'[i] = [pair |-> conflicts'[i].pair, state |-> "DETECTED",
                                            proposals |-> NoProposals]
      /\ \A i, j \in ids : conflicts'[i].pair = conflicts'[j].pair => i = j
      /\ conn' = [pc |-> "log", closed |-> ended]
  BY ApplyFacts DEF NegInv
<1>2. /\ heat' = [p \in DOMAIN heat \cup pairs |-> IF p \in pairs THEN p \in hot ELSE heat[p]]
      /\ conn.pc = "apply"
      /\ UNCHANGED <<asked, closings, reaper>>
  BY DEF ApplyHeat, logs
<1>3. \A i \in ids : nextId <= i /\ i < nextId'
  <2>1. nextId \in Nat /\ Cardinality(Fresh(hot)) \in Nat
    BY PairsAreFinite DEF NegInv, TypeOK, Fresh
  <2>. QED  BY <1>1, <2>1
<1>4. /\ \A p \in Fresh(hot) : p \in hot /\ \A i \in Open : conflicts[i].pair # p
      /\ ended \subseteq Open
      /\ \A i \in Open \ ended : conflicts[i].pair \in pairs => conflicts[i].pair \in hot
  BY DEF Fresh, Cooled, OpenFor
<1>5. StoresTyped
  BY StoresAreTyped DEF NegInv
<1>6. conn'.pc = "log" /\ conn'.closed = ended
  BY <1>1
<1>7. \A i \in ids : /\ conflicts'[i] \in ConflictRecords
                     /\ conflicts'[i].state = "DETECTED"
                     /\ conflicts'[i].proposals = NoProposals
  <2>1. \A i \in ids : conflicts'[i].pair \in Pairs
    BY <1>1, <1>4
  <2>2. \A c, q : q \in Pairs /\ c = [pair |-> q, state |-> "DETECTED", proposals |-> NoProposals]
                    => /\ c \in ConflictRecords
                       /\ c.state = "DETECTED" /\ c.proposals = NoProposals
    BY FreshRecord
  <2>. HIDE DEF ids
  <2>3. \A i \in ids : conflicts'[i] = [pair |-> conflicts'[i].pair, state |-> "DETECTED",
                                        proposals |-> NoProposals]
    BY <1>1
  <2>. QED  BY <2>1, <2>2, <2>3, ZenonT(30)
<1>. HIDE DEF pairs, ended, ids
<1>8. StoresTyped'
  <2>1. DOMAIN heat' \subseteq Pairs
    <3>1. conn.agent \in Agent /\ conn.others \subseteq Agent \ {conn.agent}
      BY <1>2 DEF NegInv, ConnCarries
    <3>2. pairs \subseteq Pairs
      BY <3>1, TwoAgentsMakeAPair DEF pairs
    <3>. QED  BY <1>1, <1>5, <3>2 DEF StoresTyped
  <2>2. heat' \in [DOMAIN heat' -> BOOLEAN]
    <3>1. heat \in [DOMAIN heat -> BOOLEAN]
      BY <1>5 DEF StoresTyped
    <3>2. \A p \in DOMAIN heat \cup pairs : (IF p \in pairs THEN p \in hot ELSE heat[p]) \in BOOLEAN
      <4>. SUFFICES ASSUME NEW p \in DOMAIN heat \cup pairs
                    PROVE  (IF p \in pairs THEN p \in hot ELSE heat[p]) \in BOOLEAN
        OBVIOUS
      <4>1. p \notin pairs => heat[p] \in BOOLEAN
        BY <3>1
      <4>2. (p \in hot) \in BOOLEAN
        OBVIOUS
      <4>3. CASE p \in pairs
        <5>1. (IF p \in pairs THEN p \in hot ELSE heat[p]) = (p \in hot)
          BY <4>3, Zenon
        <5>. QED  BY <4>2, <5>1, Zenon
      <4>4. CASE p \notin pairs
        <5>1. (IF p \in pairs THEN p \in hot ELSE heat[p]) = heat[p]
          BY <4>4, Zenon
        <5>. QED  BY <4>1, <4>4, <5>1, Zenon
      <4>. QED  BY <4>3, <4>4, Zenon
    <3>3. heat' \in [DOMAIN heat \cup pairs -> BOOLEAN]
      BY <1>2, <3>2
    <3>. QED  BY <1>1, <3>3
  <2>3. Open' \subseteq 1 .. nextId' - 1
    BY <1>1, <1>5 DEF StoresTyped
  <2>4. ConflictsTyped'
    BY <1>1, <1>5, <1>7, RecordFacts, FreshRecord, ZenonT(30) DEF StoresTyped, ConflictsTyped
  <2>. QED  BY <1>1, <1>2, <1>5, <2>1, <2>2, <2>3, <2>4 DEF StoresTyped
<1>9. ConflictsAreHot'
  <2>. SUFFICES ASSUME NEW i \in Open'
                PROVE  /\ conflicts'[i].pair \in DOMAIN heat' /\ heat'[conflicts'[i].pair]
                       /\ \A j \in Open' : conflicts'[j].pair = conflicts'[i].pair => j = i
    BY DEF ConflictsAreHot, OpenFor
  <2>1. CASE i \in ids
    BY <1>1, <1>4, <2>1
  <2>2. CASE i \in Open \ ended
    <3>1. /\ conflicts'[i] = conflicts[i] /\ conflicts[i].pair \in DOMAIN heat
          /\ heat[conflicts[i].pair] /\ OpenFor(conflicts[i].pair) = {i}
      BY <1>1, <2>2 DEF NegInv, ConflictsAreHot
    <3>2. conflicts'[i].pair \in DOMAIN heat' /\ heat'[conflicts'[i].pair]
      <4>1. PICK p : p = conflicts[i].pair
        OBVIOUS
      <4>2. conflicts'[i].pair = p /\ p \in DOMAIN heat /\ heat[p] /\ (p \in pairs => p \in hot)
        BY <1>4, <2>2, <3>1, <4>1
      <4>3. p \in DOMAIN heat' /\ heat'[p] = IF p \in pairs THEN p \in hot ELSE heat[p]
        BY <1>1, <4>2
      <4>4. heat'[p]
        BY <4>2, <4>3, Zenon
      <4>. QED
        BY <4>2, <4>3, <4>4, Zenon
    <3>3. \A j \in Open' : conflicts'[j].pair = conflicts'[i].pair => j = i
      <4>. SUFFICES ASSUME NEW j \in Open', conflicts'[j].pair = conflicts'[i].pair
                    PROVE  j = i
        OBVIOUS
      <4>1. j \notin ids
        BY <1>1, <1>4, <2>2, <3>1
      <4>2. j \in OpenFor(conflicts[i].pair)
        BY <1>1, <3>1, <4>1 DEF OpenFor
      <4>. QED  BY <3>1, <4>2
    <3>. QED  BY <3>2, <3>3
  <2>. QED  BY <1>1, <2>1, <2>2
<1>10. AnsweredIsDecided'
  <2>. SUFFICES ASSUME NEW i \in Open', BothProposed(i)'
                PROVE  conflicts'[i].state = "AWAITING_USER_DECISION"
    BY DEF AnsweredIsDecided
  <2>1. i \notin ids
    <3>. SUFFICES ASSUME i \in ids  PROVE FALSE
      OBVIOUS
    <3>1. DOMAIN conflicts'[i].proposals = {} /\ conflicts'[i].pair # {}
      BY <1>7, RecordFacts, <1>1, <1>4, FreshRecord
    <3>. QED  BY <3>1 DEF BothProposed
  <2>2. i \in Open /\ conflicts'[i] = conflicts[i] /\ BothProposed(i)
    BY <1>1, <2>1 DEF BothProposed
  <2>. QED  BY <1>2, <2>2 DEF NegInv, AnsweredIsDecided, InHand
<1>11. UserIsAsked'
  BY <1>1, <1>2, <1>7 DEF NegInv, UserIsAsked
<1>12. EndIsLoggedOnce'
  <2>. SUFFICES ASSUME NEW i \in 1 .. nextId' - 1
                PROVE  closings[i] = IF i \in Open' \/ i \in ended THEN 0 ELSE 1
    BY <1>2, <1>6 DEF EndIsLoggedOnce
  <2>1. CASE i \in ids
    BY <1>1, <1>3, <2>1 DEF NegInv, NothingLoggedAhead
  <2>2. CASE i \in 1 .. nextId - 1 /\ i \notin ids
    BY <1>1, <1>2, <1>4, <2>2 DEF NegInv, EndIsLoggedOnce
  <2>. QED  BY <1>1, <2>1, <2>2
<1>13. NothingLoggedAhead'
  <2>1. nextId \in Nat /\ nextId' \in Nat /\ Cardinality(Fresh(hot)) \in Nat
    BY <1>1, NegotiationAssumption, PairsAreFinite DEF NegInv, TypeOK, Fresh
  <2>2. nextId <= nextId'
    BY <1>1, <2>1
  <2>. QED  BY <1>2, <2>1, <2>2 DEF NegInv, NothingLoggedAhead, Ids
<1>. QED  BY <1>8, <1>9, <1>10, <1>11, <1>12, <1>13 DEF StoresInv

-----------------------------------------------------------------------------
(* The rest of the state                                                   *)

ThreadsTyped ==
  /\ present \in SUBSET Agent /\ holding \in SUBSET Agent /\ strayed \in SUBSET Agent
  /\ conn.pc \in ConnPlaces
  /\ reaper \in [pc : ReaperPlaces, old : SUBSET Ids, lost : SUBSET Agent, late : SUBSET Ids]
  /\ aged \in SUBSET Ids /\ asked \in SUBSET Ids

LEMMA TypeOKSplit == TypeOK <=> StoresTyped /\ ThreadsTyped
<1>1. TypeOK => StoresTyped
  BY StoresAreTyped
<1>2. TypeOK => ThreadsTyped
  BY DEF TypeOK, ThreadsTyped
<1>3. StoresTyped /\ ThreadsTyped => TypeOK
  BY DEF TypeOK, ThreadsTyped, StoresTyped, ConflictsTyped
<1>. QED  BY <1>1, <1>2, <1>3

LEMMA ConflictIds ==
  ASSUME StoresTyped
  PROVE  Open \subseteq Ids /\ 1 .. nextId - 1 \subseteq Ids
BY NegotiationAssumption DEF StoresTyped, Ids

\* The connection thread's places, and what it carries there.
LEMMA ConnNext ==
  ASSUME NegInv, [Next]_vars
  PROVE  conn'.pc \in ConnPlaces /\ ConnCarries'
<1>. USE DEF NegInv
<1>1. conn.pc \in ConnPlaces /\ StoresTyped /\ ConnCarries
  BY TypeOKSplit DEF ThreadsTyped
<1>2. ASSUME conn' = conn, Open' = Open, nextId' = nextId
      PROVE  conn'.pc \in ConnPlaces /\ ConnCarries'
  BY <1>1, <1>2 DEF ConnCarries
<1>3. ASSUME NEW a \in Agent, conn' = [pc |-> "snapshot", agent |-> a]
      PROVE  conn'.pc \in ConnPlaces /\ ConnCarries'
  BY <1>3 DEF ConnPlaces, ConnCarries
<1>4. ASSUME NEW S, conn' = [pc |-> "log", closed |-> S], S \subseteq (1 .. nextId' - 1) \ Open'
      PROVE  conn'.pc \in ConnPlaces /\ ConnCarries'
  BY <1>4 DEF ConnPlaces, ConnCarries
<1>5. ASSUME conn' = Idle
      PROVE  conn'.pc \in ConnPlaces /\ ConnCarries'
  BY <1>5 DEF ConnPlaces, ConnCarries, Idle
<1>6. ASSUME NEW S, Closing(S)
      PROVE  conn'.pc \in ConnPlaces /\ ConnCarries'
  <2>1. S \subseteq (1 .. nextId' - 1) \ Open'
    BY <1>1, <1>6 DEF Closing, StoresTyped
  <2>. QED  BY <1>4, <1>6, <2>1 DEF Closing
<1>7. CASE RequestNext
  <2>1. ASSUME NEW a \in Agent,
               \/ ClaimProposed(a) \/ ClearInvoked(a) \/ FileTouched(a)
               \/ \E holder \in Agent : ClaimReleased(holder, a)
        PROVE  conn' = [pc |-> "snapshot", agent |-> a]
    BY <2>1 DEF ClaimProposed, ClearInvoked, FileTouched, ClaimReleased, Recompute
  <2>2. ASSUME NEW a \in Agent, Disconnect(a)
        PROVE  conn' = conn /\ Open' = Open /\ nextId' = nextId
    BY <2>2 DEF Disconnect, stores, Open
  <2>3. ASSUME NEW i \in Ids, NEW a \in Agent, NEW p \in Proposals, ProposalSubmitted(i, a, p)
        PROVE  conn'.pc \in ConnPlaces /\ ConnCarries'
    <3>1. i \in Open' /\ conn' = [pc |-> "weigh", id |-> i]
      BY <2>3, SubmittedFacts
    <3>. QED  BY <3>1 DEF ConnPlaces, ConnCarries
  <2>4. ASSUME NEW i \in Ids, UserDecision(i)
        PROVE  Closing({i})
    BY <2>4, UserDecisionCloses
  <2>. QED  BY <1>2, <1>3, <1>6, <1>7, <2>1, <2>2, <2>3, <2>4 DEF RequestNext
<1>8. CASE HandlerNext
  <2>1. CASE Snapshot
    <3>1. /\ conn.pc = "snapshot"
          /\ \/ conn' = [pc |-> "apply", agent |-> conn.agent, others |-> Working \ {conn.agent}]
             \/ conn' = [pc |-> "drop", agent |-> conn.agent]
      BY <2>1 DEF Snapshot
    <3>2. conn.agent \in Agent /\ Working \subseteq Agent
      BY <1>1, <3>1, TypeOKSplit DEF ConnCarries, ThreadsTyped, Working
    <3>. QED  BY <3>1, <3>2 DEF ConnPlaces, ConnCarries
  <2>2. CASE DropEdges
    BY <1>6, <2>2, DropEdgesCloses
  <2>3. ASSUME NEW hot \in SUBSET Pairs, ApplyHeat(hot)
        PROVE  conn'.pc \in ConnPlaces /\ ConnCarries'
    <3>. DEFINE pairs == {{conn.agent, b} : b \in conn.others}
                ended == Cooled(pairs, hot)
                ids   == nextId .. nextId + Cardinality(Fresh(hot)) - 1
    <3>1. /\ ids \cap Open = {} /\ 1 .. nextId' - 1 = (1 .. nextId - 1) \cup ids
          /\ Open' = (Open \ ended) \cup ids
          /\ conn' = [pc |-> "log", closed |-> ended]
      BY <2>3, ApplyFacts
    <3>2. ended \subseteq Open
      BY DEF Cooled, OpenFor
    <3>. HIDE DEF pairs, ended, ids
    <3>3. ended \subseteq (1 .. nextId' - 1) \ Open'
      BY <1>1, <3>1, <3>2 DEF StoresTyped
    <3>. QED  BY <1>4, <3>1, <3>3
  <2>4. CASE Weigh
    <3>1. CASE BothProposed(conn.id)
      <4>1. /\ conn.pc = "weigh" /\ conn' = [pc |-> "queue", id |-> conn.id]
            /\ Open' = Open
        BY <2>4, <3>1 DEF Weigh, stores, Open
      <4>. QED  BY <1>1, <4>1 DEF ConnPlaces, ConnCarries
    <3>2. CASE ~BothProposed(conn.id)
      BY <1>5, <2>4, <3>2 DEF Weigh
    <3>. QED  BY <3>1, <3>2
  <2>5. CASE Queue
    <3>1. /\ conn.pc = "queue" /\ Open' = Open
          /\ conn' = [pc |-> "decide", id |-> conn.id, cycle |-> conn'.cycle]
      BY <2>5 DEF Queue, Open
    <3>2. conn.id \in Open /\ conn'.pc = "decide" /\ conn'.id = conn.id
      BY <1>1, <3>1 DEF ConnCarries
    <3>. QED  BY <3>1, <3>2 DEF ConnPlaces, ConnCarries
  <2>6. CASE Decide
    <3>1. CASE conn.cycle = NoCycle /\ Compare(ProposalOf(First), ProposalOf(Second), File).auto
      BY <1>6, <2>6, <3>1, DecideCloses
    <3>2. CASE ~(conn.cycle = NoCycle /\ Compare(ProposalOf(First), ProposalOf(Second), File).auto)
      <4>1. /\ conn.pc = "decide" /\ conn' = [conn EXCEPT !.pc = "ask"]
        BY <2>6, <3>2 DEF Decide
      <4>2. /\ conn = [pc |-> "decide", id |-> conn.id, cycle |-> conn.cycle]
            /\ conn.id \in Ids
        BY <1>1, <4>1, ConflictIds DEF ConnCarries
      <4>3. conn'.pc = "ask" /\ conn'.id = conn.id
        BY <4>1, <4>2
      <4>. QED  BY <4>2, <4>3 DEF ConnPlaces, ConnCarries
    <3>. QED  BY <3>1, <3>2
  <2>7. CASE LogAsk \/ LogClosed
    BY <1>5, <2>7 DEF LogAsk, LogClosed
  <2>. QED  BY <1>8, <2>1, <2>2, <2>3, <2>4, <2>5, <2>6, <2>7 DEF HandlerNext
<1>9. CASE ReaperNext
  <2>1. conn' = conn /\ nextId' = nextId
    BY <1>9 DEF ReaperNext, ReaperWake, ReaperReap, ReaperOrphan, ReaperSweep, ReaperAsk, stores
  <2>2. Open' = Open
    BY <1>9 DEF ReaperNext, ReaperWake, ReaperReap, ReaperOrphan, ReaperSweep, ReaperAsk, stores,
                Open, SetState
  <2>. QED  BY <1>2, <2>1, <2>2
<1>10. CASE (\E i \in Ids : GrowOld(i)) \/ UNCHANGED vars
  BY <1>2, <1>10 DEF GrowOld, vars, stores, Open
<1>. QED  BY <1>7, <1>8, <1>9, <1>10 DEF Next

LEMMA ReaperNextPlace ==
  ASSUME NegInv, [Next]_vars
  PROVE  /\ reaper' \in [pc : ReaperPlaces, old : SUBSET Ids, lost : SUBSET Agent, late : SUBSET Ids]
         /\ ReaperCarries'
<1>. DEFINE Places == [pc : ReaperPlaces, old : SUBSET Ids, lost : SUBSET Agent, late : SUBSET Ids]
<1>1. reaper \in Places /\ aged \in SUBSET Ids /\ Open \subseteq Ids
  BY TypeOKSplit, ConflictIds DEF NegInv, ThreadsTyped
<1>2. Asleep \in Places /\ Asleep.pc = "sleep" /\ Asleep.late = {}
  BY DEF Asleep, ReaperPlaces
<1>3. CASE RequestNext \/ HandlerNext \/ (\E i \in Ids : GrowOld(i)) \/ UNCHANGED vars
  <2>1. reaper' = reaper
    BY <1>3 DEF RequestNext, ClaimProposed, ClearInvoked, FileTouched, Disconnect, ClaimReleased,
                UserDecision, ProposalSubmitted, HandlerNext, Snapshot, DropEdges, ApplyHeat,
                Weigh, Queue, Decide, LogAsk, LogClosed, GrowOld, vars
  <2>. QED  BY <1>1, <2>1 DEF NegInv, ReaperCarries
<1>4. CASE ReaperWake
  <2>1. reaper' = [Asleep EXCEPT !.pc = "reap", !.old = aged]
    BY <1>4 DEF ReaperWake
  <2>2. reaper' \in Places /\ reaper'.late = {}
    BY <1>1, <2>1 DEF Asleep, ReaperPlaces
  <2>. QED  BY <2>2 DEF ReaperCarries
<1>5. CASE \E lost \in SUBSET Agent : ReaperReap(lost)
  <2>1. PICK lost \in SUBSET Agent : ReaperReap(lost)
    BY <1>5
  <2>2. reaper' = [reaper EXCEPT !.pc = IF lost = {} THEN "sweep" ELSE "orphan", !.lost = lost]
    BY <2>1 DEF ReaperReap
  <2>3. reaper.late = {}
    BY <2>1 DEF ReaperReap, NegInv, ReaperCarries
  <2>4. (IF lost = {} THEN "sweep" ELSE "orphan") \in ReaperPlaces
    BY DEF ReaperPlaces
  <2>5. reaper' \in Places /\ reaper'.late = {}
    BY <1>1, <2>2, <2>3, <2>4
  <2>. QED  BY <2>5 DEF ReaperCarries
<1>6. CASE ReaperOrphan
  <2>1. reaper' = [reaper EXCEPT !.pc = "sweep", !.lost = {}] /\ reaper.late = {}
    BY <1>6 DEF ReaperOrphan, NegInv, ReaperCarries
  <2>2. "sweep" \in ReaperPlaces
    BY DEF ReaperPlaces
  <2>3. reaper' \in Places /\ reaper'.late = {}
    BY <1>1, <2>1, <2>2
  <2>. QED  BY <2>3 DEF ReaperCarries
<1>7. CASE ReaperSweep
  <2>. DEFINE late == {i \in Open : Late(i, reaper.old)}
  <2>1. reaper' = Asleep \/ reaper' = [Asleep EXCEPT !.pc = "ask", !.late = late]
    BY <1>7 DEF ReaperSweep
  <2>2. late \in SUBSET Ids
    BY <1>1
  <2>. HIDE DEF late
  <2>3. CASE reaper' = [Asleep EXCEPT !.pc = "ask", !.late = late]
    <3>1. reaper' \in Places /\ reaper'.pc = "ask"
      BY <2>2, <2>3 DEF Asleep, ReaperPlaces
    <3>. QED  BY <3>1 DEF ReaperCarries
  <2>. QED  BY <1>2, <2>1, <2>3 DEF ReaperCarries
<1>8. CASE ReaperAsk
  BY <1>2, <1>8 DEF ReaperAsk, ReaperCarries
<1>. QED  BY <1>3, <1>4, <1>5, <1>6, <1>7, <1>8 DEF Next, ReaperNext

LEMMA ThreadsNext ==
  ASSUME NegInv, [Next]_vars
  PROVE  ThreadsTyped'
<1>1. ThreadsTyped /\ ConnCarries /\ Open \subseteq Ids
  BY TypeOKSplit, ConflictIds DEF NegInv
<1>2. present' \in SUBSET Agent /\ holding' \in SUBSET Agent
  <2>1. CASE RequestNext
    BY <1>1, <2>1 DEF ThreadsTyped, RequestNext, ClaimProposed, ClearInvoked, FileTouched, Disconnect,
                      ClaimReleased, UserDecision, ProposalSubmitted
  <2>2. CASE HandlerNext
    BY <1>1, <2>2 DEF ThreadsTyped, HandlerNext, Snapshot, DropEdges, ApplyHeat, Weigh, Queue, Decide,
                      LogAsk, LogClosed
  <2>3. CASE ReaperNext
    BY <1>1, <2>3 DEF ThreadsTyped, ReaperNext, ReaperWake, ReaperReap, ReaperOrphan, ReaperSweep,
                      ReaperAsk
  <2>4. CASE (\E i \in Ids : GrowOld(i)) \/ UNCHANGED vars
    BY <1>1, <2>4 DEF ThreadsTyped, GrowOld, vars
  <2>. QED  BY <2>1, <2>2, <2>3, <2>4 DEF Next
<1>3. strayed' \in SUBSET Agent
  <2>1. CASE RequestNext
    BY <1>1, <2>1 DEF ThreadsTyped, RequestNext, ClaimProposed, ClearInvoked, FileTouched, Disconnect,
                      ClaimReleased, UserDecision, ProposalSubmitted, logs
  <2>2. CASE HandlerNext
    BY <1>1, <2>2 DEF ThreadsTyped, HandlerNext, Snapshot, DropEdges, ApplyHeat, Weigh, Queue, Decide,
                      LogAsk, LogClosed, logs
  <2>3. CASE ReaperNext
    BY <1>1, <2>3 DEF ThreadsTyped, ReaperNext, ReaperWake, ReaperReap, ReaperOrphan, ReaperSweep,
                      ReaperAsk, logs
  <2>4. CASE (\E i \in Ids : GrowOld(i)) \/ UNCHANGED vars
    BY <1>1, <2>4 DEF ThreadsTyped, GrowOld, vars, logs
  <2>. QED  BY <2>1, <2>2, <2>3, <2>4 DEF Next
<1>4. aged' \in SUBSET Ids /\ asked' \in SUBSET Ids
  <2>1. CASE RequestNext
    BY <1>1, <2>1 DEF ThreadsTyped, RequestNext, ClaimProposed, ClearInvoked, FileTouched, Disconnect,
                      ClaimReleased, UserDecision, ProposalSubmitted, logs
  <2>2. CASE HandlerNext /\ ~LogAsk
    BY <1>1, <2>2 DEF ThreadsTyped, HandlerNext, Snapshot, DropEdges, ApplyHeat, Weigh, Queue, Decide,
                      LogClosed, logs
  <2>3. CASE LogAsk
    BY <1>1, <2>3 DEF ThreadsTyped, LogAsk, ConnCarries
  <2>4. CASE ReaperNext /\ ~ReaperAsk
    BY <1>1, <2>4 DEF ThreadsTyped, ReaperNext, ReaperWake, ReaperReap, ReaperOrphan, ReaperSweep, logs
  <2>5. CASE ReaperAsk
    BY <1>1, <2>5 DEF ThreadsTyped, ReaperAsk
  <2>6. CASE (\E i \in Ids : GrowOld(i)) \/ UNCHANGED vars
    BY <1>1, <2>6 DEF ThreadsTyped, GrowOld, vars, logs
  <2>. QED  BY <2>1, <2>2, <2>3, <2>4, <2>5, <2>6 DEF Next
<1>. QED  BY <1>2, <1>3, <1>4, ConnNext, ReaperNextPlace DEF ThreadsTyped

-----------------------------------------------------------------------------
(* The theorems                                                            *)

LEMMA NegInvInit ==
  ASSUME Init
  PROVE  NegInv
<1>. USE DEF Init
<1>1. Open = {} /\ nextId = 1 /\ 1 .. nextId - 1 = {}
  BY DEF Open
<1>2. conn.pc = "idle" /\ reaper = Asleep /\ Asleep.late = {}
  BY DEF Idle, Asleep
<1>3. StoresTyped
  <2>1. heat \in [DOMAIN heat -> BOOLEAN] /\ DOMAIN heat \subseteq Pairs
    OBVIOUS
  <2>2. closings \in [Ids -> Nat]
    OBVIOUS
  <2>. QED  BY <1>1, <2>1, <2>2, NegotiationAssumption DEF StoresTyped, ConflictsTyped
<1>4. ThreadsTyped
  BY <1>2 DEF ThreadsTyped, ConnPlaces, ReaperPlaces, Asleep
<1>5. ConnCarries /\ ReaperCarries
  BY <1>2 DEF ConnCarries, ReaperCarries
<1>6. ConflictsAreHot /\ AnsweredIsDecided /\ UserIsAsked
  BY <1>1 DEF ConflictsAreHot, AnsweredIsDecided, UserIsAsked
<1>7. EndIsLoggedOnce /\ NothingLoggedAhead
  BY <1>1 DEF EndIsLoggedOnce, NothingLoggedAhead
<1>. QED  BY <1>3, <1>4, <1>5, <1>6, <1>7, TypeOKSplit DEF NegInv

LEMMA NegInvNext ==
  ASSUME NegInv, [Next]_vars
  PROVE  NegInv'
<1>1. StoresInv'
  BY StepKinds, QuietKeeps, AskingKeeps, LogClosedKeeps, SubmittedKeeps, ClosingKeeps, MarkingKeeps,
     ApplyKeeps DEF NegInv
<1>2. ThreadsTyped' /\ ConnCarries' /\ ReaperCarries'
  BY ThreadsNext, ConnNext, ReaperNextPlace
<1>3. (StoresTyped /\ ThreadsTyped => TypeOK)'
  BY TypeOKSplit, PTL
<1>. QED  BY <1>1, <1>2, <1>3 DEF NegInv, StoresInv

\* The invariant holds at every place of the two threads, with every log entry
\* still to be written counted where it is carried.
THEOREM NegotiationInvariant == Spec => []NegInv
<1>1. Init => NegInv
  BY NegInvInit
<1>2. NegInv /\ [Next]_vars => NegInv'
  BY NegInvNext
<1>. QED  BY <1>1, <1>2, PTL DEF Spec

\* The stores and what the threads carry have their shape.
THEOREM NegotiationTypeCorrect == Spec => []TypeOK
<1>1. NegInv => TypeOK
  BY DEF NegInv
<1>. QED  BY <1>1, NegotiationInvariant, PTL

\* Opening, resolving and aborting under the conflicts lock follow the heat
\* store under another: an open conflict is backed by a stored hottest heat,
\* and no pair has two.
THEOREM OpenConflictsAreHot == Spec => []OpenConflictIsHot
<1>1. NegInv => OpenConflictIsHot
  BY DEF NegInv, ConflictsAreHot, OpenConflictIsHot
<1>. QED  BY <1>1, NegotiationInvariant, PTL

\* record_proposal reopens a conflict in any state, and finalize_negotiation
\* always decides it again before the request is answered.
THEOREM AnsweredConflictsAreDecided == Spec => []BothProposedDecided
<1>1. ConnIdle => conn.pc = "idle"
  BY DEF ConnIdle, Idle
<1>2. NegInv => BothProposedDecided
  BY <1>1 DEF NegInv, AnsweredIsDecided, InHand, BothProposedDecided
<1>. QED  BY <1>2, NegotiationInvariant, PTL

\* No conflict waits for a user who is not asked: not after a decision, a
\* sweep, or a decision and a sweep of the same conflict at once.
THEOREM TheUserIsAsked == Spec => []UserIsAsked
<1>1. NegInv => UserIsAsked
  BY DEF NegInv
<1>. QED  BY <1>1, NegotiationInvariant, PTL

\* The user, an agreement, cooling and a dropped agent may end a conflict; one
\* of them does, and logs it once.
THEOREM EveryEndIsLoggedOnce == Spec => []EndIsLoggedOnce
<1>1. NegInv => EndIsLoggedOnce
  BY DEF NegInv
<1>. QED  BY <1>1, NegotiationInvariant, PTL

-----------------------------------------------------------------------------
(* Wait edges                                                              *)

Waits == Seq(Edges(Agent))

LEMMA ForgetWaitsFacts ==
  ASSUME NEW g \in Waits, NEW p
  PROVE  ForgetWaits(g, p) \in Waits /\ Nodes(ForgetWaits(g, p)) \subseteq Nodes(g)
<1> DEFINE S == {e \in ToSet(g) : {e.from, e.to} \cap p = {}}
<1>1. ForgetWaits(g, p) = Retain(g, S)
  BY DEF ForgetWaits
<1>. HIDE DEF S
<1>2. ForgetWaits(g, p) \in Waits /\ ToSet(ForgetWaits(g, p)) \subseteq ToSet(g) \cap S
  BY <1>1, RetainFacts DEF Waits
<1>. QED
  BY <1>2 DEF Nodes

LEMMA WaitsGrow ==
  ASSUME NEW g \in Waits, NEW a \in Agent, NEW b \in Agent
  PROVE  AddEdge(g, a, b) \in Waits /\ Nodes(AddEdge(g, a, b)) \subseteq Nodes(g) \cup {a, b}
BY AddEdgeFacts DEF Waits

LEMMA InOrderFacts ==
  ASSUME NEW p \in Pairs
  PROVE  InOrder(p)[1] \in p /\ InOrder(p)[2] \in p
<1>1. p \subseteq Agent /\ Cardinality(p) = 2
  BY DEF Pairs
<1>2. IsFiniteSet(p)
  BY <1>1, NegotiationAssumption, FS_Subset
<1>3. PICK f : f \in Bijection(1 .. 2, p)
  BY <1>1, <1>2, FS_CardinalityType DEF ExistsBijection
<1>4. f \in SetToSeqs(p)
  <2>1. f \in [1 .. 2 -> p] /\ \A i, j \in 1 .. 2 : i # j => f[i] # f[j]
    BY <1>3 DEF Bijection, Injection, IsInjective
  <2>. QED
    BY <1>1, <2>1 DEF SetToSeqs
<1>5. InOrder(p) \in SetToSeqs(p)
  BY <1>4 DEF InOrder
<1>6. InOrder(p) \in [1 .. 2 -> p]
  BY <1>1, <1>5 DEF SetToSeqs
<1>. QED
  BY <1>6

-----------------------------------------------------------------------------
(* Agents without a claim                                                  *)

Free    == present \ (holding \cup strayed)
Tied(a) == \/ \E p \in DOMAIN heat : a \in p
           \/ a \in Nodes(waits)
           \/ \E i \in Open : a \in conflicts[i].pair

\* The thread is about to look at the claims of a, or to drop what a has.
Due(a) == conn.pc \in {"snapshot", "drop"} /\ conn.agent = a

NoTies == \A a \in Free : Due(a) \/ ~Tied(a)

\* An agent that the reaper has lost is gone from the registry before its
\* claims are; so what a snapshot has found at work still holds its claims, or
\* is not registered any more.
SnapshotInv ==
  /\ reaper.lost \cap present = {}
  /\ conn.pc = "apply" => present \cap (conn.others \cup {conn.agent}) \subseteq holding

TiesInv == waits \in Waits /\ SnapshotInv /\ NoTies

LEMMA NoTiesKept ==
  ASSUME NoTies,
         \A a \in Free' : Due(a)' \/ ~Tied(a)' \/ (a \in Free /\ ~Due(a) /\ (Tied(a)' => Tied(a)))
  PROVE  NoTies'
BY DEF NoTies

LEMMA TiedByStores ==
  ASSUME UNCHANGED <<heat, waits>>, Open' \subseteq Open,
         \A i \in Open' : conflicts'[i].pair = conflicts[i].pair
  PROVE  \A a : Tied(a)' => Tied(a)
BY DEF Tied

\* A request changes no store but the conflicts; whoever loses a claim by it is
\* looked at next, or strayed.
LEMMA RequestTies ==
  ASSUME NegInv, TiesInv, RequestNext
  PROVE  TiesInv'
<1>1. conn.pc = "idle" /\ \A a : ~Due(a)
  <2>1. conn = Idle
    BY DEF RequestNext, ClaimProposed, ClaimReleased, ClearInvoked, FileTouched, Disconnect,
           ProposalSubmitted, UserDecision, ConnIdle
  <2>2. conn.pc = "idle"
    BY <2>1 DEF Idle
  <2>. QED
    BY <2>2 DEF Due
<1>2. reaper' = reaper /\ present' \subseteq present
  BY DEF RequestNext, ClaimProposed, ClaimReleased, ClearInvoked, FileTouched, Disconnect,
         ProposalSubmitted, UserDecision
<1>3. ASSUME NEW a \in Agent,
             \/ ClaimProposed(a) \/ ClearInvoked(a) \/ FileTouched(a)
             \/ \E holder \in Agent : ClaimReleased(holder, a)
      PROVE  TiesInv'
  <2>1. conn' = [pc |-> "snapshot", agent |-> a] /\ UNCHANGED <<heat, waits, conflicts>>
    BY <1>3 DEF ClaimProposed, ClaimReleased, ClearInvoked, FileTouched, Recompute, stores
  <2>2. conn'.pc = "snapshot" /\ conn'.agent = a
    BY <2>1
  <2>3. SnapshotInv'
    BY <1>2, <2>2 DEF TiesInv, SnapshotInv
  <2>4. \A b : Tied(b)' => Tied(b)
    BY <2>1, TiedByStores DEF Open
  <2>5. Due(a)'
    BY <2>2 DEF Due
  <2>6. \A b \in Free' : b = a \/ b \in Free
    BY <1>2, <1>3 DEF Free, ClaimProposed, ClaimReleased, ClearInvoked, FileTouched, logs
  <2>7. NoTies'
    BY <1>1, <2>4, <2>5, <2>6, NoTiesKept DEF TiesInv
  <2>. QED
    BY <2>1, <2>3, <2>7 DEF TiesInv
<1>4. ASSUME NEW a \in Agent, Disconnect(a) PROVE TiesInv'
  <2>1. conn' = conn /\ UNCHANGED <<heat, waits, conflicts, holding, strayed>>
    BY <1>4 DEF Disconnect, stores, logs
  <2>2. SnapshotInv'
    BY <1>1, <1>2, <2>1 DEF TiesInv, SnapshotInv
  <2>3. \A b : Tied(b)' => Tied(b)
    BY <2>1, TiedByStores DEF Open
  <2>4. Free' \subseteq Free
    BY <1>2, <2>1 DEF Free
  <2>5. NoTies'
    BY <1>1, <2>3, <2>4, NoTiesKept DEF TiesInv
  <2>. QED
    BY <2>1, <2>2, <2>5 DEF TiesInv
<1>5. ASSUME NEW i \in Ids, NEW a \in Agent, NEW p \in Proposals, ProposalSubmitted(i, a, p)
      PROVE  TiesInv'
  <2>1. /\ conn' = [pc |-> "weigh", id |-> i] /\ UNCHANGED <<heat, waits, present, holding, strayed>>
        /\ i \in Open
        /\ conflicts' = [conflicts EXCEPT
             ![i] = [pair |-> @.pair, state |-> "NEGOTIATING",
                     proposals |-> [x \in DOMAIN @.proposals \cup {a} |->
                                      IF x = a THEN p ELSE @.proposals[x]]]]
    BY <1>5 DEF ProposalSubmitted, logs
  <2>2. conn'.pc = "weigh"
    BY <2>1
  <2>3. Open' = Open /\ \A j \in Open : conflicts'[j].pair = conflicts[j].pair
    BY <2>1 DEF Open
  <2>4. \A b : Tied(b)' => Tied(b)
    BY <2>1, <2>3, TiedByStores
  <2>5. SnapshotInv' /\ Free' = Free
    BY <1>2, <2>1, <2>2 DEF TiesInv, SnapshotInv, Free
  <2>6. NoTies'
    BY <1>1, <2>4, <2>5, NoTiesKept DEF TiesInv
  <2>. QED
    BY <2>1, <2>5, <2>6 DEF TiesInv
<1>6. ASSUME NEW i \in Ids, UserDecision(i) PROVE TiesInv'
  <2>1. /\ conn' = [pc |-> "log", closed |-> {i}] /\ UNCHANGED <<heat, present, holding, strayed>>
        /\ waits' = ForgetWaits(waits, conflicts[i].pair)
        /\ Close({i})
    BY <1>6 DEF UserDecision, logs
  <2>2. conn'.pc = "log"
    BY <2>1
  <2>3. Open' \subseteq Open /\ \A j \in Open' : conflicts'[j] = conflicts[j]
    BY <2>1, CloseFacts
  <2>4. waits' \in Waits /\ Nodes(waits') \subseteq Nodes(waits)
    BY <2>1, ForgetWaitsFacts DEF TiesInv
  <2>5. \A b : Tied(b)' => Tied(b)
    BY <2>1, <2>3, <2>4 DEF Tied
  <2>6. SnapshotInv' /\ Free' = Free
    BY <1>2, <2>1, <2>2 DEF TiesInv, SnapshotInv, Free
  <2>7. NoTies'
    BY <1>1, <2>5, <2>6, NoTiesKept DEF TiesInv
  <2>. QED
    BY <2>4, <2>6, <2>7 DEF TiesInv
<1>. QED
  BY <1>3, <1>4, <1>5, <1>6 DEF RequestNext

\* Of an agent that is not at work nothing is left; of agents at work new ties
\* are stored, and of two whose conflict is decided.
LEMMA DropTies ==
  ASSUME TiesInv, DropEdges
  PROVE  TiesInv'
<1>0. PICK b : b = conn.agent
  OBVIOUS
<1>1. /\ conn.pc = "drop" /\ UNCHANGED <<present, holding, strayed, reaper>>
      /\ heat' = Restrict(heat, {p \in DOMAIN heat : b \notin p})
      /\ waits' = RemoveAgent(waits, b) /\ Close(OpenOf(b))
      /\ conn' = [pc |-> "log", closed |-> OpenOf(b)]
  BY <1>0 DEF DropEdges, logs
<1>2. conn'.pc = "log"
  BY <1>1
<1>3. DOMAIN heat' = {p \in DOMAIN heat : b \notin p}
  BY <1>1 DEF Restrict
<1>4. waits' \in Waits /\ Nodes(waits') \subseteq Nodes(waits) \ {b}
  BY <1>1, RemoveAgentFacts DEF TiesInv, Waits
<1>5. /\ Open' = Open \ OpenOf(b)
      /\ \A i \in Open' : conflicts'[i] = conflicts[i] /\ b \notin conflicts[i].pair
  BY <1>1, CloseFacts DEF OpenOf
<1>6. /\ \A a : Tied(a)' => Tied(a)
      /\ \A a : a = b => ~Tied(a)'
  <2>1. \A p \in DOMAIN heat' : p \in DOMAIN heat /\ b \notin p
    BY <1>3
  <2>2. \A i \in Open' : i \in Open /\ conflicts'[i].pair = conflicts[i].pair /\ b \notin conflicts'[i].pair
    BY <1>5
  <2>3. \A a : Tied(a)' => Tied(a)
    BY <1>4, <2>1, <2>2 DEF Tied
  <2>4. \A a : a = b => ~Tied(a)'
    BY <1>4, <2>1, <2>2 DEF Tied
  <2>. QED
    BY <2>3, <2>4
<1>7. \A a : Due(a) => a = b
  BY <1>0 DEF Due
<1>8. SnapshotInv' /\ Free' = Free
  BY <1>1, <1>2 DEF TiesInv, SnapshotInv, Free
<1>9. NoTies'
  <2>1. \A a \in Free' : ~Tied(a)' \/ (a \in Free /\ ~Due(a) /\ (Tied(a)' => Tied(a)))
    BY <1>6, <1>7, <1>8
  <2>. QED
    BY <2>1, NoTiesKept DEF TiesInv
<1>. QED
  BY <1>4, <1>8, <1>9 DEF TiesInv

LEMMA ApplyTies ==
  ASSUME NegInv, TiesInv, NEW hot \in SUBSET Pairs, ApplyHeat(hot)
  PROVE  TiesInv'
<1> DEFINE pairs == {{conn.agent, b} : b \in conn.others}
           ended == Cooled(pairs, hot)
           ids   == nextId .. nextId + Cardinality(Fresh(hot)) - 1
<1>1. /\ conn.pc = "apply" /\ UNCHANGED <<present, holding, strayed, reaper, waits>>
      /\ conn' = [pc |-> "log", closed |-> ended]
  BY DEF ApplyHeat, logs
<1>2. conn'.pc = "log"
  BY <1>1
<1>3. /\ hot \subseteq pairs /\ DOMAIN heat' = DOMAIN heat \cup pairs
      /\ Open' = (Open \ ended) \cup ids
      /\ \A i \in Open \ ended : conflicts'[i] = conflicts[i]
      /\ \A i \in ids : conflicts'[i].pair \in Fresh(hot)
  BY ApplyFacts DEF NegInv
<1>4. Fresh(hot) \subseteq pairs
  BY <1>3 DEF Fresh
<1>5. ASSUME NEW a \in Free PROVE \A p \in pairs : a \notin p
  BY <1>1 DEF TiesInv, SnapshotInv, Free
<1>. HIDE DEF pairs, ended, ids
<1>6. \A a \in Free : Tied(a)' => Tied(a)
  BY <1>1, <1>3, <1>4, <1>5 DEF Tied
<1>7. \A a : ~Due(a)
  BY <1>1 DEF Due
<1>8. SnapshotInv' /\ Free' = Free
  BY <1>1, <1>2 DEF TiesInv, SnapshotInv, Free
<1>9. NoTies'
  BY <1>6, <1>7, <1>8, NoTiesKept DEF TiesInv
<1>. QED
  BY <1>1, <1>8, <1>9 DEF TiesInv

LEMMA QueueTies ==
  ASSUME NegInv, TiesInv, Queue
  PROVE  TiesInv'
<1> DEFINE pr == conflicts[conn.id].pair
<1>1. /\ conn.pc = "queue" /\ UNCHANGED <<present, holding, strayed, reaper, heat, conflicts>>
      /\ waits' = QueueEdges /\ conn'.pc = "decide"
  BY DEF Queue, logs
<1>2. conn.id \in Open
  BY <1>1 DEF NegInv, ConnCarries
<1>3. pr \in Pairs
  <2>1. conflicts[conn.id] \in ConflictRecords
    BY <1>2 DEF NegInv, TypeOK
  <2>. QED
    BY <2>1 DEF ConflictRecords
<1>4. First \in pr /\ Second \in pr /\ pr \subseteq Agent
  BY <1>3, InOrderFacts DEF First, Second, Pairs
<1> DEFINE one == IF ProposalOf(First).kind = "QUEUE_TASK"
                    THEN AddEdge(waits, First, Second) ELSE waits
<1>5. waits' = IF ProposalOf(Second).kind = "QUEUE_TASK" THEN AddEdge(one, Second, First) ELSE one
  BY <1>1 DEF QueueEdges
<1>6. one \in Waits /\ Nodes(one) \subseteq Nodes(waits) \cup pr
  BY <1>4, WaitsGrow DEF TiesInv
<1>. HIDE DEF one
<1>7. waits' \in Waits /\ Nodes(waits') \subseteq Nodes(waits) \cup pr
  BY <1>4, <1>5, <1>6, WaitsGrow
<1>8. \A a : Tied(a)' => Tied(a)
  BY <1>1, <1>2, <1>7 DEF Tied, Open
<1>9. \A a : ~Due(a)
  BY <1>1 DEF Due
<1>10. SnapshotInv' /\ Free' = Free
  BY <1>1 DEF TiesInv, SnapshotInv, Free
<1>11. NoTies'
  BY <1>8, <1>9, <1>10, NoTiesKept DEF TiesInv
<1>. QED
  BY <1>7, <1>10, <1>11 DEF TiesInv

LEMMA DecideTies ==
  ASSUME NegInv, TiesInv, Decide
  PROVE  TiesInv'
<1>1. /\ conn.pc = "decide" /\ UNCHANGED <<present, holding, strayed, reaper, heat>>
      /\ \/ /\ Close({conn.id})
            /\ waits' = ForgetWaits(waits, conflicts[conn.id].pair)
            /\ conn' = [pc |-> "log", closed |-> {conn.id}]
         \/ /\ SetState({conn.id}, "AWAITING_USER_DECISION")
            /\ conn' = [conn EXCEPT !.pc = "ask"]
            /\ waits' = waits
  BY DEF Decide, logs
<1>2. conn = [pc |-> "decide", id |-> conn.id, cycle |-> conn.cycle]
  BY <1>1 DEF NegInv, ConnCarries
<1>3. conn'.pc \in {"log", "ask"}
  BY <1>1, <1>2
<1>4. waits' \in Waits /\ Nodes(waits') \subseteq Nodes(waits)
  BY <1>1, ForgetWaitsFacts DEF TiesInv
<1>5. Open' \subseteq Open /\ \A i \in Open' : conflicts'[i].pair = conflicts[i].pair
  BY <1>1, CloseFacts, SetStateFacts, StoresAreTyped DEF NegInv, StoresTyped, OpenStates
<1>6. \A a : Tied(a)' => Tied(a)
  BY <1>1, <1>4, <1>5 DEF Tied
<1>7. \A a : ~Due(a)
  BY <1>1 DEF Due
<1>8. SnapshotInv' /\ Free' = Free
  BY <1>1, <1>3 DEF TiesInv, SnapshotInv, Free
<1>9. NoTies'
  BY <1>6, <1>7, <1>8, NoTiesKept DEF TiesInv
<1>. QED
  BY <1>4, <1>8, <1>9 DEF TiesInv

LEMMA SnapshotTies ==
  ASSUME NegInv, TiesInv, Snapshot
  PROVE  TiesInv'
<1>0. PICK b : b = conn.agent
  OBVIOUS
<1>1. /\ conn.pc = "snapshot" /\ UNCHANGED <<present, holding, reaper, heat, waits, conflicts>>
      /\ strayed' = strayed \ {b}
      /\ conn' = IF b \in Working
                   THEN [pc |-> "apply", agent |-> b, others |-> Working \ {b}]
                   ELSE [pc |-> "drop", agent |-> b]
  BY <1>0 DEF Snapshot, stores
<1>2. \A a : Tied(a)' => Tied(a)
  BY <1>1, TiedByStores DEF Open
<1>3. \A a : Due(a) => a = b
  BY <1>0 DEF Due
<1>4. \A a \in Free' : a # b => a \in Free
  BY <1>1 DEF Free
<1>5. CASE b \in Working
  <2>1. conn'.pc = "apply" /\ conn'.agent = b /\ conn'.others = Working \ {b}
    BY <1>1, <1>5
  <2>2. SnapshotInv' /\ b \notin Free'
    BY <1>1, <1>5, <2>1 DEF TiesInv, SnapshotInv, Free, Working
  <2>3. \A a \in Free' : a \in Free /\ ~Due(a) /\ (Tied(a)' => Tied(a))
    BY <1>2, <1>3, <1>4, <2>2
  <2>4. NoTies'
    BY <2>3, NoTiesKept DEF TiesInv
  <2>. QED
    BY <1>1, <2>2, <2>4 DEF TiesInv
<1>6. CASE b \notin Working
  <2>1. conn'.pc = "drop" /\ conn'.agent = b
    BY <1>1, <1>6
  <2>2. SnapshotInv'
    BY <1>1, <2>1 DEF TiesInv, SnapshotInv
  <2>3. \A a : a = b => Due(a)'
    BY <2>1 DEF Due
  <2>4. \A a \in Free' : Due(a)' \/ (a \in Free /\ ~Due(a) /\ (Tied(a)' => Tied(a)))
    BY <1>2, <1>3, <1>4, <2>3
  <2>5. NoTies'
    BY <2>4, NoTiesKept DEF TiesInv
  <2>. QED
    BY <1>1, <2>2, <2>5 DEF TiesInv
<1>. QED
  BY <1>5, <1>6

LEMMA HandlerTies ==
  ASSUME NegInv, TiesInv, HandlerNext
  PROVE  TiesInv'
<1>1. ASSUME Weigh \/ LogAsk \/ LogClosed PROVE TiesInv'
  <2>1. /\ conn.pc \in {"weigh", "ask", "log"}
        /\ UNCHANGED <<present, holding, strayed, reaper, heat, waits, conflicts>>
        /\ conn' = Idle \/ conn' = [pc |-> "queue", id |-> conn.id]
    BY <1>1 DEF Weigh, LogAsk, LogClosed, stores, logs
  <2>2. conn'.pc \in {"idle", "queue"}
    BY <2>1 DEF Idle
  <2>3. \A a : Tied(a)' => Tied(a)
    BY <2>1, TiedByStores DEF Open
  <2>4. \A a : ~Due(a)
    BY <2>1 DEF Due
  <2>5. SnapshotInv' /\ Free' = Free
    BY <2>1, <2>2 DEF TiesInv, SnapshotInv, Free
  <2>6. NoTies'
    BY <2>3, <2>4, <2>5, NoTiesKept DEF TiesInv
  <2>. QED
    BY <2>1, <2>5, <2>6 DEF TiesInv
<1>. QED
  BY <1>1, SnapshotTies, DropTies, ApplyTies, QueueTies, DecideTies DEF HandlerNext

\* What the reaper takes from an agent it has lost before.
LEMMA ReaperTies ==
  ASSUME NegInv, TiesInv, ReaperNext \/ (\E i \in Ids : GrowOld(i)) \/ UNCHANGED vars
  PROVE  TiesInv'
<1>1. conn' = conn /\ strayed' = strayed /\ waits' = waits /\ heat' = heat
  BY DEF ReaperNext, ReaperWake, ReaperReap, ReaperOrphan, ReaperSweep, ReaperAsk, GrowOld, vars,
         stores, logs
<1>2. Open' = Open /\ \A i \in Open : conflicts'[i].pair = conflicts[i].pair
  <2>1. conflicts' = conflicts \/ \E S \in SUBSET Open : SetState(S, "AWAITING_USER_DECISION")
    BY DEF ReaperNext, ReaperWake, ReaperReap, ReaperOrphan, ReaperSweep, ReaperAsk, GrowOld, vars,
           stores
  <2>. QED
    BY <2>1, SetStateFacts, StoresAreTyped DEF NegInv, StoresTyped, OpenStates, Open
<1>3. reaper \in [pc : ReaperPlaces, old : SUBSET Ids, lost : SUBSET Agent, late : SUBSET Ids]
  BY DEF NegInv, TypeOK
<1>4. /\ present' \subseteq present /\ reaper'.lost \cap present' = {}
      /\ holding' = holding \/ holding' = holding \ reaper.lost
  <2>1. reaper.lost \cap present = {} /\ Asleep.lost = {}
    BY DEF TiesInv, SnapshotInv, Asleep
  <2>2. CASE ReaperWake \/ ReaperSweep \/ ReaperAsk
    <3>1. present' = present /\ holding' = holding
      BY <2>2 DEF ReaperWake, ReaperSweep, ReaperAsk
    <3>2. [Asleep EXCEPT !.pc = "reap", !.old = aged].lost = {}
      BY DEF Asleep
    <3>3. \A late : [Asleep EXCEPT !.pc = "ask", !.late = late].lost = {}
      BY DEF Asleep
    <3>4. ASSUME ReaperWake PROVE reaper'.lost = {}
      BY <3>2, <3>4 DEF ReaperWake
    <3>5. ASSUME ReaperSweep PROVE reaper'.lost = {}
      BY <2>1, <3>3, <3>5 DEF ReaperSweep
    <3>6. ASSUME ReaperAsk PROVE reaper'.lost = {}
      BY <2>1, <3>6 DEF ReaperAsk
    <3>7. reaper'.lost = {}
      BY <2>2, <3>4, <3>5, <3>6
    <3>. QED
      BY <3>1, <3>7
  <2>3. ASSUME NEW lost \in SUBSET Agent, ReaperReap(lost)
        PROVE  present' = present \ lost /\ holding' = holding /\ reaper'.lost = lost
    BY <1>3, <2>3 DEF ReaperReap
  <2>4. CASE ReaperOrphan
    BY <1>3, <2>1, <2>4 DEF ReaperOrphan
  <2>5. CASE (\E i \in Ids : GrowOld(i)) \/ UNCHANGED vars
    BY <2>1, <2>5 DEF GrowOld, vars
  <2>. QED
    BY <2>2, <2>3, <2>4, <2>5 DEF ReaperNext
<1>5. Free' \subseteq Free
  BY <1>1, <1>4 DEF TiesInv, SnapshotInv, Free
<1>6. SnapshotInv'
  BY <1>1, <1>4 DEF TiesInv, SnapshotInv
<1>7. \A a : Tied(a)' => Tied(a)
  BY <1>1, <1>2, TiedByStores
<1>8. \A a : Due(a) => Due(a)'
  BY <1>1 DEF Due
<1>9. NoTies'
  BY <1>5, <1>7, <1>8, NoTiesKept DEF TiesInv
<1>. QED
  BY <1>1, <1>6, <1>9 DEF TiesInv

\* Whatever the reaper loses while a request is handled, and in whatever order
\* requests come: an agent without a claim has no heat, no wait and no conflict
\* once its request has been handled.
THEOREM NoClaimNoTies == Spec => []TiesNeedClaims
<1>1. Init => NegInv /\ TiesInv
  <2> SUFFICES ASSUME Init PROVE TiesInv
    BY NegInvInit
  <2>1. waits = <<>> /\ ToSet(waits) = {} /\ DOMAIN heat = {} /\ Open = {}
    BY DEF Init, ToSet, Open
  <2>2. conn.pc = "idle" /\ reaper.lost = {}
    BY DEF Init, Idle, Asleep
  <2>3. waits \in Waits /\ Nodes(waits) = {}
    BY <2>1 DEF Waits, Nodes
  <2>. QED
    BY <2>1, <2>2, <2>3 DEF TiesInv, SnapshotInv, NoTies, Tied
<1>2. NegInv /\ TiesInv /\ [Next]_vars => (NegInv /\ TiesInv)'
  BY NegInvNext, RequestTies, HandlerTies, ReaperTies DEF Next
<1>3. TiesInv => TiesNeedClaims
  <2>1. ConnIdle => \A a : ~Due(a)
    BY DEF ConnIdle, Idle, Due
  <2>. QED
    BY <2>1 DEF TiesInv, NoTies, Free, Tied, TiesNeedClaims, OpenOf
<1>. QED
  BY <1>1, <1>2, <1>3, PTL DEF Spec
=============================================================================
