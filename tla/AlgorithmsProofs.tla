-------------------------- MODULE AlgorithmsProofs --------------------------
(***************************************************************************)
(* How proposals are compared, what the rate limiter lets through, what    *)
(* touches teach, what makes two agents hot, what statistics add up to and *)
(* which cycles are found: for every setting of what is protected, every   *)
(* rate, window and number of senders, every set of files, domains and     *)
(* words, and every number of events and of waiting agents.                *)
(***************************************************************************)
EXTENDS MCConflictRules, MCHeat, MCRecap, MCWaitGraph, RateLimit, WaitGraphProofs

-----------------------------------------------------------------------------
(* The comparison of two proposals                                         *)

\* Looking at either proposal for a kind does not depend on their order.
LEMMA KindsAreUnordered ==
  ASSUME NEW x, NEW y
  PROVE  /\ \A kinds : Either(x, y, kinds) <=> Either(y, x, kinds)
         /\ \A kind : Both(x, y, kind) <=> Both(y, x, kind)
         /\ x.approval \/ y.approval <=> y.approval \/ x.approval
         /\ x.files \cap y.files = y.files \cap x.files
BY DEF Either, Both

\* The outcome does not depend on which proposal is stored first.
LEMMA CompareIsSymmetric ==
  ASSUME NEW x, NEW y, NEW named
  PROVE  Compare(x, y, named) = Compare(y, x, named)
BY KindsAreUnordered DEF Compare

\* The rules, tried in their order, resolve a conflict without the user when
\* nobody needs the user and the proposals agree, and only then.
LEMMA CompareIsJust ==
  ASSUME NEW x \in ProposalRecords, NEW y \in ProposalRecords,
         NEW named \in SUBSET File
  PROVE  Compare(x, y, named).auto <=> ~NeedsUser(x, y, named) /\ Agree(x, y)
<1>1. x.kind \in Kinds /\ y.kind \in Kinds
      /\ x.approval \in BOOLEAN /\ y.approval \in BOOLEAN
  BY DEF ProposalRecords
<1>2. NeedsUser(x, y, named) <=> \/ x.approval \/ y.approval
                                 \/ Either(x, y, {"ASK_USER"})
                                 \/ named \cap Protected # {}
  BY <1>1 DEF NeedsUser, Either
<1>3. Agree(x, y) <=>
        \/ Either(x, y, StepAside)
        \/ Either(x, y, {"QUEUE_TASK"}) /\ ~Both(x, y, "QUEUE_TASK")
        \/ Both(x, y, "SPLIT_SCOPE") /\ x.files \cap y.files = {}
        \/ Both(x, y, "CO_OWN") /\ AllowCoOwn
  <2>1. {x.kind, y.kind} \cap StepAside # {} <=> Either(x, y, StepAside)
    BY DEF Either
  <2>2. "QUEUE_TASK" \in {x.kind, y.kind} /\ {x.kind, y.kind} # {"QUEUE_TASK"}
          <=> Either(x, y, {"QUEUE_TASK"}) /\ ~Both(x, y, "QUEUE_TASK")
    BY DEF Either, Both
  <2>3. \A k : {x.kind, y.kind} = {k} <=> Both(x, y, k)
    BY DEF Both
  <2>4. (\A f \in x.files : f \notin y.files) <=> x.files \cap y.files = {}
    OBVIOUS
  <2>. QED
    BY <2>1, <2>2, <2>3, <2>4 DEF Agree
<1>4. ~ (Both(x, y, "SPLIT_SCOPE") /\ Both(x, y, "CO_OWN"))
  BY DEF Both
<1>5. /\ \A r : AutoResolve(r).auto = TRUE
      /\ \A r : Escalate(r).auto = FALSE
  BY DEF AutoResolve, Escalate
<1>6. CASE NeedsUser(x, y, named)
  <2>1. \E r : Compare(x, y, named) = Escalate(r)
    BY <1>2, <1>6 DEF Compare
  <2>. QED
    BY <2>1, <1>5, <1>6
<1>7. CASE ~NeedsUser(x, y, named) /\ Agree(x, y)
  <2>1. \E r : Compare(x, y, named) = AutoResolve(r)
    BY <1>2, <1>3, <1>4, <1>7 DEF Compare
  <2>. QED
    BY <2>1, <1>5, <1>7
<1>8. CASE ~NeedsUser(x, y, named) /\ ~Agree(x, y)
  <2>1. \E r : Compare(x, y, named) = Escalate(r)
    BY <1>2, <1>3, <1>8 DEF Compare
  <2>. QED
    BY <2>1, <1>5, <1>8
<1>. QED
  BY <1>6, <1>7, <1>8

-----------------------------------------------------------------------------
(* The same of the comparisons MCConflictRules makes                       *)

\* The proposals and paths are what they were, and a decision is Compare's.
Compared ==
  /\ mine \in ProposalRecords /\ theirs \in ProposalRecords /\ contested \in SUBSET File
  /\ decision = Undecided \/ decision = Compare(mine, theirs, contested)

LEMMA SpecCompares == RulesSpec => []Compared
<1>1. RulesInit => Compared
  BY DEF RulesInit, Compared
<1>2. Compared /\ [Decide]_rulesVars => Compared'
  BY DEF Compared, Decide, rulesVars
<1>. QED
  BY <1>1, <1>2, PTL DEF RulesSpec

\* DecisionIsSymmetric: which agent's proposal is stored first has no say.
THEOREM DecisionsAreSymmetric == RulesSpec => []DecisionIsSymmetric
<1>1. Compared => DecisionIsSymmetric
  <2>. SUFFICES ASSUME Compared, decision # Undecided
                PROVE  decision = Compare(theirs, mine, contested)
    BY DEF DecisionIsSymmetric
  <2>. QED
    BY CompareIsSymmetric DEF Compared
<1>. QED
  BY <1>1, SpecCompares, PTL

\* DecisionIsJust: no high-risk conflict is silently auto-resolved, and none
\* that the rules can settle is put to the user.
THEOREM DecisionsAreJust == RulesSpec => []DecisionIsJust
<1>1. Compared => DecisionIsJust
  <2>. SUFFICES ASSUME Compared, decision # Undecided
                PROVE  decision.auto <=> ~NeedsUser(mine, theirs, contested) /\ Agree(mine, theirs)
    BY DEF DecisionIsJust
  <2>. QED
    BY CompareIsJust DEF Compared
<1>. QED
  BY <1>1, SpecCompares, PTL

-----------------------------------------------------------------------------
(* The rate limiter                                                        *)

\* The events of a bucket that got through from lo on and before hi.
Through(k, lo, hi) ==
  {i \in DOMAIN passed : /\ passed[i].bucket = k
                         /\ passed[i].at >= lo /\ passed[i].at < hi}

RateTypes ==
  /\ clock \in Nat
  /\ rates \in [Buckets -> [count : Nat, start : Nat \cup {-1}]]
  /\ \A k \in Buckets : rates[k].start <= clock /\ (rates[k].start = -1 => rates[k] = Unused)
  /\ passed \in Seq([bucket : Buckets, at : Nat])
  /\ \A i \in DOMAIN passed : passed[i].at <= clock

\* The window that a bucket counts has let through no more than its count, nor
\* more than the rate; and what got through so shortly before it began that a
\* window's length spans both was in one window too.
WindowInv ==
  \A k \in Buckets :
    LET s == rates[k].start
    IN  /\ Cardinality(Through(k, s, clock + 1)) <= rates[k].count
        /\ Cardinality(Through(k, s, clock + 1)) <= Rate
        /\ Cardinality(Through(k, s - RateWindow + 1, s)) <= Rate
        /\ \A i \in DOMAIN passed : passed[i].bucket = k => passed[i].at < s + RateWindow

TwiceInv ==
  \A k \in Buckets : \A t \in Int : Cardinality(Through(k, t, t + RateWindow)) <= 2 * Rate

RateInv == RateTypes /\ WindowInv /\ TwiceInv

LEMMA OneMore ==
  ASSUME NEW S, NEW x, IsFiniteSet(S)
  PROVE  Cardinality(S \cup {x}) \in Nat /\ Cardinality(S \cup {x}) <= Cardinality(S) + 1
<1>1. Cardinality(S) \in Nat
  BY FS_CardinalityType
<1>. QED
  BY <1>1, FS_AddElement

LEMMA RateValues ==
  RateTypes =>
    /\ \A k \in Buckets : rates[k].start \in Int /\ rates[k].count \in Nat
    /\ \A i \in DOMAIN passed : passed[i].at \in Nat
<1> SUFFICES ASSUME RateTypes
             PROVE  /\ \A k \in Buckets : rates[k].start \in Int /\ rates[k].count \in Nat
                    /\ \A i \in DOMAIN passed : passed[i].at \in Nat
  OBVIOUS
<1>1. passed \in Seq([bucket : Buckets, at : Nat])
  BY DEF RateTypes
<1>2. \A i \in DOMAIN passed : passed[i] \in [bucket : Buckets, at : Nat]
  BY <1>1, ElementOfSeq, LenProperties
<1>. QED
  BY <1>2 DEF RateTypes

LEMMA ThroughIsFinite ==
  ASSUME RateTypes, NEW k, NEW lo, NEW hi
  PROVE  IsFiniteSet(Through(k, lo, hi)) /\ Cardinality(Through(k, lo, hi)) \in Nat
<1>1. DOMAIN passed = 1 .. Len(passed) /\ Len(passed) \in Nat
  BY DEF RateTypes
<1>2. IsFiniteSet(1 .. Len(passed))
  BY <1>1, FS_Interval
<1>3. Through(k, lo, hi) \in SUBSET (1 .. Len(passed))
  BY <1>1 DEF Through
<1>. QED
  BY <1>2, <1>3, FS_Subset, FS_CardinalityType

\* What was let through earlier or later than asked for may be left out.
LEMMA ThroughNarrower ==
  ASSUME RateTypes, NEW k, NEW lo \in Int, NEW hi \in Int, NEW lo1 \in Int, NEW hi1 \in Int,
         lo1 <= lo, hi <= hi1 \/ clock < hi1
  PROVE  Cardinality(Through(k, lo, hi)) <= Cardinality(Through(k, lo1, hi1))
<1>1. \A i \in DOMAIN passed : passed[i].at \in Nat /\ passed[i].at <= clock /\ clock \in Nat
  BY RateValues DEF RateTypes
<1>2. Through(k, lo, hi) \subseteq Through(k, lo1, hi1)
  BY <1>1 DEF Through
<1>3. IsFiniteSet(Through(k, lo1, hi1))
  BY ThroughIsFinite
<1>. QED
  BY <1>2, <1>3, FS_Subset

\* An event that gets through adds to the spans that it is in.
LEMMA ThroughGrows ==
  ASSUME RateTypes, NEW k \in Buckets, NEW j, NEW lo \in Int, NEW hi \in Int,
         passed' = Append(passed, [bucket |-> k, at |-> clock])
  PROVE  Through(j, lo, hi)' =
           IF j = k /\ lo <= clock /\ clock < hi
             THEN Through(j, lo, hi) \cup {Len(passed) + 1} ELSE Through(j, lo, hi)
<1> DEFINE e == [bucket |-> k, at |-> clock]
<1>1. /\ e \in [bucket : Buckets, at : Nat]
      /\ e.bucket = k /\ e.at = clock /\ clock \in Int
  BY DEF RateTypes
<1>2. passed \in Seq([bucket : Buckets, at : Nat]) /\ passed' = Append(passed, e)
  BY DEF RateTypes
<1>. HIDE DEF e
<1>3. /\ DOMAIN passed = 1 .. Len(passed) /\ Len(passed) \in Nat
      /\ DOMAIN passed' = 1 .. Len(passed) + 1
      /\ \A i \in DOMAIN passed : passed'[i] = passed[i]
      /\ passed'[Len(passed) + 1] = e
  BY <1>1, <1>2, AppendProperties
<1>4. DOMAIN passed' = DOMAIN passed \cup {Len(passed) + 1}
  BY <1>3
<1>5. CASE j = k /\ lo <= clock /\ clock < hi
  BY <1>1, <1>3, <1>4, <1>5 DEF Through
<1>6. CASE ~(j = k /\ lo <= clock /\ clock < hi)
  BY <1>1, <1>3, <1>4, <1>6 DEF Through
<1>. QED
  BY <1>5, <1>6

\* A span that ends in the future meets the window that a bucket counts and the
\* one before it, and no other.
LateSpans ==
  \A k \in Buckets : \A t \in Int :
    clock < t + RateWindow => Cardinality(Through(k, t, t + RateWindow)) <= 2 * Rate

LEMMA SpanMeetsTwoWindows == RateTypes /\ WindowInv => LateSpans
<1> SUFFICES ASSUME RateTypes, WindowInv, NEW k \in Buckets, NEW t \in Int, clock < t + RateWindow
             PROVE  Cardinality(Through(k, t, t + RateWindow)) <= 2 * Rate
  BY DEF LateSpans
<1> DEFINE s == rates[k].start
           A == Through(k, s - RateWindow + 1, s)
           B == Through(k, s, clock + 1)
<1>1. s \in Int /\ s <= clock /\ clock \in Nat /\ RateWindow \in Nat /\ Rate \in Nat
  BY RateAssumption DEF RateTypes
<1>2. Cardinality(A) <= Rate /\ Cardinality(B) <= Rate
  BY DEF WindowInv
<1>3. \A i \in DOMAIN passed : passed[i].at \in Nat /\ passed[i].at <= clock
  BY RateValues DEF RateTypes
<1>4. Through(k, t, t + RateWindow) \subseteq A \cup B
  BY <1>1, <1>3 DEF Through
<1>5. IsFiniteSet(A) /\ IsFiniteSet(B) /\ Cardinality(A) \in Nat /\ Cardinality(B) \in Nat
  BY ThroughIsFinite
<1>. HIDE DEF A, B
<1>6. IsFiniteSet(A \cup B) /\ Cardinality(A \cup B) = Cardinality(A) + Cardinality(B) - Cardinality(A \cap B)
  BY <1>5, FS_Union
<1>7. Cardinality(A \cap B) \in Nat
  BY <1>5, FS_Intersection, FS_CardinalityType
<1>8. Cardinality(Through(k, t, t + RateWindow)) <= Cardinality(A \cup B)
  BY <1>4, <1>6, FS_Subset
<1>9. Cardinality(Through(k, t, t + RateWindow)) \in Nat
  BY ThroughIsFinite
<1>. QED
  BY <1>1, <1>2, <1>5, <1>6, <1>7, <1>8, <1>9

LEMMA RateInvInit == RateInit => RateInv
<1> SUFFICES ASSUME RateInit PROVE RateInv
  OBVIOUS
<1> USE DEF RateInit
<1>1. RateTypes
  BY DEF RateTypes, Unused
<1>2. \A k, lo, hi : Through(k, lo, hi) = {}
  BY DEF Through
<1>3. \A k, lo, hi : Cardinality(Through(k, lo, hi)) = 0
  BY <1>2, FS_EmptySet
<1>. QED
  BY <1>1, <1>3, RateAssumption DEF RateInv, WindowInv, TwiceInv, Unused

LEMMA AdvanceKeeps == RateInv /\ Advance => RateInv'
<1> SUFFICES ASSUME RateInv, Advance PROVE RateInv'
  OBVIOUS
<1>0. clock \in Nat /\ clock' = clock + 1 /\ rates' = rates /\ passed' = passed
  BY DEF Advance, RateInv, RateTypes
<1>1. RateTypes'
  BY <1>0, RateValues, SMTT(30) DEF RateInv, RateTypes
<1>2. \A k, lo, hi : Through(k, lo, hi)' = Through(k, lo, hi)
  BY <1>0 DEF Through
<1>3. ASSUME NEW k \in Buckets
      PROVE  Cardinality(Through(k, rates[k].start, clock + 2))
               <= Cardinality(Through(k, rates[k].start, clock + 1))
  <2>1. rates[k].start \in Int
    BY DEF RateInv, RateTypes
  <2>. QED
    BY <1>0, <2>1, ThroughNarrower DEF RateInv
<1>4. ASSUME NEW k \in Buckets
      PROVE  /\ Cardinality(Through(k, rates[k].start, clock + 2)) <= rates[k].count
             /\ Cardinality(Through(k, rates[k].start, clock + 2)) <= Rate
  <2>1. rates[k].start \in Int /\ rates[k].count \in Nat
    BY DEF RateInv, RateTypes
  <2>2. /\ Cardinality(Through(k, rates[k].start, clock + 2)) \in Nat
        /\ Cardinality(Through(k, rates[k].start, clock + 1)) \in Nat
    BY ThroughIsFinite DEF RateInv
  <2>. QED
    BY <1>3, <2>1, <2>2, RateAssumption DEF RateInv, WindowInv
<1>5. WindowInv'
  <2> SUFFICES ASSUME NEW k \in Buckets
               PROVE  LET s == rates[k].start
                      IN  /\ Cardinality(Through(k, s, clock + 2)) <= rates[k].count
                          /\ Cardinality(Through(k, s, clock + 2)) <= Rate
                          /\ Cardinality(Through(k, s - RateWindow + 1, s)) <= Rate
                          /\ \A i \in DOMAIN passed : passed[i].bucket = k => passed[i].at < s + RateWindow
    <3>1. clock' + 1 = clock + 2
      BY <1>0
    <3>. QED
      BY <1>0, <1>2, <3>1 DEF WindowInv
  <2>. QED
    BY <1>4 DEF RateInv, WindowInv
<1>6. TwiceInv'
  BY <1>2 DEF RateInv, TwiceInv
<1>. QED
  BY <1>1, <1>5, <1>6 DEF RateInv

\* What a submission counts: it starts a window, in which nothing got through
\* before, or it adds to the one that runs.
LEMMA SubmitCounts ==
  ASSUME RateInv, NEW k \in Buckets
  PROVE  LET r == Counted(rates[k], clock)
             s == rates[k].start
         IN  /\ r \in [count : Nat, start : Nat \cup {-1}]
             /\ \/ /\ r.count = 1 /\ r.start = clock
                   /\ \A i \in DOMAIN passed : passed[i].bucket = k => passed[i].at < clock
                   /\ Cardinality(Through(k, clock - RateWindow + 1, clock)) <= Rate
                \/ /\ r.count = rates[k].count + 1 /\ r.start = s
                   /\ s \in Nat /\ s <= clock /\ clock < s + RateWindow
<1> DEFINE r == Counted(rates[k], clock)
           s == rates[k].start
<1>1. /\ rates[k] \in [count : Nat, start : Nat \cup {-1}] /\ s \in Int /\ clock \in Nat
      /\ rates[k].count \in Nat /\ s <= clock /\ (s = -1 => rates[k] = Unused)
  BY RateValues DEF RateInv, RateTypes
<1>2. /\ Cardinality(Through(k, s, clock + 1)) <= rates[k].count
      /\ Cardinality(Through(k, s, clock + 1)) <= Rate
      /\ \A i \in DOMAIN passed : passed[i].bucket = k => passed[i].at < s + RateWindow
  BY DEF RateInv, WindowInv
<1>3. \A i \in DOMAIN passed : passed[i].at \in Nat /\ passed[i].at <= clock
  BY RateValues DEF RateInv, RateTypes
<1>4. RateWindow \in Nat \ {0} /\ Rate \in Nat \ {0}
  BY RateAssumption
<1>5. CASE rates[k] = Unused
  <2>1. s = -1 /\ rates[k].count = 0
    BY <1>5 DEF Unused
  <2>2. Cardinality(Through(k, -1, clock + 1)) = 0
    BY <1>2, <2>1, ThroughIsFinite DEF RateInv
  <2>3. Through(k, -1, clock + 1) = {}
    BY <2>2, ThroughIsFinite, FS_EmptySet DEF RateInv
  <2>4. \A i \in DOMAIN passed : passed[i].bucket # k
    BY <1>1, <1>3, <2>3 DEF Through
  <2>5. Through(k, clock - RateWindow + 1, clock) = {}
    BY <2>4 DEF Through
  <2>6. Cardinality(Through(k, clock - RateWindow + 1, clock)) <= Rate
    BY <1>4, <2>5, FS_EmptySet
  <2>7. r = [count |-> 1, start |-> clock]
    BY <1>5 DEF Counted
  <2>. QED
    BY <1>1, <2>4, <2>6, <2>7
<1>6. CASE rates[k] # Unused /\ clock - s >= RateWindow
  <2>1. r = [count |-> 1, start |-> clock]
    BY <1>6 DEF Counted
  <2>2. \A i \in DOMAIN passed : passed[i].bucket = k => passed[i].at < clock
    BY <1>1, <1>2, <1>3, <1>4, <1>6
  <2>3. /\ s \in Int /\ clock \in Int /\ clock + 1 \in Int /\ clock - RateWindow + 1 \in Int
        /\ s <= clock - RateWindow + 1 /\ clock <= clock + 1
    BY <1>1, <1>4, <1>6
  <2>4. Cardinality(Through(k, clock - RateWindow + 1, clock))
          <= Cardinality(Through(k, s, clock + 1))
    BY <2>3, ThroughNarrower DEF RateInv
  <2>5. /\ Cardinality(Through(k, clock - RateWindow + 1, clock)) \in Nat
        /\ Cardinality(Through(k, s, clock + 1)) \in Nat
    BY ThroughIsFinite DEF RateInv
  <2>6. Cardinality(Through(k, clock - RateWindow + 1, clock)) <= Rate
    BY <1>2, <1>4, <2>4, <2>5
  <2>. QED
    BY <1>1, <2>1, <2>2, <2>6
<1>7. CASE rates[k] # Unused /\ ~(clock - s >= RateWindow)
  <2>1. r = [rates[k] EXCEPT !.count = @ + 1]
    BY <1>7 DEF Counted
  <2>2. r \in [count : Nat, start : Nat \cup {-1}] /\ r.count = rates[k].count + 1 /\ r.start = s
    BY <1>1, <2>1
  <2>3. s \in Nat /\ clock < s + RateWindow
    <3>1. s # -1
      BY <1>1, <1>7
    <3>2. s \in Nat \cup {-1}
      BY <1>1
    <3>. QED
      BY <1>1, <1>4, <1>7, <3>1, <3>2
  <2>. QED
    BY <1>1, <2>2, <2>3
<1>. QED
  BY <1>5, <1>6, <1>7

LEMMA SubmitKeepsTypes ==
  ASSUME RateInv, NEW k \in Buckets, Submit(k)
  PROVE  RateTypes'
<1> DEFINE r == Counted(rates[k], clock)
           e == [bucket |-> k, at |-> clock]
<1>1. /\ r \in [count : Nat, start : Nat \cup {-1}]
      /\ r.start \in Nat /\ r.start <= clock /\ clock \in Nat
  BY SubmitCounts DEF RateInv, RateTypes
<1>2. /\ clock' = clock /\ rates' = [rates EXCEPT ![k] = r]
      /\ passed' = passed \/ passed' = Append(passed, e)
  BY DEF Submit
<1>3. e \in [bucket : Buckets, at : Nat] /\ e.at = clock /\ passed \in Seq([bucket : Buckets, at : Nat])
  BY <1>1 DEF RateInv, RateTypes
<1>. HIDE DEF r, e
<1>4. rates' \in [Buckets -> [count : Nat, start : Nat \cup {-1}]]
  BY <1>1, <1>2 DEF RateInv, RateTypes
<1>5. \A j \in Buckets : rates'[j].start <= clock /\ (rates'[j].start = -1 => rates'[j] = Unused)
  BY <1>1, <1>2 DEF RateInv, RateTypes
<1>6. /\ passed' \in Seq([bucket : Buckets, at : Nat])
      /\ \A i \in DOMAIN passed' : passed'[i].at <= clock
  <2>1. \A i \in DOMAIN passed : passed[i].at <= clock
    BY DEF RateInv, RateTypes
  <2>2. CASE passed' = Append(passed, e)
    <3>1. /\ passed' \in Seq([bucket : Buckets, at : Nat])
          /\ DOMAIN passed = 1 .. Len(passed) /\ Len(passed) \in Nat
          /\ DOMAIN passed' = 1 .. Len(passed) + 1
          /\ \A i \in DOMAIN passed : passed'[i] = passed[i]
          /\ passed'[Len(passed) + 1] = e
      BY <1>3, <2>2, AppendProperties
    <3>2. \A i \in DOMAIN passed' : i \in DOMAIN passed \/ i = Len(passed) + 1
      BY <3>1
    <3>3. \A i \in DOMAIN passed' : passed'[i].at <= clock
      BY <1>1, <1>3, <2>1, <3>1, <3>2, SMTT(30)
    <3>. QED
      BY <3>1, <3>3
  <2>. QED
    BY <1>2, <1>3, <2>1, <2>2
<1>. QED
  BY <1>1, <1>2, <1>4, <1>5, <1>6 DEF RateTypes

LEMMA SubmitKeepsWindows ==
  ASSUME RateInv, NEW k \in Buckets, Submit(k)
  PROVE  WindowInv'
<1> DEFINE r == Counted(rates[k], clock)
           s == rates[k].start
           e == [bucket |-> k, at |-> clock]
<1>1. /\ clock' = clock /\ rates' = [rates EXCEPT ![k] = r] /\ clock \in Nat
      /\ \/ passed' = Append(passed, e) /\ r.count <= Rate
         \/ passed' = passed /\ r.count > Rate
  <2>1. r.count \in Nat /\ Rate \in Nat /\ clock \in Nat
    BY SubmitCounts, RateAssumption DEF RateInv, RateTypes
  <2>2. /\ clock' = clock /\ rates' = [rates EXCEPT ![k] = r]
        /\ passed' = IF r.count > Rate THEN passed ELSE Append(passed, e)
    BY DEF Submit
  <2>. HIDE DEF r, e
  <2>. QED
    BY <2>1, <2>2
<1>2. /\ r \in [count : Nat, start : Nat \cup {-1}]
      /\ \/ /\ r.count = 1 /\ r.start = clock
            /\ \A i \in DOMAIN passed : passed[i].bucket = k => passed[i].at < clock
            /\ Cardinality(Through(k, clock - RateWindow + 1, clock)) <= Rate
         \/ /\ r.count = rates[k].count + 1 /\ r.start = s
            /\ s \in Nat /\ s <= clock /\ clock < s + RateWindow
  BY SubmitCounts
<1>3. /\ RateWindow \in Nat \ {0} /\ Rate \in Nat \ {0} /\ RateTypes
      /\ rates[k].count \in Nat /\ rates'[k] = r /\ r.count \in Nat
      /\ \A j \in Buckets : rates[j].start \in Int /\ rates[j].count \in Nat /\ rates[j].start <= clock
      /\ \A j \in Buckets \ {k} : rates'[j] = rates[j]
  BY <1>1, <1>2, RateAssumption, RateValues DEF RateInv, RateTypes
<1>4. \A j \in Buckets : \A lo, hi \in Int :
        Through(j, lo, hi)' =
          IF passed' # passed /\ j = k /\ lo <= clock /\ clock < hi
            THEN Through(j, lo, hi) \cup {Len(passed) + 1} ELSE Through(j, lo, hi)
  <2> TAKE j \in Buckets
  <2> TAKE lo, hi \in Int
  <2>1. CASE passed' = passed
    BY <2>1 DEF Through
  <2>2. CASE passed' = Append(passed, e)
    <3>1. passed' # passed
      <4>1. passed \in Seq([bucket : Buckets, at : Nat]) /\ e \in [bucket : Buckets, at : Nat]
        BY <1>1, <1>3 DEF RateTypes
      <4>2. Len(passed') = Len(passed) + 1 /\ Len(passed) \in Nat
        BY <2>2, <4>1, AppendProperties
      <4>. QED
        BY <4>2
    <3>. QED
      BY <1>3, <2>2, <3>1, ThroughGrows
  <2>. QED
    BY <1>1, <2>1, <2>2
<1>5. \A i \in DOMAIN passed' : \/ i \in DOMAIN passed /\ passed'[i] = passed[i]
                               \/ passed'[i] = e
  <2>1. passed \in Seq([bucket : Buckets, at : Nat]) /\ e \in [bucket : Buckets, at : Nat]
    BY <1>1, <1>3 DEF RateTypes
  <2>. HIDE DEF e
  <2>2. CASE passed' = Append(passed, e)
    BY <2>1, <2>2, AppendProperties
  <2>. QED
    BY <1>1, <2>2
<1>. HIDE DEF r
<1>6. ASSUME NEW j \in Buckets, NEW lo \in Int, NEW hi \in Int,
             j # k \/ passed' = passed \/ clock < lo \/ hi <= clock
      PROVE  Through(j, lo, hi)' = Through(j, lo, hi)
  BY <1>1, <1>4, <1>6
<1>7. ASSUME NEW j \in Buckets, NEW z \in Int, NEW n \in Int, z = rates'[j].start, n = clock + 1
      PROVE  /\ Cardinality(Through(j, z, n)') <= rates'[j].count
             /\ Cardinality(Through(j, z, n)') <= Rate
             /\ Cardinality(Through(j, z - RateWindow + 1, z)') <= Rate
             /\ \A i \in DOMAIN passed' : passed'[i].bucket = j => passed'[i].at < z + RateWindow
  <2>1. CASE j # k
    <3>1. rates'[j] = rates[j] /\ z = rates[j].start /\ z - RateWindow + 1 \in Int
      BY <1>3, <1>7, <2>1
    <3>2. \A i \in DOMAIN passed : passed[i].bucket = j => passed[i].at < z + RateWindow
      BY <3>1 DEF RateInv, WindowInv
    <3>3. e.bucket = k
      OBVIOUS
    <3>. HIDE DEF e
    <3>4. \A i \in DOMAIN passed' : passed'[i].bucket = j => passed'[i].at < z + RateWindow
      BY <1>5, <2>1, <3>2, <3>3
    <3>5. /\ Through(j, z, n)' = Through(j, z, n)
          /\ Through(j, z - RateWindow + 1, z)' = Through(j, z - RateWindow + 1, z)
      BY <1>6, <1>7, <2>1, <3>1
    <3>6. /\ Cardinality(Through(j, z, n)) <= rates[j].count
          /\ Cardinality(Through(j, z, n)) <= Rate
          /\ Cardinality(Through(j, z - RateWindow + 1, z)) <= Rate
      BY <1>7, <3>1 DEF RateInv, WindowInv
    <3>. QED
      BY <3>1, <3>4, <3>5, <3>6
  <2>2. CASE /\ j = k /\ r.count = 1 /\ r.start = clock
             /\ \A i \in DOMAIN passed : passed[i].bucket = k => passed[i].at < clock
             /\ Cardinality(Through(k, clock - RateWindow + 1, clock)) <= Rate
    <3>1. z = clock /\ z - RateWindow + 1 \in Int /\ n = z + 1 /\ passed' = Append(passed, e)
      BY <1>1, <1>3, <1>7, <2>2
    <3>2. Through(k, z, n) = {}
      <4>1. \A i \in DOMAIN passed : passed[i].at \in Nat
        BY <1>3, RateValues
      <4>2. \A i \in DOMAIN passed : ~(passed[i].bucket = k /\ passed[i].at >= z)
        BY <1>1, <2>2, <3>1, <4>1
      <4>. QED
        BY <4>2 DEF Through
    <3>3. Through(k, z, n)' = {} \/ Through(k, z, n)' = {Len(passed) + 1}
      BY <1>4, <1>7, <2>2, <3>2
    <3>4. Cardinality(Through(k, z, n)') \in 0 .. 1
      <4>1. CASE Through(k, z, n)' = {}
        BY <4>1, FS_EmptySet
      <4>2. CASE Through(k, z, n)' = {Len(passed) + 1}
        <5>1. Cardinality(Through(k, z, n)') = 1
          BY <4>2, FS_Singleton
        <5>. QED
          BY <5>1
      <4>. QED
        BY <3>3, <4>1, <4>2
    <3>5. Cardinality(Through(k, z - RateWindow + 1, z)') <= Rate
      <4>1. Through(k, z - RateWindow + 1, z)' = Through(k, z - RateWindow + 1, z)
        BY <1>6, <3>1, <1>7
      <4>2. Through(k, z - RateWindow + 1, z) = Through(k, clock - RateWindow + 1, clock)
        BY <3>1
      <4>3. Cardinality(Through(k, clock - RateWindow + 1, clock)) <= Rate
        BY <2>2
      <4>. QED
        BY <4>1, <4>2, <4>3
    <3>6. \A i \in DOMAIN passed' : passed'[i].bucket = j => passed'[i].at < z + RateWindow
      <4>1. e.at = clock
        OBVIOUS
      <4>2. \A i \in DOMAIN passed : passed[i].at \in Nat
        BY <1>3, RateValues
      <4>. HIDE DEF e
      <4>. QED
        BY <1>1, <1>3, <1>5, <2>2, <3>1, <4>1, <4>2
    <3>. QED
      BY <1>3, <2>2, <3>4, <3>5, <3>6
  <2>3. CASE j = k /\ r.count = rates[k].count + 1 /\ r.start = s
                   /\ s \in Nat /\ s <= clock /\ clock < s + RateWindow
    <3>1. z = s /\ z - RateWindow + 1 \in Int
      BY <1>3, <1>7, <2>3
    <3>2. /\ Cardinality(Through(k, z, n)) <= rates[k].count
          /\ Cardinality(Through(k, z, n)) <= Rate
          /\ Cardinality(Through(k, z - RateWindow + 1, z)) <= Rate
          /\ \A i \in DOMAIN passed : passed[i].bucket = k => passed[i].at < z + RateWindow
      BY <1>7, <3>1 DEF RateInv, WindowInv
    <3>3. IsFiniteSet(Through(k, z, n)) /\ Cardinality(Through(k, z, n)) \in Nat
      BY <1>3, ThroughIsFinite
    <3>4. Cardinality(Through(k, z - RateWindow + 1, z)') <= Rate
      <4>1. Through(k, z - RateWindow + 1, z)' = Through(k, z - RateWindow + 1, z)
        BY <1>6, <1>7, <2>3, <3>1
      <4>. QED
        BY <3>2, <4>1
    <3>5. \A i \in DOMAIN passed' : passed'[i].bucket = j => passed'[i].at < z + RateWindow
      <4>1. e.at = clock
        OBVIOUS
      <4>. HIDE DEF e
      <4>. QED
        BY <1>5, <2>3, <3>1, <3>2, <4>1
    <3>6. CASE passed' = passed
      <4>1. Through(k, z, n)' = Through(k, z, n)
        BY <1>6, <1>7, <3>6
      <4>. QED
        BY <1>3, <2>3, <3>2, <3>3, <3>4, <3>5, <4>1
    <3>7. CASE r.count <= Rate
      <4>1. \/ Through(k, z, n)' = Through(k, z, n)
            \/ Through(k, z, n)' = Through(k, z, n) \cup {Len(passed) + 1}
        BY <1>4, <1>7
      <4>2. /\ Cardinality(Through(k, z, n)') \in Nat
            /\ Cardinality(Through(k, z, n)') <= Cardinality(Through(k, z, n)) + 1
        <5>1. CASE Through(k, z, n)' = Through(k, z, n)
          BY <3>3, <5>1
        <5>2. CASE Through(k, z, n)' = Through(k, z, n) \cup {Len(passed) + 1}
          BY <3>3, <5>2, OneMore
        <5>. QED
          BY <4>1, <5>1, <5>2
      <4>. QED
        BY <1>3, <2>3, <3>2, <3>3, <3>4, <3>5, <3>7, <4>2
    <3>. QED
      BY <1>1, <3>6, <3>7
  <2>. QED
    BY <1>2, <2>1, <2>2, <2>3
<1>8. \A j \in Buckets : rates'[j].start \in Int
  BY <1>2, <1>3
<1>. HIDE DEF e
<1>9. clock + 1 \in Int /\ clock' + 1 = clock + 1
  BY <1>1
<1>. QED
  BY <1>7, <1>8, <1>9 DEF WindowInv

LEMMA SubmitKeeps ==
  ASSUME RateInv, NEW k \in Buckets, Submit(k)
  PROVE  RateInv'
<1>1. RateTypes' /\ WindowInv'
  BY SubmitKeepsTypes, SubmitKeepsWindows
<1>2. LateSpans'
  BY <1>1, SpanMeetsTwoWindows, PTL
<1>3. ASSUME NEW j \in Buckets, NEW t \in Int, ~(clock < t + RateWindow)
      PROVE  Cardinality(Through(j, t, t + RateWindow)') <= 2 * Rate
  <2>1. clock \in Nat /\ t + RateWindow \in Int /\ RateTypes
    BY RateAssumption DEF RateInv, RateTypes
  <2>2. Through(j, t, t + RateWindow)' = Through(j, t, t + RateWindow)
    <3>1. CASE passed' = passed
      BY <3>1 DEF Through
    <3>2. CASE passed' = Append(passed, [bucket |-> k, at |-> clock])
      BY <1>3, <2>1, <3>2, ThroughGrows
    <3>. QED
      BY <3>1, <3>2 DEF Submit
  <2>. QED
    BY <2>2 DEF RateInv, TwiceInv
<1>4. clock' = clock
  BY DEF Submit
<1>. QED
  BY <1>1, <1>2, <1>3, <1>4 DEF RateInv, TwiceInv, LateSpans

\* However fast and from whom events come, no bucket of the rate limiter lets
\* more than twice the rate through within any stretch of one window's length,
\* refused events counted or not.
THEOREM NeverMoreThanTwiceTheRate ==
  RateInit /\ [][RateNext]_rateVars => []AtMostTwiceTheRate
<1>1. RateInv /\ [RateNext]_rateVars => RateInv'
  <2> SUFFICES ASSUME RateInv, [RateNext]_rateVars PROVE RateInv'
    OBVIOUS
  <2>1. CASE UNCHANGED rateVars
    BY <2>1 DEF rateVars, RateInv, RateTypes, WindowInv, TwiceInv, Through
  <2>. QED
    BY <2>1, AdvanceKeeps, SubmitKeeps DEF RateNext
<1>2. RateInv => AtMostTwiceTheRate
  <2> SUFFICES ASSUME RateInv, NEW k \in Buckets, NEW t \in 0 .. clock
               PROVE  Cardinality({i \in DOMAIN passed :
                        /\ passed[i].bucket = k
                        /\ passed[i].at >= t /\ passed[i].at < t + RateWindow}) <= 2 * Rate
    BY DEF AtMostTwiceTheRate
  <2>1. Cardinality(Through(k, t, t + RateWindow)) <= 2 * Rate
    BY DEF RateInv, RateTypes, TwiceInv
  <2>. QED
    BY <2>1 DEF Through
<1>. QED
  BY <1>1, <1>2, RateInvInit, PTL

-----------------------------------------------------------------------------
(* What touches teach                                                      *)

LEMMA TouchKeeps ==
  ASSUME touched \subseteq Path, known \in Knows, TouchesCountOnce,
         NEW files \in SUBSET Path,
         touched' = Touch(known, touched, files).actual,
         known' = Touch(known, touched, files).knows
  PROVE  touched' \subseteq Path /\ known' \in Knows /\ TouchesCountOnce'
<1> DEFINE new == files \ touched
           all == touched \cup files
           counts == [e \in PathPairs |->
                        known.coupling[e] + (IF e \in Within(all) /\ e \cap new # {} THEN 1 ELSE 0)]
<1>1. /\ touched' = all
      /\ known' = IF new # {} /\ Cardinality(all) >= 2 THEN [known EXCEPT !.coupling = counts]
                  ELSE known
  BY DEF Touch, record_cotouch
<1>2. all \subseteq Path /\ IsFiniteSet(all)
  BY KnowledgeAssumption, FS_Subset
<1>3. known.coupling \in [PathPairs -> Nat] /\ known.hotzones \in [Path -> Nat]
  BY DEF Knows
<1>4. counts \in [PathPairs -> Nat]
  BY <1>3
<1>5. ASSUME NEW e \in PathPairs, e \in Within(all), e \cap new # {} PROVE e \notin Within(touched)
  BY <1>5 DEF Within
<1>6. ASSUME NEW e \in PathPairs, e \in Within(all), e \cap new = {} PROVE e \in Within(touched)
  BY <1>6 DEF Within
<1>7. ASSUME NEW e \in PathPairs, e \in Within(touched) PROVE e \in Within(all)
  BY <1>7 DEF Within
<1>8. CASE new # {} /\ Cardinality(all) >= 2
  <2>1. known' \in Knows /\ known'.coupling = counts
    BY <1>1, <1>3, <1>4, <1>8 DEF Knows
  <2>2. \A e \in PathPairs : counts[e] = IF e \in Within(all) THEN 1 ELSE 0
    <3> TAKE e \in PathPairs
    <3>1. /\ known.coupling[e] = IF e \in Within(touched) THEN 1 ELSE 0
          /\ counts[e] = known.coupling[e] + (IF e \in Within(all) /\ e \cap new # {} THEN 1 ELSE 0)
      BY DEF TouchesCountOnce
    <3>. HIDE DEF new, all, counts
    <3>2. CASE e \in Within(all) /\ e \cap new # {}
      BY <1>5, <3>1, <3>2
    <3>3. CASE e \in Within(all) /\ e \cap new = {}
      BY <1>6, <3>1, <3>3
    <3>4. CASE e \notin Within(all)
      BY <1>7, <3>1, <3>4
    <3>. QED
      BY <3>2, <3>3, <3>4
  <2>. QED
    BY <1>1, <1>2, <2>1, <2>2 DEF TouchesCountOnce
<1>9. CASE ~(new # {} /\ Cardinality(all) >= 2)
  <2>1. known' = known
    BY <1>1, <1>9
  <2>2. ASSUME NEW e \in PathPairs, e \in Within(all) PROVE e \in Within(touched)
    <3>1. e \subseteq all /\ Cardinality(e) = 2
      BY <2>2 DEF Within
    <3>2. Cardinality(all) \in Nat /\ Cardinality(e) <= Cardinality(all)
      BY <1>2, <3>1, FS_Subset, FS_CardinalityType
    <3>3. new = {}
      BY <1>9, <3>1, <3>2
    <3>. QED
      BY <1>6, <2>2, <3>3
  <2>3. \A e \in PathPairs : known.coupling[e] = IF e \in Within(all) THEN 1 ELSE 0
    BY <1>7, <2>2 DEF TouchesCountOnce
  <2>. QED
    BY <1>1, <1>2, <2>1, <2>3 DEF TouchesCountOnce
<1>. QED
  BY <1>8, <1>9

\* However the files of a claim are touched, alone or in groups, again and
\* again: any two of them have been coupled exactly once, and no others.
THEOREM RepeatedTouchesCountOnce ==
  TouchInit /\ [][TouchNext]_touchVars => []TouchesCountOnce
<1> DEFINE TouchInv == touched \subseteq Path /\ known \in Knows /\ TouchesCountOnce
<1>1. TouchInit => TouchInv
  <2> SUFFICES ASSUME TouchInit PROVE TouchInv
    OBVIOUS
  <2>1. \A e : e \in Within({}) => FALSE
    <3> SUFFICES ASSUME NEW e, e \subseteq {}, Cardinality(e) = 2 PROVE FALSE
      BY DEF Within
    <3>. QED
      BY FS_EmptySet
  <2>. QED
    BY <2>1 DEF TouchInit, Nothing, Knows, TouchesCountOnce
<1>2. TouchInv /\ [TouchNext]_touchVars => TouchInv'
  <2> SUFFICES ASSUME TouchInv, [TouchNext]_touchVars PROVE TouchInv'
    OBVIOUS
  <2>1. CASE TouchNext
    BY <2>1, TouchKeeps DEF TouchNext
  <2>2. CASE UNCHANGED touchVars
    BY <2>2 DEF touchVars, TouchesCountOnce
  <2>. QED
    BY <2>1, <2>2
<1>3. TouchInv => TouchesCountOnce
  OBVIOUS
<1>. HIDE DEF TouchInv
<1>. QED
  BY <1>1, <1>2, <1>3, PTL

-----------------------------------------------------------------------------
(* Fractions                                                               *)

\* A fraction as a pair of a numerator and a positive denominator, how it
\* compares with a whole number, and how with another fraction.
Frac(r)      == r \in Nat \X (Nat \ {0})
AtMost(r, n) == r[1] <= n * r[2]
Le(r, s)     == r[1] * s[2] <= s[1] * r[2]

LEMMA Multiplied ==
  ASSUME NEW x \in Nat, NEW y \in Nat, NEW z \in Nat, x <= y
  PROVE  x * z \in Nat /\ y * z \in Nat /\ x * z <= y * z
<1>1. x * z \in Nat /\ y * z \in Nat /\ (y - x) * z \in Nat
  <2>1. y - x \in Nat
    OBVIOUS
  <2>2. \A u, v \in Nat : u * v \in Nat
    OBVIOUS
  <2>. QED
    BY <2>1, <2>2
<1>2. y * z = x * z + (y - x) * z
  OBVIOUS
<1>. QED
  BY <1>1, <1>2

LEMMA PlusFrac ==
  ASSUME NEW r, NEW s, Frac(r), Frac(s)
  PROVE  /\ Frac(Plus(r, s))
         /\ Plus(r, s)[1] = r[1] * s[2] + s[1] * r[2] /\ Plus(r, s)[2] = r[2] * s[2]
<1>1. /\ r[1] \in Nat /\ s[1] \in Nat /\ r[2] \in Nat \ {0} /\ s[2] \in Nat \ {0}
  BY DEF Frac
<1>2. \A u, v \in Nat : u * v \in Nat
  OBVIOUS
<1>3. \A u, v \in Nat \ {0} : u * v \in Nat \ {0}
  OBVIOUS
<1>4. r[1] * s[2] + s[1] * r[2] \in Nat /\ r[2] * s[2] \in Nat \ {0}
  BY <1>1, <1>2, <1>3
<1>. QED
  BY <1>4 DEF Plus, Frac

\* A sum is at most the sum of its bounds...
LEMMA PlusAtMost ==
  ASSUME NEW r, NEW s, NEW m \in Nat, NEW n \in Nat, Frac(r), Frac(s), AtMost(r, m), AtMost(s, n)
  PROVE  Frac(Plus(r, s)) /\ AtMost(Plus(r, s), m + n)
<1>1. PICK p, q, u, v : /\ p = r[1] /\ q = r[2] /\ u = s[1] /\ v = s[2]
                        /\ p \in Nat /\ q \in Nat \ {0} /\ u \in Nat /\ v \in Nat \ {0}
                        /\ p <= m * q /\ u <= n * v
  BY DEF Frac, AtMost
<1>2. m * q \in Nat /\ n * v \in Nat
  BY <1>1
<1>3. p * v <= (m * q) * v /\ u * q <= (n * v) * q
  BY <1>1, <1>2, Multiplied
<1>4. (m * q) * v + (n * v) * q = (m + n) * (q * v)
  BY <1>1
<1>5. p * v \in Nat /\ u * q \in Nat /\ (m * q) * v \in Nat /\ (n * v) * q \in Nat
  BY <1>1, <1>2, Multiplied
<1>6. p * v + u * q <= (m + n) * (q * v)
  BY <1>3, <1>4, <1>5
<1>. QED
  BY <1>1, <1>6, PlusFrac DEF AtMost

\* ...and grows with each of its terms.
LEMMA PlusLe ==
  ASSUME NEW r, NEW s, NEW r2, NEW s2, Frac(r), Frac(s), Frac(r2), Frac(s2), Le(r, r2), Le(s, s2)
  PROVE  Frac(Plus(r, s)) /\ Frac(Plus(r2, s2)) /\ Le(Plus(r, s), Plus(r2, s2))
<1>1. PICK p, q, u, v : /\ p = r[1] /\ q = r[2] /\ u = s[1] /\ v = s[2]
                        /\ p \in Nat /\ q \in Nat \ {0} /\ u \in Nat /\ v \in Nat \ {0}
  BY DEF Frac
<1>2. PICK p2, q2, u2, v2 : /\ p2 = r2[1] /\ q2 = r2[2] /\ u2 = s2[1] /\ v2 = s2[2]
                            /\ p2 \in Nat /\ q2 \in Nat \ {0} /\ u2 \in Nat /\ v2 \in Nat \ {0}
  BY DEF Frac
<1>3. p * q2 <= p2 * q /\ u * v2 <= u2 * v
  BY <1>1, <1>2 DEF Le
<1>4. \A x, y \in Nat : x * y \in Nat
  OBVIOUS
<1>5. p * q2 \in Nat /\ p2 * q \in Nat /\ u * v2 \in Nat /\ u2 * v \in Nat /\ v * v2 \in Nat /\ q * q2 \in Nat
  BY <1>1, <1>2, <1>4
<1>6. (p * q2) * (v * v2) <= (p2 * q) * (v * v2) /\ (u * v2) * (q * q2) <= (u2 * v) * (q * q2)
  BY <1>3, <1>5, Multiplied
<1>7. /\ (p * q2) * (v * v2) + (u * v2) * (q * q2) = (p * v + u * q) * (q2 * v2)
      /\ (p2 * q) * (v * v2) + (u2 * v) * (q * q2) = (p2 * v2 + u2 * q2) * (q * v)
  <2>1. p \in Nat /\ q \in Nat /\ u \in Nat /\ v \in Nat
    BY <1>1
  <2>2. p2 \in Nat /\ q2 \in Nat /\ u2 \in Nat /\ v2 \in Nat
    BY <1>2
  <2>3. (p * q2) * (v * v2) = (p * v) * (q2 * v2) /\ (u * v2) * (q * q2) = (u * q) * (q2 * v2)
    BY <2>1, <2>2
  <2>4. (p2 * q) * (v * v2) = (p2 * v2) * (q * v) /\ (u2 * v) * (q * q2) = (u2 * q2) * (q * v)
    BY <2>1, <2>2
  <2>5. \A i, j, k \in Nat : i * k + j * k = (i + j) * k
    OBVIOUS
  <2>6. /\ p * v \in Nat /\ u * q \in Nat /\ q2 * v2 \in Nat
        /\ p2 * v2 \in Nat /\ u2 * q2 \in Nat /\ q * v \in Nat
    BY <1>4, <2>1, <2>2
  <2>7. (p * v) * (q2 * v2) + (u * q) * (q2 * v2) = (p * v + u * q) * (q2 * v2)
    BY <2>5, <2>6
  <2>8. (p2 * v2) * (q * v) + (u2 * q2) * (q * v) = (p2 * v2 + u2 * q2) * (q * v)
    BY <2>5, <2>6
  <2>. QED
    BY <2>3, <2>4, <2>7, <2>8
<1>8. /\ (p * q2) * (v * v2) \in Nat /\ (u * v2) * (q * q2) \in Nat
      /\ (p2 * q) * (v * v2) \in Nat /\ (u2 * v) * (q * q2) \in Nat
  BY <1>4, <1>5
<1>9. (p * v + u * q) * (q2 * v2) <= (p2 * v2 + u2 * q2) * (q * v)
  BY <1>6, <1>7, <1>8
<1>. QED
  BY <1>1, <1>2, <1>9, PlusFrac DEF Le

LEMMA TimesFacts ==
  ASSUME NEW r, NEW w \in Nat, Frac(r)
  PROVE  /\ Frac(Times(w, r))
         /\ AtMost(r, 1) => AtMost(Times(w, r), w)
         /\ r[1] = 0 => AtMost(Times(w, r), 0)
         /\ \A s : Frac(s) /\ Le(r, s) => Le(Times(w, r), Times(w, s))
<1>1. PICK p, q : p = r[1] /\ q = r[2] /\ p \in Nat /\ q \in Nat \ {0}
  BY DEF Frac
<1>2. Times(w, r)[1] = w * p /\ Times(w, r)[2] = q /\ Times(w, r) = <<w * p, q>>
  BY <1>1 DEF Times
<1>3. w * p \in Nat
  BY <1>1
<1>4. Frac(Times(w, r))
  BY <1>1, <1>2, <1>3 DEF Frac
<1>5. ASSUME AtMost(r, 1) PROVE AtMost(Times(w, r), w)
  <2>1. p <= q
    BY <1>1, <1>5 DEF AtMost
  <2>2. p * w <= q * w
    BY <1>1, <2>1, Multiplied
  <2>3. p * w = w * p /\ q * w = w * q
    BY <1>1
  <2>. QED
    BY <1>2, <2>2, <2>3 DEF AtMost
<1>6. ASSUME r[1] = 0 PROVE AtMost(Times(w, r), 0)
  BY <1>1, <1>2, <1>6 DEF AtMost
<1>7. ASSUME NEW s, Frac(s), Le(r, s) PROVE Le(Times(w, r), Times(w, s))
  <2>1. PICK u, v : u = s[1] /\ v = s[2] /\ u \in Nat /\ v \in Nat \ {0}
    BY <1>7 DEF Frac
  <2>2. p * v <= u * q /\ p * v \in Nat /\ u * q \in Nat
    BY <1>1, <1>7, <2>1 DEF Le
  <2>3. (p * v) * w <= (u * q) * w
    BY <2>2, Multiplied
  <2>4. (p * v) * w = (w * p) * v /\ (u * q) * w = (w * u) * q
    BY <1>1, <2>1
  <2>5. Times(w, s)[1] = w * u /\ Times(w, s)[2] = v
    BY <2>1 DEF Times
  <2>. QED
    BY <1>2, <2>3, <2>4, <2>5 DEF Le
<1>. QED
  BY <1>4, <1>5, <1>6, <1>7

(* Rounding                                                                *)
LEMMA DivFacts ==
  ASSUME NEW x \in Nat, NEW y \in Nat \ {0}
  PROVE  x \div y \in Nat /\ y * (x \div y) <= x /\ x < y * (x \div y + 1)
OBVIOUS

\* Rounding half up keeps a bound that is a whole number, and the order.
LEMMA RoundFacts ==
  ASSUME NEW r, Frac(r)
  PROVE  /\ Round(r) \in Nat
         /\ \A n \in Nat : AtMost(r, n) => Round(r) <= n
         /\ \A s : Frac(s) /\ Le(r, s) => Round(r) <= Round(s)
<1>1. PICK p, q : p = r[1] /\ q = r[2] /\ p \in Nat /\ q \in Nat \ {0}
  BY DEF Frac
<1> DEFINE d == (2 * p + q) \div (2 * q)
<1>2. Round(r) = d
  BY <1>1 DEF Round
<1>3. d \in Nat /\ (2 * q) * d <= 2 * p + q /\ 2 * p + q < (2 * q) * (d + 1)
  <2>1. 2 * p + q \in Nat /\ 2 * q \in Nat \ {0}
    BY <1>1
  <2>. QED
    BY <2>1, DivFacts
<1>. HIDE DEF d
<1>4. ASSUME NEW n \in Nat, AtMost(r, n) PROVE d <= n
  <2> SUFFICES ASSUME n + 1 <= d PROVE FALSE
    BY <1>3
  <2>1. p <= n * q /\ n * q \in Nat
    BY <1>1, <1>4 DEF AtMost
  <2>2. (n + 1) * (2 * q) <= d * (2 * q)
    BY <1>1, <1>3, Multiplied
  <2>3. (n + 1) * (2 * q) = 2 * (n * q) + 2 * q
    <3>1. \A i, j \in Nat : (i + 1) * j = i * j + j
      OBVIOUS
    <3>2. n * (2 * q) = 2 * (n * q) /\ 2 * q \in Nat
      BY <1>1
    <3>. QED
      BY <3>1, <3>2
  <2>4. d * (2 * q) = (2 * q) * d /\ (2 * q) * d \in Nat
    BY <1>1, <1>3
  <2>. QED
    BY <1>1, <1>3, <2>1, <2>2, <2>3, <2>4
<1>5. ASSUME NEW s, Frac(s), Le(r, s) PROVE d <= Round(s)
  <2>1. PICK u, v : u = s[1] /\ v = s[2] /\ u \in Nat /\ v \in Nat \ {0}
    BY <1>5 DEF Frac
  <2> DEFINE e == (2 * u + v) \div (2 * v)
  <2>2. Round(s) = e
    BY <2>1 DEF Round
  <2>3. e \in Nat /\ (2 * v) * e <= 2 * u + v /\ 2 * u + v < (2 * v) * (e + 1)
    <3>1. 2 * u + v \in Nat /\ 2 * v \in Nat \ {0}
      BY <2>1
    <3>. QED
      BY <3>1, DivFacts
  <2>. HIDE DEF e
  <2> SUFFICES ASSUME e + 1 <= d PROVE FALSE
    BY <1>3, <2>2, <2>3
  <2>4. p * v <= u * q /\ p * v \in Nat /\ u * q \in Nat /\ q * v \in Nat \ {0}
    BY <1>1, <1>5, <2>1 DEF Le
  <2>5. ((2 * q) * d) * v <= (2 * p + q) * v
    BY <1>1, <1>3, <2>1, Multiplied
  <2>6. (2 * u + v + 1) * q <= ((2 * v) * (e + 1)) * q
    BY <1>1, <2>1, <2>3, Multiplied
  <2>7. ((e + 1) * (2 * (q * v))) <= d * (2 * (q * v))
    BY <1>3, <2>3, <2>4, Multiplied
  <2>8. /\ ((2 * q) * d) * v = d * (2 * (q * v))
        /\ (2 * p + q) * v = 2 * (p * v) + q * v
    BY <1>1, <1>3, <2>1
  <2>9. /\ (2 * u + v + 1) * q = 2 * (u * q) + q * v + q
        /\ ((2 * v) * (e + 1)) * q = (e + 1) * (2 * (q * v))
    BY <1>1, <2>1, <2>3
  <2>10. d * (2 * (q * v)) \in Nat /\ (e + 1) * (2 * (q * v)) \in Nat
    BY <1>3, <2>3, <2>4
  <2>. QED
    BY <1>1, <2>4, <2>5, <2>6, <2>7, <2>8, <2>9, <2>10
<1>. QED
  BY <1>2, <1>3, <1>4, <1>5

-----------------------------------------------------------------------------
(* Greatest counts                                                         *)

\* A finite nonempty set of numbers has a greatest one: a smallest set without
\* one would have a greatest number once any of its members is taken out.
LEMMA HasGreatest ==
  ASSUME NEW S \in SUBSET Nat, IsFiniteSet(S), S # {}
  PROVE  \E n \in S : \A m \in S : m <= n
<1> DEFINE Bad == {T \in SUBSET S : T # {} /\ ~\E n \in T : \A m \in T : m <= n}
<1>1. SUFFICES ASSUME Bad # {} PROVE FALSE
  OBVIOUS
<1>2. \E T \in Bad : \A U \in Bad : ~(<<U, T>> \in StrictSubsetOrdering(S))
  <2>1. IsWellFoundedOn(StrictSubsetOrdering(S), FiniteSubsetsOf(S))
    BY FS_StrictSubsetOrderingWellFounded
  <2>2. Bad \subseteq FiniteSubsetsOf(S)
    BY FS_FiniteSubsetsOfFinite
  <2>. HIDE DEF Bad
  <2>. QED
    BY <1>1, <2>1, <2>2, WFMin
<1>3. PICK T \in Bad : \A U \in Bad : ~(<<U, T>> \in StrictSubsetOrdering(S))
  BY <1>2
<1>4. PICK x \in T : TRUE
  BY <1>3
<1>5. T \ {x} \notin Bad
  BY <1>3, <1>4 DEF StrictSubsetOrdering
<1>6. CASE T = {x}
  BY <1>3, <1>6
<1>7. CASE T # {x}
  <2>1. PICK n \in T \ {x} : \A m \in T \ {x} : m <= n
    BY <1>3, <1>5, <1>7
  <2>2. n \in Nat /\ x \in Nat
    BY <1>3, <1>4, <2>1
  <2>3. CASE x <= n
    BY <1>3, <2>1, <2>3
  <2>4. CASE n <= x
    <3>1. \A m \in T : m \in Nat /\ m <= x
      BY <1>3, <2>1, <2>2, <2>4
    <3>. QED
      BY <1>3, <3>1
  <2>. QED
    BY <2>2, <2>3, <2>4
<1>. QED
  BY <1>6, <1>7

LEMMA GreatestFacts ==
  ASSUME NEW S \in SUBSET Nat, IsFiniteSet(S)
  PROVE  /\ Greatest(S) \in S \cup {0} /\ Greatest(S) \in Nat
         /\ \A m \in S : m <= Greatest(S)
<1>1. \E n \in S \cup {0} : \A m \in S : m <= n
  <2>1. CASE S = {}
    BY <2>1
  <2>2. CASE S # {}
    BY <2>2, HasGreatest
  <2>. QED
    BY <2>1, <2>2
<1>2. Greatest(S) \in S \cup {0} /\ \A m \in S : m <= Greatest(S)
  <2>1. Greatest(S) = CHOOSE n \in S \cup {0} : \A m \in S : m <= n
    BY DEF Greatest
  <2>. QED
    BY <1>1, <2>1
<1>3. \A n \in S \cup {0} : n \in Nat
  OBVIOUS
<1>. QED
  BY <1>2, <1>3, Zenon

LEMMA GreatestGrows ==
  ASSUME NEW S \in SUBSET Nat, IsFiniteSet(S), NEW T \in SUBSET Nat, IsFiniteSet(T),
         \A m \in S : \E n \in T : m <= n
  PROVE  Greatest(S) <= Greatest(T)
<1>1. Greatest(S) \in S \cup {0} /\ Greatest(S) \in Nat /\ Greatest(T) \in Nat
  BY GreatestFacts
<1>2. CASE Greatest(S) \in S
  <2>1. PICK n \in T : Greatest(S) <= n
    BY <1>2
  <2>2. n \in Nat /\ n <= Greatest(T)
    BY GreatestFacts
  <2>. QED
    BY <1>1, <2>1, <2>2
<1>. QED
  BY <1>1, <1>2

-----------------------------------------------------------------------------
(* The components                                                          *)

LEMMA ConstantFractions ==
  /\ Frac(Zero) /\ AtMost(Zero, 1) /\ Zero[1] = 0
  /\ Frac(One) /\ AtMost(One, 1)
BY DEF Frac, AtMost, Zero, One

LEMMA jaccardFacts ==
  ASSUME NEW S, NEW T, IsFiniteSet(S), IsFiniteSet(T)
  PROVE  /\ Frac(jaccard(S, T)) /\ AtMost(jaccard(S, T), 1)
         /\ S \cap T = {} => jaccard(S, T)[1] = 0
<1>1. CASE S \cup T = {}
  BY <1>1, ConstantFractions DEF jaccard
<1>2. CASE S \cup T # {}
  <2>1. IsFiniteSet(S \cup T) /\ IsFiniteSet(S \cap T)
    BY FS_Union, FS_Intersection
  <2>2. Cardinality(S \cup T) \in Nat \ {0} /\ Cardinality(S \cap T) \in Nat
    BY <1>2, <2>1, FS_CardinalityType, FS_EmptySet
  <2>3. Cardinality(S \cap T) <= Cardinality(S \cup T)
    BY <2>1, FS_Subset
  <2>4. jaccard(S, T) = <<Cardinality(S \cap T), Cardinality(S \cup T)>>
    BY <1>2 DEF jaccard
  <2>5. S \cap T = {} => Cardinality(S \cap T) = 0
    BY FS_EmptySet
  <2>. QED
    BY <2>2, <2>3, <2>4, <2>5 DEF Frac, AtMost
<1>. QED
  BY <1>1, <1>2

LEMMA TemporalFacts ==
  ASSUME NEW a \in HeatInputs, NEW b \in HeatInputs
  PROVE  Frac(Temporal(a, b)) /\ AtMost(Temporal(a, b), 1)
<1>1. a.last_seen \in Nat /\ b.last_seen \in Nat /\ Window \in Nat \ {0}
  BY HeatAssumption DEF HeatInputs
<1> DEFINE diff == Distance(a.last_seen, b.last_seen)
<1>2. diff \in Nat
  BY <1>1 DEF Distance
<1>3. Temporal(a, b) = IF diff >= Window THEN Zero ELSE <<Window - diff, Window>>
  BY DEF Temporal
<1>. HIDE DEF diff
<1>4. CASE diff >= Window
  BY <1>3, <1>4, ConstantFractions
<1>5. CASE ~(diff >= Window)
  <2>1. Window - diff \in Nat /\ Window - diff <= 1 * Window
    BY <1>1, <1>2, <1>5
  <2>2. Temporal(a, b)[1] = Window - diff /\ Temporal(a, b)[2] = Window
    BY <1>3, <1>5
  <2>3. Temporal(a, b) \in Nat \X (Nat \ {0})
    BY <1>1, <1>3, <1>5, <2>1
  <2>. QED
    BY <2>1, <2>2, <2>3 DEF Frac, AtMost
<1>. QED
  BY <1>4, <1>5

\* Half the score's count is positive, so the score is a fraction, never more
\* than 1, and grows with the count.
LEMMA ScoreFacts ==
  ASSUME NEW n \in Nat
  PROVE  /\ Frac(Score(n)) /\ AtMost(Score(n), 1)
         /\ n = 0 => Score(n)[1] = 0
         /\ \A m \in Nat : n <= m => Le(Score(n), Score(m))
<1>1. KnowledgeK \in Nat \ {0}
  BY KnowledgeAssumption
<1>2. Score(n) = <<n, n + KnowledgeK>> /\ n + KnowledgeK \in Nat \ {0} /\ n <= 1 * (n + KnowledgeK)
  BY <1>1 DEF Score
<1>3. Frac(Score(n)) /\ AtMost(Score(n), 1)
  BY <1>2 DEF Frac, AtMost
<1>4. ASSUME NEW m \in Nat, n <= m PROVE Le(Score(n), Score(m))
  <2>1. n * KnowledgeK <= m * KnowledgeK /\ n * KnowledgeK \in Nat /\ m * KnowledgeK \in Nat
    BY <1>1, <1>4, Multiplied
  <2>2. n * m \in Nat /\ n * m = m * n
    OBVIOUS
  <2>3. n * (m + KnowledgeK) = n * m + n * KnowledgeK
    BY <1>1
  <2>4. m * (n + KnowledgeK) = m * n + m * KnowledgeK
    BY <1>1
  <2>5. n * (m + KnowledgeK) <= m * (n + KnowledgeK)
    BY <2>1, <2>2, <2>3, <2>4
  <2>. QED
    BY <2>5 DEF Le, Score
<1>. QED
  BY <1>2, <1>3, <1>4

\* What the knowledge of more conflicts and co-modifications looks like.
AsWarm(k, l) ==
  /\ \A p \in Path : k.hotzones[p] <= l.hotzones[p]
  /\ \A e \in PathPairs : k.coupling[e] <= l.coupling[e]

HotCounts(a, b, k)    == {k.hotzones[p] : p \in Shared(a, b)}
CoupleCounts(a, b, k) == {k.coupling[pair(p, q)] : p \in a.files, q \in b.files}

LEMMA CountFacts ==
  ASSUME NEW a \in HeatInputs, NEW b \in HeatInputs, NEW k \in Knows
  PROVE  /\ HotCounts(a, b, k) \in SUBSET Nat /\ IsFiniteSet(HotCounts(a, b, k))
         /\ CoupleCounts(a, b, k) \in SUBSET Nat /\ IsFiniteSet(CoupleCounts(a, b, k))
<1>1. a.files \subseteq Path /\ b.files \subseteq Path
  BY DEF HeatInputs
<1>2. IsFiniteSet(a.files) /\ IsFiniteSet(b.files) /\ IsFiniteSet(Shared(a, b)) /\ Shared(a, b) \subseteq Path
  BY <1>1, KnowledgeAssumption, FS_Subset DEF Shared
<1>3. k.hotzones \in [Path -> Nat] /\ k.coupling \in [PathPairs -> Nat]
  BY DEF Knows
<1>4. HotCounts(a, b, k) \in SUBSET Nat
  BY <1>2, <1>3 DEF HotCounts
<1>5. IsFiniteSet(HotCounts(a, b, k))
  <2> DEFINE f == [p \in Shared(a, b) |-> k.hotzones[p]]
  <2>1. IsFiniteSet({f[p] : p \in Shared(a, b)})
    <3>1. f = [p \in Shared(a, b) |-> f[p]]
      OBVIOUS
    <3>. HIDE DEF f
    <3>. QED
      BY <1>2, <3>1, FiniteImage
  <2>2. {f[p] : p \in Shared(a, b)} = HotCounts(a, b, k)
    BY DEF HotCounts
  <2>. QED
    BY <2>1, <2>2
<1>6. CoupleCounts(a, b, k) \in SUBSET Nat
  BY <1>1, <1>3 DEF CoupleCounts, PathPairs
<1>7. IsFiniteSet(CoupleCounts(a, b, k))
  <2> DEFINE X == a.files \X b.files
             f == [pq \in X |-> k.coupling[pair(pq[1], pq[2])]]
  <2>1. IsFiniteSet(X)
    BY <1>2, FS_Product
  <2>2. IsFiniteSet({f[pq] : pq \in X})
    <3>1. f = [pq \in X |-> f[pq]]
      OBVIOUS
    <3>. HIDE DEF f, X
    <3>. QED
      BY <2>1, <3>1, FiniteImage
  <2>3. {f[pq] : pq \in X} = CoupleCounts(a, b, k)
    <3>1. \A pq \in X : f[pq] \in CoupleCounts(a, b, k)
      BY DEF CoupleCounts
    <3>2. ASSUME NEW p \in a.files, NEW q \in b.files
          PROVE  \E pq \in X : f[pq] = k.coupling[pair(p, q)]
      <4>1. <<p, q>> \in X /\ f[<<p, q>>] = k.coupling[pair(p, q)]
        OBVIOUS
      <4>. QED
        BY <4>1
    <3>. HIDE DEF f, X
    <3>3. \A c \in CoupleCounts(a, b, k) : \E pq \in X : f[pq] = c
      BY <3>2 DEF CoupleCounts
    <3>. QED
      BY <3>1, <3>3
  <2>. QED
    BY <2>2, <2>3
<1>. QED
  BY <1>4, <1>5, <1>6, <1>7

LEMMA WarmerCounts ==
  ASSUME NEW a \in HeatInputs, NEW b \in HeatInputs, NEW k \in Knows, NEW l \in Knows, AsWarm(k, l)
  PROVE  /\ Greatest(HotCounts(a, b, k)) <= Greatest(HotCounts(a, b, l))
         /\ Greatest(CoupleCounts(a, b, k)) <= Greatest(CoupleCounts(a, b, l))
<1>1. a.files \subseteq Path /\ b.files \subseteq Path /\ Shared(a, b) \subseteq Path
  BY DEF HeatInputs, Shared
<1>2. ASSUME NEW m \in HotCounts(a, b, k) PROVE \E n \in HotCounts(a, b, l) : m <= n
  <2>1. PICK p \in Shared(a, b) : m = k.hotzones[p]
    BY DEF HotCounts
  <2>2. l.hotzones[p] \in HotCounts(a, b, l)
    BY DEF HotCounts
  <2>3. m <= l.hotzones[p]
    BY <1>1, <2>1 DEF AsWarm
  <2>. QED
    BY <2>2, <2>3
<1>3. ASSUME NEW m \in CoupleCounts(a, b, k) PROVE \E n \in CoupleCounts(a, b, l) : m <= n
  <2>1. PICK p \in a.files, q \in b.files : m = k.coupling[pair(p, q)]
    BY DEF CoupleCounts
  <2>2. l.coupling[pair(p, q)] \in CoupleCounts(a, b, l) /\ pair(p, q) \in PathPairs
    BY <1>1 DEF CoupleCounts, PathPairs
  <2>3. m <= l.coupling[pair(p, q)]
    BY <2>1, <2>2 DEF AsWarm
  <2>. QED
    BY <2>2, <2>3
<1>4. Greatest(HotCounts(a, b, k)) <= Greatest(HotCounts(a, b, l))
  BY <1>2, CountFacts, GreatestGrows
<1>5. Greatest(CoupleCounts(a, b, k)) <= Greatest(CoupleCounts(a, b, l))
  BY <1>3, CountFacts, GreatestGrows
<1>. QED
  BY <1>4, <1>5

-----------------------------------------------------------------------------
(* The heat of two agents                                                  *)

Fields == {"task", "intent", "domain", "file", "temporal", "branch", "hotzone", "coupling"}

\* No component is above 1, and two of the eight need a shared file.
LEMMA ComponentFacts ==
  ASSUME NEW a \in HeatInputs, NEW b \in HeatInputs, NEW k \in Knows
  PROVE  LET c == components(a, b, k)
         IN  /\ DOMAIN c = Fields
             /\ \A f \in Fields : Frac(c[f]) /\ AtMost(c[f], 1)
             /\ Shared(a, b) = {} => c["file"][1] = 0 /\ c["hotzone"][1] = 0
<1> DEFINE c == components(a, b, k)
<1>1. DOMAIN c = Fields
  BY DEF components, Fields
<1>2. /\ IsFiniteSet(a.files) /\ IsFiniteSet(b.files)
      /\ IsFiniteSet(a.domains) /\ IsFiniteSet(b.domains)
      /\ IsFiniteSet(a.task_tokens) /\ IsFiniteSet(b.task_tokens)
  <2>1. /\ a.files \in SUBSET Path /\ b.files \in SUBSET Path
        /\ a.domains \in SUBSET Domains /\ b.domains \in SUBSET Domains
        /\ a.task_tokens \in SUBSET Tokens /\ b.task_tokens \in SUBSET Tokens
    BY DEF HeatInputs
  <2>. QED
    BY <2>1, KnowledgeAssumption, HeatAssumption, FS_Subset
<1>3. c["task"] = jaccard(a.task_tokens, b.task_tokens) /\ c["domain"] = jaccard(a.domains, b.domains)
      /\ c["file"] = jaccard(a.files, b.files) /\ c["temporal"] = Temporal(a, b)
  BY DEF components
<1>4. /\ c["intent"] = IsOne(a.intent = b.intent)
      /\ c["branch"] = IsOne(a.branch = b.branch /\ a.branch # NoBranch)
  BY DEF components
<1>5. /\ c["hotzone"] = Score(Greatest(HotCounts(a, b, k)))
      /\ c["coupling"] = Score(Greatest(CoupleCounts(a, b, k)))
  BY DEF components, Hotzone, Coupling, HotCounts, CoupleCounts
<1>6. Greatest(HotCounts(a, b, k)) \in Nat /\ Greatest(CoupleCounts(a, b, k)) \in Nat
  BY CountFacts, GreatestFacts
<1>. HIDE DEF c
<1>7. /\ Frac(c["task"]) /\ AtMost(c["task"], 1) /\ Frac(c["domain"]) /\ AtMost(c["domain"], 1)
      /\ Frac(c["file"]) /\ AtMost(c["file"], 1) /\ Frac(c["temporal"]) /\ AtMost(c["temporal"], 1)
  BY <1>2, <1>3, jaccardFacts, TemporalFacts
<1>8. /\ Frac(c["intent"]) /\ AtMost(c["intent"], 1) /\ Frac(c["branch"]) /\ AtMost(c["branch"], 1)
  BY <1>4, ConstantFractions DEF IsOne
<1>9. /\ Frac(c["hotzone"]) /\ AtMost(c["hotzone"], 1) /\ Frac(c["coupling"]) /\ AtMost(c["coupling"], 1)
  BY <1>5, <1>6, ScoreFacts
<1>10. ASSUME Shared(a, b) = {} PROVE c["file"][1] = 0 /\ c["hotzone"][1] = 0
  <2>1. c["file"][1] = 0
    BY <1>2, <1>3, <1>10, jaccardFacts DEF Shared
  <2>2. Greatest(HotCounts(a, b, k)) = 0
    <3>1. HotCounts(a, b, k) = {}
      BY <1>10 DEF HotCounts
    <3>. QED
      BY <3>1, CountFacts, GreatestFacts
  <2>. QED
    BY <1>5, <1>6, <2>1, <2>2, ScoreFacts
<1>11. \A f \in Fields : Frac(c[f]) /\ AtMost(c[f], 1)
  BY <1>7, <1>8, <1>9 DEF Fields
<1>. QED
  BY <1>1, <1>10, <1>11 DEF c

\* The total of eight fractions is at most the sum of their bounds...
LEMMA TotalAtMost ==
  ASSUME NEW c, NEW w \in [Fields -> Nat], \A f \in Fields : Frac(c[f]) /\ AtMost(c[f], w[f])
  PROVE  /\ Frac(Total(c))
         /\ AtMost(Total(c), w.task + (w.intent + (w.domain + (w.file +
                             (w.temporal + (w.branch + (w.hotzone + w.coupling)))))))
<1> DEFINE t7 == Plus(c.hotzone, c.coupling)     n7 == w.hotzone + w.coupling
           t6 == Plus(c.branch, t7)              n6 == w.branch + n7
           t5 == Plus(c.temporal, t6)            n5 == w.temporal + n6
           t4 == Plus(c.file, t5)                n4 == w.file + n5
           t3 == Plus(c.domain, t4)              n3 == w.domain + n4
           t2 == Plus(c.intent, t3)              n2 == w.intent + n3
<1>1. /\ w.task \in Nat /\ w.intent \in Nat /\ w.domain \in Nat /\ w.file \in Nat
      /\ w.temporal \in Nat /\ w.branch \in Nat /\ w.hotzone \in Nat /\ w.coupling \in Nat
  BY DEF Fields
<1>2. /\ Frac(c.task) /\ AtMost(c.task, w.task) /\ Frac(c.intent) /\ AtMost(c.intent, w.intent)
      /\ Frac(c.domain) /\ AtMost(c.domain, w.domain) /\ Frac(c.file) /\ AtMost(c.file, w.file)
      /\ Frac(c.temporal) /\ AtMost(c.temporal, w.temporal)
      /\ Frac(c.branch) /\ AtMost(c.branch, w.branch)
      /\ Frac(c.hotzone) /\ AtMost(c.hotzone, w.hotzone)
      /\ Frac(c.coupling) /\ AtMost(c.coupling, w.coupling)
  BY DEF Fields
<1>3. Frac(t7) /\ AtMost(t7, n7) /\ n7 \in Nat
  BY <1>1, <1>2, PlusAtMost
<1>. HIDE DEF t7, n7
<1>4. Frac(t6) /\ AtMost(t6, n6) /\ n6 \in Nat
  BY <1>1, <1>2, <1>3, PlusAtMost
<1>. HIDE DEF t6, n6
<1>5. Frac(t5) /\ AtMost(t5, n5) /\ n5 \in Nat
  BY <1>1, <1>2, <1>4, PlusAtMost
<1>. HIDE DEF t5, n5
<1>6. Frac(t4) /\ AtMost(t4, n4) /\ n4 \in Nat
  BY <1>1, <1>2, <1>5, PlusAtMost
<1>. HIDE DEF t4, n4
<1>7. Frac(t3) /\ AtMost(t3, n3) /\ n3 \in Nat
  BY <1>1, <1>2, <1>6, PlusAtMost
<1>. HIDE DEF t3, n3
<1>8. Frac(t2) /\ AtMost(t2, n2) /\ n2 \in Nat
  BY <1>1, <1>2, <1>7, PlusAtMost
<1>. HIDE DEF t2, n2
<1>9. Frac(Plus(c.task, t2)) /\ AtMost(Plus(c.task, t2), w.task + n2)
  BY <1>1, <1>2, <1>8, PlusAtMost
<1>. QED
  BY <1>9 DEF Total, t2, t3, t4, t5, t6, t7, n2, n3, n4, n5, n6, n7

\* ...and grows with each of them.
LEMMA TotalGrows ==
  ASSUME NEW c, NEW d, \A f \in Fields : Frac(c[f]) /\ Frac(d[f]) /\ Le(c[f], d[f])
  PROVE  Frac(Total(c)) /\ Frac(Total(d)) /\ Le(Total(c), Total(d))
<1> DEFINE t7 == Plus(c.hotzone, c.coupling)     u7 == Plus(d.hotzone, d.coupling)
           t6 == Plus(c.branch, t7)              u6 == Plus(d.branch, u7)
           t5 == Plus(c.temporal, t6)            u5 == Plus(d.temporal, u6)
           t4 == Plus(c.file, t5)                u4 == Plus(d.file, u5)
           t3 == Plus(c.domain, t4)              u3 == Plus(d.domain, u4)
           t2 == Plus(c.intent, t3)              u2 == Plus(d.intent, u3)
<1>1. /\ Frac(c.task) /\ Frac(d.task) /\ Le(c.task, d.task)
      /\ Frac(c.intent) /\ Frac(d.intent) /\ Le(c.intent, d.intent)
      /\ Frac(c.domain) /\ Frac(d.domain) /\ Le(c.domain, d.domain)
      /\ Frac(c.file) /\ Frac(d.file) /\ Le(c.file, d.file)
      /\ Frac(c.temporal) /\ Frac(d.temporal) /\ Le(c.temporal, d.temporal)
      /\ Frac(c.branch) /\ Frac(d.branch) /\ Le(c.branch, d.branch)
      /\ Frac(c.hotzone) /\ Frac(d.hotzone) /\ Le(c.hotzone, d.hotzone)
      /\ Frac(c.coupling) /\ Frac(d.coupling) /\ Le(c.coupling, d.coupling)
  BY DEF Fields
<1>2. Frac(t7) /\ Frac(u7) /\ Le(t7, u7)
  BY <1>1, PlusLe
<1>. HIDE DEF t7, u7
<1>3. Frac(t6) /\ Frac(u6) /\ Le(t6, u6)
  BY <1>1, <1>2, PlusLe
<1>. HIDE DEF t6, u6
<1>4. Frac(t5) /\ Frac(u5) /\ Le(t5, u5)
  BY <1>1, <1>3, PlusLe
<1>. HIDE DEF t5, u5
<1>5. Frac(t4) /\ Frac(u4) /\ Le(t4, u4)
  BY <1>1, <1>4, PlusLe
<1>. HIDE DEF t4, u4
<1>6. Frac(t3) /\ Frac(u3) /\ Le(t3, u3)
  BY <1>1, <1>5, PlusLe
<1>. HIDE DEF t3, u3
<1>7. Frac(t2) /\ Frac(u2) /\ Le(t2, u2)
  BY <1>1, <1>6, PlusLe
<1>. HIDE DEF t2, u2
<1>8. /\ Frac(Plus(c.task, t2)) /\ Frac(Plus(d.task, u2))
      /\ Le(Plus(c.task, t2), Plus(d.task, u2))
  BY <1>1, <1>7, PlusLe
<1>. QED
  BY <1>8 DEF Total, t2, t3, t4, t5, t6, t7, u2, u3, u4, u5, u6, u7

Weighted(c) == [f \in DOMAIN c |-> Times(Weights[f], c[f])]

LEMMA WeightFacts == DOMAIN Weights = Fields /\ \A f \in Fields : Weights[f] \in Nat
BY DEF Weights, Fields

LEMMA HeatFacts ==
  ASSUME NEW a \in HeatInputs, NEW b \in HeatInputs, NEW k \in Knows
  PROVE  /\ compute_heat(a, b, k) \in Nat
         /\ Shared(a, b) = {} => compute_heat(a, b, k) <= 70
<1> DEFINE c == components(a, b, k)
<1>1. compute_heat(a, b, k) = Round(Total(Weighted(c)))
  BY DEF compute_heat, Weighted
<1>2. /\ DOMAIN c = Fields
      /\ \A f \in Fields : Frac(c[f]) /\ AtMost(c[f], 1)
      /\ Shared(a, b) = {} => c["file"][1] = 0 /\ c["hotzone"][1] = 0
  BY ComponentFacts
<1>. HIDE DEF c
<1>3. \A f \in Fields : Weighted(c)[f] = Times(Weights[f], c[f])
  BY <1>2 DEF Weighted
<1>4. \A f \in Fields : Frac(Weighted(c)[f]) /\ AtMost(Weighted(c)[f], Weights[f])
  BY <1>2, <1>3, WeightFacts, TimesFacts
<1>5. Weights \in [Fields -> Nat]
  <2>1. Weights = [f \in DOMAIN Weights |-> Weights[f]]
    BY DEF Weights
  <2>. QED
    BY <2>1, WeightFacts
<1>6. Frac(Total(Weighted(c)))
  BY <1>4, <1>5, TotalAtMost
<1>7. ASSUME Shared(a, b) = {} PROVE AtMost(Total(Weighted(c)), 70)
  <2> DEFINE w == [f \in Fields |-> IF f \in {"file", "hotzone"} THEN 0 ELSE Weights[f]]
  <2>1. w \in [Fields -> Nat]
    BY WeightFacts
  <2>2. \A f \in Fields : AtMost(Weighted(c)[f], w[f])
    <3>1. AtMost(Weighted(c)["file"], 0) /\ AtMost(Weighted(c)["hotzone"], 0)
      BY <1>2, <1>3, <1>7, WeightFacts, TimesFacts DEF Fields
    <3>. QED
      BY <1>4, <3>1
  <2>3. /\ w.task = 10 /\ w.intent = 15 /\ w.domain = 15 /\ w.file = 0
        /\ w.temporal = 10 /\ w.branch = 10 /\ w.hotzone = 0 /\ w.coupling = 10
    BY DEF Weights, Fields
  <2>. HIDE DEF w
  <2>4. AtMost(Total(Weighted(c)), 10 + (15 + (15 + (0 + (10 + (10 + (0 + 10)))))))
    BY <1>4, <2>1, <2>2, <2>3, TotalAtMost
  <2>. QED
    BY <2>4
<1>. QED
  BY <1>1, <1>6, <1>7, RoundFacts

LEMMA WarmerHeat ==
  ASSUME NEW a \in HeatInputs, NEW b \in HeatInputs, NEW k \in Knows, NEW l \in Knows, AsWarm(k, l)
  PROVE  compute_heat(a, b, k) <= compute_heat(a, b, l)
<1> DEFINE c == components(a, b, k)
           d == components(a, b, l)
<1>1. /\ compute_heat(a, b, k) = Round(Total(Weighted(c)))
      /\ compute_heat(a, b, l) = Round(Total(Weighted(d)))
  BY DEF compute_heat, Weighted
<1>2. /\ DOMAIN c = Fields /\ DOMAIN d = Fields
      /\ \A f \in Fields : Frac(c[f]) /\ Frac(d[f])
  BY ComponentFacts
<1>3. \A f \in Fields \ {"hotzone", "coupling"} : c[f] = d[f]
  BY DEF components, Fields
<1>4. Le(c["hotzone"], d["hotzone"]) /\ Le(c["coupling"], d["coupling"])
  <2>1. /\ c["hotzone"] = Score(Greatest(HotCounts(a, b, k)))
        /\ c["coupling"] = Score(Greatest(CoupleCounts(a, b, k)))
        /\ d["hotzone"] = Score(Greatest(HotCounts(a, b, l)))
        /\ d["coupling"] = Score(Greatest(CoupleCounts(a, b, l)))
    BY DEF components, Hotzone, Coupling, HotCounts, CoupleCounts
  <2>2. /\ Greatest(HotCounts(a, b, k)) \in Nat /\ Greatest(CoupleCounts(a, b, k)) \in Nat
        /\ Greatest(HotCounts(a, b, l)) \in Nat /\ Greatest(CoupleCounts(a, b, l)) \in Nat
    BY CountFacts, GreatestFacts
  <2>. HIDE DEF c, d
  <2>. QED
    BY <2>1, <2>2, WarmerCounts, ScoreFacts
<1>. HIDE DEF c, d
<1>5. \A f \in Fields : Le(c[f], d[f])
  <2>1. ASSUME NEW r, Frac(r) PROVE Le(r, r)
    <3>1. r[1] * r[2] \in Nat
      BY <2>1 DEF Frac
    <3>. QED
      BY <3>1 DEF Le
  <2>. QED
    BY <1>2, <1>3, <1>4, <2>1
<1>6. \A f \in Fields : /\ Weighted(c)[f] = Times(Weights[f], c[f])
                        /\ Weighted(d)[f] = Times(Weights[f], d[f])
  BY <1>2 DEF Weighted
<1>7. \A f \in Fields : /\ Frac(Weighted(c)[f]) /\ Frac(Weighted(d)[f])
                        /\ Le(Weighted(c)[f], Weighted(d)[f])
  BY <1>2, <1>5, <1>6, WeightFacts, TimesFacts
<1>8. /\ Frac(Total(Weighted(c))) /\ Frac(Total(Weighted(d)))
      /\ Le(Total(Weighted(c)), Total(Weighted(d)))
  BY <1>7, TotalGrows
<1>. QED
  BY <1>1, <1>8, RoundFacts

-----------------------------------------------------------------------------
(* What is learned next                                                    *)

LEMMA ConflictTeaches ==
  ASSUME NEW k \in Knows, NEW paths
  PROVE  record_conflict(k, paths) \in Knows /\ AsWarm(k, record_conflict(k, paths))
<1>1. k.hotzones \in [Path -> Nat] /\ k.coupling \in [PathPairs -> Nat]
  BY DEF Knows
<1> DEFINE h == [p \in Path |-> k.hotzones[p] + (IF p \in paths THEN 1 ELSE 0)]
           c == [e \in PathPairs |-> k.coupling[e] + (IF e \in Within(paths) THEN 1 ELSE 0)]
<1>2. h \in [Path -> Nat] /\ \A p \in Path : k.hotzones[p] <= h[p]
  BY <1>1
<1>3. c \in [PathPairs -> Nat] /\ \A e \in PathPairs : k.coupling[e] <= c[e]
  BY <1>1
<1>4. record_conflict(k, paths) = [hotzones |-> h, coupling |-> c]
  BY DEF record_conflict
<1>. HIDE DEF h, c
<1>. QED
  BY <1>2, <1>3, <1>4 DEF Knows, AsWarm

LEMMA ClaimTeaches ==
  ASSUME NEW k \in Knows, NEW files \in Seq(Path)
  PROVE  record_claim_files(k, files) \in Knows /\ AsWarm(k, record_claim_files(k, files))
<1>1. k \in [hotzones : [Path -> Nat], coupling : [PathPairs -> Nat]]
  BY DEF Knows
<1> DEFINE I == DOMAIN files
           times(e) == Cardinality({ij \in I \X I :
                         ij[1] < ij[2] /\ pair(files[ij[1]], files[ij[2]]) = e})
           c == [e \in PathPairs |-> k.coupling[e] + times(e)]
<1>2. \A e \in PathPairs : times(e) \in Nat
  <2>1. I = 1 .. Len(files) /\ Len(files) \in Nat
    BY LenProperties
  <2>2. IsFiniteSet(I)
    BY <2>1, FS_Interval
  <2>. HIDE DEF I
  <2>3. IsFiniteSet(I \X I)
    BY <2>2, FS_Product
  <2>4. \A S \in SUBSET (I \X I) : Cardinality(S) \in Nat
    BY <2>3, FS_Subset, FS_CardinalityType
  <2>. QED
    BY <2>4
<1>3. c \in [PathPairs -> Nat] /\ \A e \in PathPairs : k.coupling[e] <= c[e]
  <2>. HIDE DEF times
  <2>1. \A e \in PathPairs : k.coupling[e] \in Nat
    BY <1>1
  <2>. QED
    BY <1>2, <2>1
<1>4. accrue_pairs(k, files) = [k EXCEPT !.coupling = c]
  BY DEF accrue_pairs
<1>. HIDE DEF c
<1>5. accrue_pairs(k, files) \in Knows /\ AsWarm(k, accrue_pairs(k, files))
  <2>1. /\ accrue_pairs(k, files) \in [hotzones : [Path -> Nat], coupling : [PathPairs -> Nat]]
        /\ accrue_pairs(k, files).hotzones = k.hotzones /\ accrue_pairs(k, files).coupling = c
    BY <1>1, <1>3, <1>4
  <2>2. \A p \in Path : k.hotzones[p] \in Nat
    BY <1>1
  <2>. QED
    BY <1>3, <2>1, <2>2 DEF Knows, AsWarm
<1>6. AsWarm(k, k)
  BY <1>1 DEF AsWarm
<1>. QED
  BY <1>5, <1>6 DEF record_claim_files

LEMMA OrderFacts ==
  ASSUME NEW S, IsFiniteSet(S)
  PROVE  Order(S) \in Seq(S)
<1>1. Cardinality(S) \in Nat
  BY FS_CardinalityType
<1>2. PICK f : f \in Bijection(1 .. Cardinality(S), S)
  BY FS_CardinalityType DEF ExistsBijection
<1>3. f \in [1 .. Cardinality(S) -> S] /\ \A i, j \in DOMAIN f : i # j => f[i] # f[j]
  BY <1>2 DEF Bijection, Injection, IsInjective
<1>4. Order(S) \in [1 .. Cardinality(S) -> S]
  BY <1>3 DEF Order
<1>. QED
  BY <1>1, <1>4, SeqDef

\* What is asked has its type, and what is answered answers it.
HeatInv ==
  /\ ask.a \in HeatInputs /\ ask.b \in HeatInputs /\ ask.knows \in Knows
  /\ answer = Unanswered \/
       answer = [heat    |-> compute_heat(ask.a, ask.b, ask.knows),
                 advice  |-> Advice(ask.a, {ask.b}, ask.knows),
                 learned |-> <<compute_heat(ask.a, ask.b,
                                 record_conflict(ask.knows, Shared(ask.a, ask.b))),
                               compute_heat(ask.a, ask.b,
                                 record_claim_files(ask.knows, Order(ask.a.files \cup ask.b.files)))>>]

LEMMA HeatInvariant == HeatInit /\ [][Answer]_heatVars => []HeatInv
<1>1. HeatInit => HeatInv
  <2> SUFFICES ASSUME HeatInit PROVE HeatInv
    OBVIOUS
  <2>1. Counts \subseteq Knows
    BY OftenAssumption DEF Counts, Knows
  <2>2. ask.a \in HeatInputs /\ ask.b \in HeatInputs /\ ask.knows \in Counts /\ answer = Unanswered
    BY DEF HeatInit
  <2>. QED
    BY <2>1, <2>2 DEF HeatInv
<1>2. HeatInv /\ [Answer]_heatVars => HeatInv'
  BY DEF HeatInv, Answer, heatVars
<1>. QED
  BY <1>1, <1>2, PTL

LEMMA BandFacts ==
  ASSUME NEW h \in Nat
  PROVE  /\ band_for(h) \in {"SAFE", "MONITOR", "OVERLAP", "CONFLICT_CANDIDATE"}
         /\ band_for(h) = "CONFLICT_CANDIDATE" <=> h > 75
BY DEF band_for, SafeMax, MonitorMax, OverlapMax

\* For every two agents at work and everything that may be known: the six
\* components that need no common file come to 70 of 100 at most, rounding
\* included, and the last band begins at 76.
THEOREM ConflictsNameAFile == HeatInit /\ [][Answer]_heatVars => []HotPairsShareAFile
<1>1. HeatInv => HotPairsShareAFile
  <2> SUFFICES ASSUME HeatInv, answer # Unanswered, band_for(answer.heat) = "CONFLICT_CANDIDATE",
                      Shared(ask.a, ask.b) = {}
               PROVE  FALSE
    BY DEF HotPairsShareAFile
  <2>1. answer.heat = compute_heat(ask.a, ask.b, ask.knows)
    BY DEF HeatInv
  <2>2. answer.heat \in Nat /\ answer.heat <= 70
    BY <2>1, HeatFacts DEF HeatInv
  <2>. QED
    BY <2>2, BandFacts
<1>. QED
  BY <1>1, HeatInvariant, PTL

\* What is learned between a forecast and the claim's heat is a count more or
\* none, and a greater count never lowers the heat: whatever the files, the
\* domains, the window and the half score.
THEOREM LearningNeverCools == HeatInit /\ [][Answer]_heatVars => []LearningOnlyWarms
<1>1. HeatInv => LearningOnlyWarms
  <2> SUFFICES ASSUME HeatInv, NEW i \in DOMAIN answer.learned
               PROVE  /\ answer.learned[i] >= answer.heat
                      /\ answer.advice = "NEGOTIATE_BEFORE_CLAIM"
                           => band_for(answer.learned[i]) = "CONFLICT_CANDIDATE"
    BY DEF LearningOnlyWarms
  <2> DEFINE a == ask.a
             b == ask.b
             k == ask.knows
             k1 == record_conflict(k, Shared(a, b))
             k2 == record_claim_files(k, Order(a.files \cup b.files))
             heat == compute_heat(a, b, k)
  <2>1. a \in HeatInputs /\ b \in HeatInputs /\ k \in Knows
    BY DEF HeatInv
  <2>2. answer # Unanswered
    <3>1. Unanswered.learned = <<>>
      BY DEF Unanswered
    <3>2. DOMAIN <<>> = {}
      OBVIOUS
    <3>. QED
      BY <3>1, <3>2, Zenon
  <2>3. /\ answer.heat = heat /\ answer.advice = Advice(a, {b}, k)
        /\ answer.learned = <<compute_heat(a, b, k1), compute_heat(a, b, k2)>>
    BY <2>2 DEF HeatInv
  <2>4. answer.learned[i] = compute_heat(a, b, k1) \/ answer.learned[i] = compute_heat(a, b, k2)
    BY <2>3
  <2>5. k1 \in Knows /\ AsWarm(k, k1)
    BY <2>1, ConflictTeaches
  <2>6. k2 \in Knows /\ AsWarm(k, k2)
    <3>1. a.files \cup b.files \subseteq Path
      BY <2>1 DEF HeatInputs
    <3>2. Order(a.files \cup b.files) \in Seq(a.files \cup b.files)
      BY <3>1, KnowledgeAssumption, FS_Subset, OrderFacts
    <3>3. Order(a.files \cup b.files) \in Seq(Path)
      BY <3>1, <3>2
    <3>. QED
      BY <2>1, <3>3, ClaimTeaches
  <2>. HIDE DEF a, b, k, k1, k2
  <2>7. /\ heat \in Nat /\ compute_heat(a, b, k1) \in Nat /\ compute_heat(a, b, k2) \in Nat
        /\ heat <= compute_heat(a, b, k1) /\ heat <= compute_heat(a, b, k2)
    BY <2>1, <2>5, <2>6, HeatFacts, WarmerHeat
  <2>8. Advice(a, {b}, k) = recommendation(band_for(heat))
    <3>1. {compute_heat(a, b, k)} \in SUBSET Nat /\ IsFiniteSet({compute_heat(a, b, k)})
      BY <2>7, FS_Singleton
    <3>2. Greatest({heat}) \in {heat} \cup {0} /\ heat <= Greatest({heat}) /\ Greatest({heat}) \in Nat
      BY <3>1, GreatestFacts
    <3>3. Greatest({heat}) = heat
      BY <2>7, <3>2
    <3>4. {compute_heat(a, o, k) : o \in {b}} = {heat}
      OBVIOUS
    <3>. QED
      BY <3>3, <3>4 DEF Advice
  <2>. HIDE DEF heat
  <2>9. ASSUME answer.advice = "NEGOTIATE_BEFORE_CLAIM" PROVE heat > 75
    <3>1. recommendation(band_for(heat)) = "NEGOTIATE_BEFORE_CLAIM"
      BY <2>3, <2>8, <2>9
    <3>. QED
      BY <2>7, <3>1, BandFacts DEF recommendation
  <2>10. answer.learned[i] \in Nat /\ answer.learned[i] >= heat
    BY <2>4, <2>7 DEF heat
  <2>. QED
    BY <2>3, <2>7, <2>9, <2>10, BandFacts
<1>. QED
  BY <1>1, HeatInvariant, PTL

-----------------------------------------------------------------------------
(* The passes over the log                                                 *)

\* The statistics, the marks of the recap and its streaks are each worked out in
\* a pass: what a pass k starts from, and what it makes of one event more.
Start(k) == IF k = "stats" THEN NoStats ELSE IF k = "marks" THEN NoMarks ELSE NoRun
Step(k, s, e) ==
  IF k = "stats" THEN CountEvent(s, e) ELSE IF k = "marks" THEN MarkEvent(s, e) ELSE RunOn(s, e)

Nth(k, es, h, n) == IF n = 0 THEN Start(k) ELSE Step(k, h[n - 1], es[n])

\* The pass over the first so many events exists: the shortest pass for which it
\* did not would follow a shorter one.
LEMMA PassExists ==
  ASSUME NEW k, NEW es, NEW l \in Nat
  PROVE  \E f : f = [n \in 0 .. l |-> Nth(k, es, f, n)]
<1> DEFINE Has(m) == \E f : f = [n \in 0 .. m |-> Nth(k, es, f, n)]
           Bad == {m \in Nat : ~Has(m)}
<1>1. SUFFICES ASSUME Bad # {} PROVE FALSE
  OBVIOUS
<1>3. PICK m \in Bad : \A i \in Bad : m <= i
  <2>1. Bad \in SUBSET Nat
    OBVIOUS
  <2>. HIDE DEF Bad
  <2>. QED
    BY <1>1, <2>1, LeastElement
<1>4. m # 0
  <2>1. [n \in 0 .. 0 |-> Start(k)] = [n \in 0 .. 0 |-> Nth(k, es, [i \in 0 .. 0 |-> Start(k)], n)]
    BY DEF Nth
  <2>2. Has(0)
    BY <2>1
  <2>. QED
    BY <1>3, <2>2
<1>5. m - 1 \in Nat /\ m - 1 \notin Bad
  BY <1>3, <1>4
<1>6. PICK h : h = [n \in 0 .. m - 1 |-> Nth(k, es, h, n)]
  BY <1>5
<1> DEFINE f == [n \in 0 .. m |-> IF n = m THEN Nth(k, es, h, m) ELSE h[n]]
<1>7. \A n \in 0 .. m - 1 : f[n] = h[n]
  BY <1>3
<1>8. \A n \in 0 .. m : f[n] = Nth(k, es, f, n)
  <2> TAKE n \in 0 .. m
  <2>1. CASE n = m
    <3>1. f[n] = Nth(k, es, h, m) /\ h[m - 1] = f[m - 1]
      BY <1>5, <1>7, <2>1
    <3>. QED
      BY <1>4, <2>1, <3>1 DEF Nth
  <2>2. CASE n # m
    <3>1. n \in 0 .. m - 1 /\ (n # 0 => n - 1 \in 0 .. m - 1) /\ f[n] = h[n]
      BY <1>3, <1>5, <2>2
    <3>2. h[n] = Nth(k, es, h, n)
      BY <1>6, <3>1
    <3>3. n # 0 => f[n - 1] = h[n - 1]
      BY <1>7, <3>1
    <3>. QED
      BY <3>1, <3>2, <3>3 DEF Nth
  <2>. QED
    BY <2>1, <2>2
<1>9. f = [n \in 0 .. m |-> Nth(k, es, f, n)]
  <2>1. f = [n \in 0 .. m |-> f[n]]
    OBVIOUS
  <2>. HIDE DEF f
  <2>. QED
    BY <1>8, <2>1
<1>. QED
  BY <1>3, <1>9

After(k, es)  == CHOOSE f : f = [n \in 0 .. Len(es) |-> Nth(k, es, f, n)]
Result(k, es) == After(k, es)[Len(es)]

LEMMA PassFacts ==
  ASSUME NEW k, NEW es, Len(es) \in Nat
  PROVE  /\ After(k, es)[0] = Start(k)
         /\ \A n \in 1 .. Len(es) : After(k, es)[n] = Step(k, After(k, es)[n - 1], es[n])
<1>1. After(k, es) = [n \in 0 .. Len(es) |-> Nth(k, es, After(k, es), n)]
  BY PassExists DEF After
<1>2. After(k, es)[0] = Start(k)
  BY <1>1 DEF Nth
<1>3. ASSUME NEW n \in 1 .. Len(es) PROVE After(k, es)[n] = Step(k, After(k, es)[n - 1], es[n])
  <2>1. n \in 0 .. Len(es) /\ n # 0
    OBVIOUS
  <2>. QED
    BY <1>1, <2>1 DEF Nth
<1>. QED
  BY <1>2, <1>3

\* A pass over a longer log goes on where the shorter one's ended.
LEMMA PassGoesOn ==
  ASSUME NEW k, NEW S, NEW es \in Seq(S), NEW e
  PROVE  Result(k, Append(es, e)) = Step(k, Result(k, es), e)
<1> DEFINE l == Len(es)
           fs == Append(es, e)
<1>1. /\ l \in Nat /\ Len(fs) = l + 1
      /\ \A i \in 1 .. l : fs[i] = es[i]
      /\ fs[l + 1] = e
  BY AppendProperties, LenProperties
<1>. HIDE DEF fs
<1>2. /\ After(k, fs)[0] = Start(k)
      /\ \A n \in 1 .. l + 1 : After(k, fs)[n] = Step(k, After(k, fs)[n - 1], fs[n])
  <2>1. Len(fs) \in Nat
    BY <1>1
  <2>. QED
    BY <1>1, <2>1, PassFacts
<1>3. /\ After(k, es)[0] = Start(k)
      /\ \A n \in 1 .. l : After(k, es)[n] = Step(k, After(k, es)[n - 1], es[n])
  BY <1>1, PassFacts
<1>. HIDE DEF l
<1> DEFINE Bad == {n \in 0 .. l : After(k, fs)[n] # After(k, es)[n]}
<1>4. ASSUME Bad # {} PROVE FALSE
  <2>1. PICK n \in Bad : \A i \in Bad : n <= i
    <3>1. Bad \subseteq Nat
      BY <1>1
    <3>. HIDE DEF Bad
    <3>. QED
      BY <1>4, <3>1, LeastElement
  <2>2. n # 0
    BY <1>2, <1>3, <2>1
  <2>3. n \in 1 .. l /\ n \in 1 .. l + 1 /\ n - 1 \in 0 .. l /\ n - 1 \notin Bad
    BY <1>1, <2>1, <2>2
  <2>4. After(k, fs)[n - 1] = After(k, es)[n - 1]
    BY <2>3
  <2>5. After(k, fs)[n] = After(k, es)[n]
    BY <1>1, <1>2, <1>3, <2>3, <2>4
  <2>. QED
    BY <2>1, <2>5
<1>5. After(k, fs)[l] = After(k, es)[l]
  BY <1>1, <1>4
<1>6. After(k, fs)[l + 1] = Step(k, After(k, fs)[l], e)
  <2>1. l + 1 \in 1 .. l + 1 /\ (l + 1) - 1 = l
    BY <1>1
  <2>. QED
    BY <1>1, <1>2, <2>1
<1>. QED
  BY <1>1, <1>5, <1>6 DEF fs, l, Result

LEMMA EmptyPass == \A k : Result(k, <<>>) = Start(k)
<1>1. Len(<<>>) = 0
  OBVIOUS
<1>. QED
  BY <1>1, PassFacts DEF Result

LEMMA Passes ==
  ASSUME NEW es
  PROVE  /\ summarize(es) = Result("stats", es)
         /\ Marks(es) = Result("marks", es)
         /\ longest_run(es) = Result("run", es).max
<1>1. summarize(es) = Result("stats", es)
  BY DEF summarize, Result, After, Nth, Start, Step
<1>2. Marks(es) = Result("marks", es)
  BY DEF Marks, Result, After, Nth, Start, Step
<1>3. longest_run(es) = Result("run", es).max
  BY DEF longest_run, Result, After, Nth, Start, Step
<1>. QED
  BY <1>1, <1>2, <1>3

LEMMA OneMoreEvent ==
  ASSUME NEW S, NEW es \in Seq(S), NEW e
  PROVE  /\ summarize(Append(es, e)) = CountEvent(summarize(es), e)
         /\ Marks(Append(es, e)) = MarkEvent(Marks(es), e)
         /\ Result("run", Append(es, e)) = RunOn(Result("run", es), e)
<1>1. \A k : Result(k, Append(es, e)) = Step(k, Result(k, es), e)
  BY PassGoesOn
<1>. QED
  BY <1>1, Passes DEF Step

LEMMA NoEvents ==
  /\ summarize(<<>>) = NoStats
  /\ Marks(<<>>) = NoMarks
  /\ Result("run", <<>>) = NoRun
BY Passes, EmptyPass DEF Start

-----------------------------------------------------------------------------
(* What an event adds to the account of conflicts                          *)

Shape(s) ==
  /\ DOMAIN s = {"session", "seen", "files", "peak", "agents"}
  /\ s.session \in [Counters -> Nat]

LEMMA CounterFacts ==
  ASSUME NEW s, Shape(s), NEW c \in Counters
  PROVE  /\ Shape(Count(s, c)) /\ Count(s, c).session[c] = s.session[c] + 1
         /\ \A d \in Counters \ {c} : Count(s, c).session[d] = s.session[d]
<1>1. Count(s, c).session = [s.session EXCEPT ![c] = @ + 1] /\ DOMAIN Count(s, c) = DOMAIN s
  BY DEF Count, Shape
<1>2. [s.session EXCEPT ![c] = @ + 1] \in [Counters -> Nat]
  BY DEF Shape
<1>. QED
  BY <1>1, <1>2 DEF Shape

LEMMA TallyFacts ==
  ASSUME NEW s, Shape(s), NEW who, NEW f, NEW n
  PROVE  Shape(Tally(s, who, f, n)) /\ Tally(s, who, f, n).session = s.session
BY DEF Tally, Shape

Ends == {"auto_resolved_heat_dropped", "negotiated_resolved", "user_arbitrated", "aborted"}
Account == Ends \cup {"conflicts_opened"}

Same(s, t, cs) == \A c \in cs : t.session[c] = s.session[c]

\* An event of another kind leaves the account alone.
LEMMA OtherEvents ==
  ASSUME NEW s, Shape(s), NEW e,
         e.type \notin {"CONFLICT_OPENED", "CONFLICT_RESOLVED", "CONFLICT_ABORTED"}
  PROVE  Shape(CountEvent(s, e)) /\ Same(s, CountEvent(s, e), Account)
<1>. DEFINE Fine(t) == Shape(t) /\ Same(s, t, Account)
<1>1. Fine(s)
  BY DEF Same
<1>2. ASSUME NEW c \in Counters \ Account PROVE Fine(Count(s, c))
  <2>1. Account \subseteq Counters
    BY DEF Account, Ends, Counters
  <2>. QED
    BY <2>1, CounterFacts DEF Same
<1>3. ASSUME NEW t, Fine(t), NEW who, NEW f, NEW n PROVE Fine(Tally(t, who, f, n))
  BY <1>3, TallyFacts DEF Same
<1>4. /\ "claims_created" \in Counters \ Account /\ "claims_rejected" \in Counters \ Account
      /\ "claims_released" \in Counters \ Account /\ "heat_updates" \in Counters \ Account
      /\ "escalated" \in Counters \ Account /\ "timed_out" \in Counters \ Account
      /\ "arbitrations_requested" \in Counters \ Account /\ "deadlocks" \in Counters \ Account
  BY DEF Account, Ends, Counters
<1>5. /\ Fine([s EXCEPT !.seen = @ \cup {e.agent}]) /\ Fine([s EXCEPT !.files = @ \cup e.files])
  BY DEF Shape, Same
<1>6. Fine(CountHeat(s, e))
  <2> DEFINE t == Tally(Tally(Count(s, "heat_updates"), ToSet(e.pair), "heat_generated_sum", e.heat),
                        ToSet(e.pair), "heat_generated_count", 1)
  <2>1. Fine(t)
    <3>. HIDE DEF Fine
    <3>. QED
      BY <1>2, <1>3, <1>4
  <2>2. CountHeat(s, e) = t \/ CountHeat(s, e) = [t EXCEPT !.peak = [heat |-> e.heat, pair |-> e.pair, ts |-> e.ts]]
    BY DEF CountHeat
  <2>. HIDE DEF t
  <2>3. Fine([t EXCEPT !.peak = [heat |-> e.heat, pair |-> e.pair, ts |-> e.ts]])
    BY <2>1 DEF Shape, Same
  <2>. QED
    BY <2>1, <2>2, <2>3
<1>. HIDE DEF Fine
<1>7. CASE e.type = "AGENT_JOINED"
  <2>1. CountEvent(s, e) = [s EXCEPT !.seen = @ \cup {e.agent}]
    BY <1>7 DEF CountEvent
  <2>. QED
    BY <1>5, <2>1 DEF Fine
<1>8. CASE e.type = "CLAIM_CREATED"
  <2>1. CountEvent(s, e) = Tally(Count(s, "claims_created"), {e.agent}, "claims_made", 1)
    BY <1>8 DEF CountEvent
  <2>. QED
    BY <1>2, <1>3, <1>4, <2>1 DEF Fine
<1>9. CASE e.type \in {"CLAIM_REJECTED", "CONFLICT_ESCALATED", "CONFLICT_TIMEOUT"}
  <2>1. CountEvent(s, e) \in {Count(s, "claims_rejected"), Count(s, "escalated"), Count(s, "timed_out")}
    BY <1>9 DEF CountEvent
  <2>. QED
    BY <1>2, <1>4, <2>1 DEF Fine
<1>10. CASE e.type = "CLAIM_RELEASED"
  <2>1. CountEvent(s, e) = Tally(Count(s, "claims_released"),
               IF e.reason = "TASK_COMPLETED" THEN {e.agent} ELSE {}, "tasks_completed", 1)
    BY <1>10 DEF CountEvent
  <2>. QED
    BY <1>2, <1>3, <1>4, <2>1 DEF Fine
<1>11. CASE e.type = "CLAIM_ORPHANED"
  <2>1. CountEvent(s, e) = Tally(s, {e.agent}, "ghost_claims", 1)
    BY <1>11 DEF CountEvent
  <2>. QED
    BY <1>1, <1>3, <2>1 DEF Fine
<1>12. CASE e.type = "FILE_TOUCHED"
  <2>1. CountEvent(s, e) = [s EXCEPT !.files = @ \cup e.files]
    BY <1>12 DEF CountEvent
  <2>. QED
    BY <1>5, <2>1 DEF Fine
<1>13. CASE e.type = "HEAT_UPDATED"
  <2>1. CountEvent(s, e) = CountHeat(s, e)
    BY <1>13 DEF CountEvent
  <2>. QED
    BY <1>6, <2>1 DEF Fine
<1>14. CASE e.type = "USER_ARBITRATION_REQUIRED"
  <2>1. CountEvent(s, e)
          = Tally(Count(s, "arbitrations_requested"), ToSet(e.pair), "arbitrations_involved", 1)
    BY <1>14 DEF CountEvent
  <2>. QED
    BY <1>2, <1>3, <1>4, <2>1 DEF Fine
<1>15. CASE e.type = "DEADLOCK_DETECTED"
  <2>1. CountEvent(s, e) = Tally(Count(s, "deadlocks"), ToSet(e.pair), "deadlocks_involved", 1)
    BY <1>15 DEF CountEvent
  <2>. QED
    BY <1>2, <1>3, <1>4, <2>1 DEF Fine
<1>16. CASE e.type \notin {"AGENT_JOINED", "CLAIM_CREATED", "CLAIM_REJECTED", "CONFLICT_ESCALATED",
                           "CONFLICT_TIMEOUT", "CLAIM_RELEASED", "CLAIM_ORPHANED", "FILE_TOUCHED",
                           "HEAT_UPDATED", "USER_ARBITRATION_REQUIRED", "DEADLOCK_DETECTED"}
  <2>1. CountEvent(s, e) = s
    BY <1>16 DEF CountEvent
  <2>. QED
    BY <1>1, <2>1 DEF Fine
<1>. QED
  BY <1>7, <1>8, <1>9, <1>10, <1>11, <1>12, <1>13, <1>14, <1>15, <1>16

LEMMA OpenedEvents ==
  ASSUME NEW s, Shape(s), NEW e, e.type = "CONFLICT_OPENED"
  PROVE  /\ Shape(CountEvent(s, e)) /\ Same(s, CountEvent(s, e), Ends)
         /\ CountEvent(s, e).session["conflicts_opened"] = s.session["conflicts_opened"] + 1
<1>1. CountEvent(s, e) = Tally(Count(s, "conflicts_opened"), ToSet(e.pair), "conflicts_involved", 1)
  BY DEF CountEvent
<1>2. "conflicts_opened" \in Counters /\ Ends \subseteq Counters \ {"conflicts_opened"}
  BY DEF Counters, Ends
<1>3. /\ Shape(Count(s, "conflicts_opened")) /\ Same(s, Count(s, "conflicts_opened"), Ends)
      /\ Count(s, "conflicts_opened").session["conflicts_opened"] = s.session["conflicts_opened"] + 1
  BY <1>2, CounterFacts DEF Same
<1>. QED
  BY <1>1, <1>3, TallyFacts DEF Same

\* Every resolution that compare can give, and the two others, is a word that
\* summarize knows.
LEMMA ResolutionsAreKnown ==
  Resolutions \subseteq {"AUTO_RESOLVED_HEAT_DROPPED", "USER_ARBITRATED"} \cup Negotiated
<1> SUFFICES ASSUME NEW p \in Plain, NEW q \in Plain, Compare(p, q, {}).auto
             PROVE  Compare(p, q, {}).reason \in Negotiated
  BY DEF Resolutions
<1>. QED
  BY DEF Compare, AutoResolve, Escalate, Negotiated

\* An end counts once, in one of the four counters.
LEMMA EndEvents ==
  ASSUME NEW s, Shape(s), NEW e,
         \/ e.type = "CONFLICT_ABORTED"
         \/ e.type = "CONFLICT_RESOLVED" /\ e.resolution \in Resolutions
  PROVE  /\ Shape(CountEvent(s, e)) /\ Same(s, CountEvent(s, e), {"conflicts_opened"})
         /\ \E c \in Ends : /\ CountEvent(s, e).session[c] = s.session[c] + 1
                            /\ Same(s, CountEvent(s, e), Ends \ {c})
<1>1. \E c \in Ends : CountEvent(s, e) = Count(s, c)
  <2>1. CASE e.type = "CONFLICT_ABORTED"
    <3>1. CountEvent(s, e) = Count(s, "aborted")
      BY <2>1 DEF CountEvent
    <3>. QED
      BY <3>1 DEF Ends
  <2>2. CASE e.type = "CONFLICT_RESOLVED" /\ e.resolution \in Resolutions
    <3>1. CountEvent(s, e) = CountResolved(s, e.resolution)
      BY <2>2 DEF CountEvent
    <3>2. e.resolution \in {"AUTO_RESOLVED_HEAT_DROPPED", "USER_ARBITRATED"} \cup Negotiated
      BY <2>2, ResolutionsAreKnown
    <3>. QED
      BY <3>1, <3>2 DEF CountResolved, Negotiated, Ends
  <2>. QED
    BY <2>1, <2>2
<1>2. PICK c \in Ends : CountEvent(s, e) = Count(s, c)
  BY <1>1
<1>3. c \in Counters /\ Ends \cup {"conflicts_opened"} \subseteq Counters /\ c # "conflicts_opened"
  BY DEF Ends, Counters
<1>. QED
  BY <1>2, <1>3, CounterFacts DEF Same

-----------------------------------------------------------------------------
(* The account and the log                                                 *)

Balanced(s, n) ==
  s.session["conflicts_opened"] =
      s.session["auto_resolved_heat_dropped"] + s.session["negotiated_resolved"]
      + s.session["user_arbitrated"] + s.session["aborted"] + n

LogInv ==
  /\ DOMAIN log = {"live", "spare"}
  /\ \E S : log.live \in Seq(S)
  /\ IsFiniteSet(opened) /\ ended \subseteq opened
  /\ log.spare = <<>> => Shape(Stats) /\ Balanced(Stats, Cardinality(opened \ ended))

LEMMA WriteFacts ==
  ASSUME LogInv, NEW e, Write(e)
  PROVE  /\ DOMAIN log' = {"live", "spare"}
         /\ \E S : log'.live \in Seq(S)
         /\ log'.spare = <<>> => log.spare = <<>> /\ Stats' = CountEvent(Stats, e)
<1>1. PICK S : log.live \in Seq(S)
  BY DEF LogInv
<1>2. CASE Len(log.live) >= MaxLines
  <2>1. log' = [live |-> <<e>>, spare |-> log.live]
    BY <1>2 DEF Write, AppendEvent
  <2>2. <<e>> \in Seq({e})
    OBVIOUS
  <2>3. log.live # <<>>
    <3>1. Len(<<>>) = 0
      OBVIOUS
    <3>. QED
      BY <1>2, <3>1, StatisticsAssumption
  <2>. QED
    BY <2>1, <2>2, <2>3
<1>3. CASE ~(Len(log.live) >= MaxLines)
  <2>1. log' = [log EXCEPT !.live = Append(@, e)]
    BY <1>3 DEF Write, AppendEvent
  <2>2. log'.live = Append(log.live, e) /\ log'.spare = log.spare /\ DOMAIN log' = {"live", "spare"}
    BY <2>1 DEF LogInv
  <2>3. log.live \in Seq(S \cup {e})
    <3>1. log.live \in [1 .. Len(log.live) -> S] /\ Len(log.live) \in Nat
      BY <1>1, LenProperties
    <3>2. log.live \in [1 .. Len(log.live) -> S \cup {e}]
      BY <3>1
    <3>. QED
      BY <3>1, <3>2, SeqDef
  <2>4. Append(log.live, e) \in Seq(S \cup {e})
    BY <2>3, AppendProperties
  <2>5. summarize(Append(log.live, e)) = CountEvent(summarize(log.live), e)
    BY <1>1, OneMoreEvent
  <2>. QED
    BY <2>2, <2>4, <2>5 DEF Stats
<1>. QED
  BY <1>2, <1>3

LEMMA OpenOnes ==
  ASSUME LogInv, NEW i
  PROVE  /\ Cardinality(opened \ ended) \in Nat
         /\ i \notin opened => /\ IsFiniteSet(opened \cup {i})
                               /\ Cardinality((opened \cup {i}) \ ended) = Cardinality(opened \ ended) + 1
         /\ i \in opened \ ended
              => Cardinality(opened \ (ended \cup {i})) = Cardinality(opened \ ended) - 1
<1>1. IsFiniteSet(opened) /\ IsFiniteSet(opened \ ended) /\ ended \subseteq opened
  BY FS_Subset DEF LogInv
<1>2. ASSUME i \notin opened
      PROVE  /\ IsFiniteSet(opened \cup {i})
             /\ Cardinality((opened \cup {i}) \ ended) = Cardinality(opened \ ended) + 1
  <2>1. (opened \cup {i}) \ ended = (opened \ ended) \cup {i} /\ i \notin opened \ ended
    BY <1>1, <1>2
  <2>. QED
    BY <1>1, <2>1, FS_AddElement
<1>3. ASSUME i \in opened \ ended
      PROVE  Cardinality(opened \ (ended \cup {i})) = Cardinality(opened \ ended) - 1
  <2>1. opened \ (ended \cup {i}) = (opened \ ended) \ {i}
    OBVIOUS
  <2>. QED
    BY <1>1, <1>3, <2>1, FS_RemoveElement
<1>. QED
  BY <1>1, <1>2, <1>3, FS_CardinalityType

\* How an event moves the account.
LEMMA BalanceFacts ==
  ASSUME NEW s, Shape(s), NEW n \in Nat, Balanced(s, n), NEW e
  PROVE  /\ e.type \notin {"CONFLICT_OPENED", "CONFLICT_RESOLVED", "CONFLICT_ABORTED"}
              => Shape(CountEvent(s, e)) /\ Balanced(CountEvent(s, e), n)
         /\ e.type = "CONFLICT_OPENED"
              => Shape(CountEvent(s, e)) /\ Balanced(CountEvent(s, e), n + 1)
         /\ (e.type = "CONFLICT_ABORTED" \/ (e.type = "CONFLICT_RESOLVED" /\ e.resolution \in Resolutions))
              => Shape(CountEvent(s, e)) /\ Balanced(CountEvent(s, e), n - 1)
<1> DEFINE t == CountEvent(s, e)
<1>1. \A c \in Account : s.session[c] \in Nat
  BY DEF Shape, Account, Ends, Counters
<1>2. ASSUME e.type \notin {"CONFLICT_OPENED", "CONFLICT_RESOLVED", "CONFLICT_ABORTED"}
      PROVE  Shape(t) /\ Balanced(t, n)
  <2>1. Shape(t) /\ Same(s, t, Account)
    BY <1>2, OtherEvents
  <2>. QED
    BY <2>1 DEF Balanced, Same, Account, Ends
<1>3. ASSUME e.type = "CONFLICT_OPENED" PROVE Shape(t) /\ Balanced(t, n + 1)
  <2>1. /\ Shape(t) /\ Same(s, t, Ends)
        /\ t.session["conflicts_opened"] = s.session["conflicts_opened"] + 1
    BY <1>3, OpenedEvents
  <2>. HIDE DEF t
  <2>. QED
    BY <1>1, <2>1 DEF Balanced, Same, Account, Ends
<1>4. ASSUME e.type = "CONFLICT_ABORTED" \/ (e.type = "CONFLICT_RESOLVED" /\ e.resolution \in Resolutions)
      PROVE  Shape(t) /\ Balanced(t, n - 1)
  <2>1. /\ Shape(t) /\ Same(s, t, {"conflicts_opened"})
        /\ \E c \in Ends : t.session[c] = s.session[c] + 1 /\ Same(s, t, Ends \ {c})
    BY <1>4, EndEvents
  <2>. HIDE DEF t
  <2>2. PICK c \in Ends : t.session[c] = s.session[c] + 1 /\ Same(s, t, Ends \ {c})
    BY <2>1
  <2>3. t.session["conflicts_opened"] = s.session["conflicts_opened"]
    BY <2>1 DEF Same
  <2>4. \A d \in Ends : t.session[d] = IF d = c THEN s.session[d] + 1 ELSE s.session[d]
    BY <2>2 DEF Same
  <2>5. c \in {"auto_resolved_heat_dropped", "negotiated_resolved", "user_arbitrated", "aborted"}
    BY <2>2 DEF Ends
  <2>6. /\ s.session["auto_resolved_heat_dropped"] \in Nat /\ s.session["negotiated_resolved"] \in Nat
        /\ s.session["user_arbitrated"] \in Nat /\ s.session["aborted"] \in Nat
    BY <1>1 DEF Account, Ends
  <2>7. t.session["auto_resolved_heat_dropped"] + t.session["negotiated_resolved"]
          + t.session["user_arbitrated"] + t.session["aborted"]
        = s.session["auto_resolved_heat_dropped"] + s.session["negotiated_resolved"]
          + s.session["user_arbitrated"] + s.session["aborted"] + 1
    BY <2>4, <2>5, <2>6 DEF Ends
  <2>8. PICK u : /\ u = s.session["auto_resolved_heat_dropped"] + s.session["negotiated_resolved"]
                        + s.session["user_arbitrated"] + s.session["aborted"]
                  /\ u \in Nat
    BY <2>6
  <2>9. s.session["conflicts_opened"] = u + n
    BY <2>8 DEF Balanced
  <2>10. u + n = (u + 1) + (n - 1)
    BY <2>8
  <2>. QED
    BY <2>1, <2>3, <2>7, <2>8, <2>9, <2>10 DEF Balanced
<1>. QED
  BY <1>2, <1>3, <1>4

\* One step of the log.
LEMMA LogStep ==
  ASSUME LogInv, RecapNext
  PROVE  LogInv'
<1> DEFINE N == Cardinality(opened \ ended)
           Kept(e) == e.type \notin {"CONFLICT_OPENED", "CONFLICT_RESOLVED", "CONFLICT_ABORTED"}
<1>1. ASSUME NEW e, Write(e), Kept(e), UNCHANGED <<opened, ended>> PROVE LogInv'
  <2>1. /\ DOMAIN log' = {"live", "spare"} /\ \E S : log'.live \in Seq(S)
        /\ log'.spare = <<>> => log.spare = <<>> /\ Stats' = CountEvent(Stats, e)
    BY <1>1, WriteFacts
  <2>2. N \in Nat
    BY OpenOnes
  <2>3. log'.spare = <<>> => Shape(Stats') /\ Balanced(Stats', N)
    <3> SUFFICES ASSUME log'.spare = <<>> PROVE Shape(Stats') /\ Balanced(Stats', N)
      OBVIOUS
    <3>1. Shape(Stats) /\ Balanced(Stats, N) /\ Stats' = CountEvent(Stats, e)
      BY <2>1 DEF LogInv
    <3>. QED
      BY <1>1, <2>2, <3>1, BalanceFacts
  <2>. QED
    BY <1>1, <2>1, <2>3 DEF LogInv, Shape, Balanced
<1>2. ASSUME NEW i \in ConflictIds, OpenConflict(i) PROVE LogInv'
  <2>1. PICK e : Write(e) /\ e.type = "CONFLICT_OPENED"
    BY <1>2 DEF OpenConflict
  <2>2. /\ DOMAIN log' = {"live", "spare"} /\ \E S : log'.live \in Seq(S)
        /\ log'.spare = <<>> => log.spare = <<>> /\ Stats' = CountEvent(Stats, e)
    BY <2>1, WriteFacts
  <2>3. /\ N \in Nat /\ opened' = opened \cup {i} /\ ended' = ended
        /\ IsFiniteSet(opened') /\ Cardinality(opened' \ ended') = N + 1
    BY <1>2, OpenOnes DEF OpenConflict
  <2>4. log'.spare = <<>> => Shape(Stats') /\ Balanced(Stats', N + 1)
    <3> SUFFICES ASSUME log'.spare = <<>> PROVE Shape(Stats') /\ Balanced(Stats', N + 1)
      OBVIOUS
    <3>1. Shape(Stats) /\ Balanced(Stats, N) /\ Stats' = CountEvent(Stats, e)
      BY <2>2 DEF LogInv
    <3>. QED
      BY <2>1, <2>3, <3>1, BalanceFacts
  <2>5. ended' \subseteq opened'
    BY <2>3 DEF LogInv
  <2>. QED
    BY <2>2, <2>3, <2>4, <2>5 DEF LogInv, Shape, Balanced
<1>3. ASSUME NEW i \in ConflictIds, EndConflict(i) PROVE LogInv'
  <2>1. PICK e : /\ Write(e)
                 /\ e.type = "CONFLICT_ABORTED" \/ (e.type = "CONFLICT_RESOLVED" /\ e.resolution \in Resolutions)
    <3>1. CASE Write([type |-> "CONFLICT_ABORTED", ts |-> Now, id |-> i])
      BY <3>1
    <3>2. CASE \E r \in Resolutions :
                 Write([type |-> "CONFLICT_RESOLVED", ts |-> Now, id |-> i, resolution |-> r])
      <4>1. PICK r \in Resolutions :
                 Write([type |-> "CONFLICT_RESOLVED", ts |-> Now, id |-> i, resolution |-> r])
        BY <3>2
      <4>. QED
        BY <4>1
    <3>. QED
      BY <1>3, <3>1, <3>2 DEF EndConflict
  <2>2. /\ DOMAIN log' = {"live", "spare"} /\ \E S : log'.live \in Seq(S)
        /\ log'.spare = <<>> => log.spare = <<>> /\ Stats' = CountEvent(Stats, e)
    BY <2>1, WriteFacts
  <2>3. /\ N \in Nat /\ opened' = opened /\ ended' = ended \cup {i} /\ i \in opened
        /\ Cardinality(opened' \ ended') = N - 1
    BY <1>3, OpenOnes DEF EndConflict
  <2>4. log'.spare = <<>> => Shape(Stats') /\ Balanced(Stats', N - 1)
    <3> SUFFICES ASSUME log'.spare = <<>> PROVE Shape(Stats') /\ Balanced(Stats', N - 1)
      OBVIOUS
    <3>1. Shape(Stats) /\ Balanced(Stats, N) /\ Stats' = CountEvent(Stats, e)
      BY <2>2 DEF LogInv
    <3>. QED
      BY <2>1, <2>3, <3>1, BalanceFacts
  <2>5. ended' \subseteq opened' /\ IsFiniteSet(opened')
    BY <2>3 DEF LogInv
  <2>. QED
    BY <2>2, <2>3, <2>4, <2>5 DEF LogInv, Shape, Balanced
<1>4. ASSUME NEW i \in ConflictIds, DiscussConflict(i) PROVE LogInv'
  <2>1. \E e : Write(e) /\ Kept(e)
    BY <1>4 DEF DiscussConflict
  <2>. QED
    BY <1>1, <1>4, <2>1 DEF DiscussConflict
<1>5. ASSUME NEW a \in Agents, NEW c \in LogClaims, Work(a, c) PROVE LogInv'
  <2>1. \E e : Write(e) /\ Kept(e)
    BY <1>5 DEF Work
  <2>. QED
    BY <1>1, <1>5, <2>1 DEF Work
<1>6. ASSUME NEW a \in Agents, NEW b \in Agents, NEW h \in Heats, UpdateHeat(a, b, h) PROVE LogInv'
  <2>1. \E e : Write(e) /\ Kept(e)
    BY <1>6 DEF UpdateHeat
  <2>. QED
    BY <1>1, <1>6, <2>1 DEF UpdateHeat
<1>. QED
  BY <1>2, <1>3, <1>4, <1>5, <1>6 DEF RecapNext

\* Every conflict that was opened is counted as open, or once as ended in one of
\* four ways, whatever else is logged: for any number of agents, conflicts and
\* events, until the log is rotated.
THEOREM StatisticsAddUp == RecapInit /\ [][RecapNext]_recapVars => []EveryEndIsCounted
<1>1. RecapInit => LogInv
  <2> SUFFICES ASSUME RecapInit PROVE LogInv
    OBVIOUS
  <2>1. log = [live |-> <<>>, spare |-> <<>>] /\ opened = {} /\ ended = {}
    BY DEF RecapInit
  <2>2. Stats = NoStats
    BY <2>1, NoEvents DEF Stats
  <2>3. Shape(NoStats) /\ Balanced(NoStats, 0)
    BY DEF Shape, Balanced, NoStats, Counters
  <2>4. IsFiniteSet({}) /\ Cardinality({} \ {}) = 0
    BY FS_EmptySet
  <2>5. <<>> \in Seq({})
    OBVIOUS
  <2>. QED
    BY <2>1, <2>2, <2>3, <2>4, <2>5 DEF LogInv
<1>2. LogInv /\ [RecapNext]_recapVars => LogInv'
  <2>1. ASSUME LogInv, UNCHANGED recapVars PROVE LogInv'
    BY <2>1 DEF LogInv, recapVars, Stats
  <2>. QED
    BY <2>1, LogStep
<1>3. LogInv => EveryEndIsCounted
  BY DEF LogInv, EveryEndIsCounted, Balanced
<1>. QED
  BY <1>1, <1>2, <1>3, PTL

-----------------------------------------------------------------------------
(* Streaks                                                                 *)

\* The ends after the last bad one.
LastRow(ends, good) == {k \in ends : \A j \in ends : j >= k => j \in good}

GoodRows(ends, good) == {{}} \cup (Rows(ends) \cap SUBSET good)

\* r is what a run keeps of the positions `ends', of which some are good.
RunIs(r, ends, good) ==
  /\ r.cur \in Nat /\ r.max \in Nat /\ r.cur <= r.max
  /\ r.cur = Cardinality(LastRow(ends, good))
  /\ \E S \in GoodRows(ends, good) : r.max = Cardinality(S)
  /\ \A S \in GoodRows(ends, good) : Cardinality(S) <= r.max

\* The rows that end before the newest position are those there were.
LEMMA OlderRows ==
  ASSUME NEW l \in Nat, NEW ends \in SUBSET (1 .. l), NEW good \in SUBSET ends,
         NEW more \in SUBSET {l + 1}
  PROVE  /\ GoodRows(ends, good) \subseteq GoodRows(ends \cup {l + 1}, good \cup more)
         /\ \A S \in GoodRows(ends \cup {l + 1}, good \cup more) :
              S \in GoodRows(ends, good) \/ (l + 1 \in S /\ S \subseteq LastRow(ends \cup {l + 1}, good \cup more))
<1> DEFINE new   == ends \cup {l + 1}
           kept == good \cup more
<1>1. \A k \in ends : k \in Int /\ k < l + 1
  OBVIOUS
<1>2. ASSUME NEW S \in Rows(ends), S \subseteq good PROVE S \in Rows(new)
  <2>1. PICK i \in ends, j \in ends : S = {k \in ends : i <= k /\ k <= j}
    BY <1>2 DEF Rows
  <2>2. S = {k \in new : i <= k /\ k <= j}
    BY <1>1, <2>1
  <2>. QED
    BY <2>1, <2>2 DEF Rows
<1>3. ASSUME NEW S \in Rows(new), S \subseteq kept
      PROVE  S \in GoodRows(ends, good) \/ (l + 1 \in S /\ S \subseteq LastRow(new, kept))
  <2>1. PICK i \in new, j \in new : S = {k \in new : i <= k /\ k <= j}
    BY <1>3 DEF Rows
  <2>2. CASE j = l + 1
    <3>1. i <= l + 1 /\ l + 1 \in S
      BY <1>1, <2>1, <2>2
    <3>2. ASSUME NEW k \in S, NEW h \in new, h >= k PROVE h \in kept
      <4>1. k \in Int /\ h \in Int /\ i \in Int /\ i <= k /\ h <= l + 1
        BY <1>1, <2>1
      <4>2. h \in S
        BY <2>1, <2>2, <3>2, <4>1
      <4>. QED
        BY <1>3, <4>2
    <3>. QED
      BY <2>1, <3>1, <3>2 DEF LastRow
  <2>3. CASE j # l + 1 /\ i = l + 1
    <3>1. j \in ends /\ i = l + 1
      BY <2>1, <2>3
    <3>2. ASSUME NEW k \in S PROVE FALSE
      <4>1. k \in Int /\ j \in Int /\ j < l + 1 /\ l + 1 <= k /\ k <= j
        BY <1>1, <2>1, <3>1, <3>2
      <4>. QED
        BY <4>1
    <3>. QED
      BY <3>2 DEF GoodRows
  <2>4. CASE i \in ends /\ j \in ends
    <3>1. S = {k \in ends : i <= k /\ k <= j}
      BY <1>1, <2>1, <2>4
    <3>2. S \subseteq good
      <4>1. \A k \in S : k \in kept /\ k # l + 1
        BY <1>1, <1>3, <3>1
      <4>. QED
        BY <4>1
    <3>. QED
      BY <2>4, <3>1, <3>2 DEF GoodRows, Rows
  <2>. QED
    BY <2>2, <2>3, <2>4
<1>. QED
  BY <1>2, <1>3 DEF GoodRows

\* A hit makes the row that ends here longer by one.
LEMMA HitGoesOn ==
  ASSUME NEW l \in Nat, NEW ends \in SUBSET (1 .. l), NEW good \in SUBSET ends,
         NEW r, RunIs(r, ends, good)
  PROVE  RunIs(RunOn(r, "hit"), ends \cup {l + 1}, good \cup {l + 1})
<1> DEFINE new   == ends \cup {l + 1}
           kept == good \cup {l + 1}
           T     == LastRow(ends, good)
           U     == LastRow(new, kept)
           s     == RunOn(r, "hit")
<1>1. \A k \in ends : k \in Int /\ k < l + 1
  OBVIOUS
<1>2. U = T \cup {l + 1} /\ l + 1 \notin T /\ T \subseteq ends
  BY <1>1 DEF LastRow
<1>3. IsFiniteSet(ends) /\ IsFiniteSet(T) /\ IsFiniteSet(U)
  <2>1. IsFiniteSet(1 .. l)
    BY FS_Interval
  <2>2. IsFiniteSet(ends)
    BY <2>1, FS_Subset
  <2>3. IsFiniteSet(T)
    BY <1>2, <2>2, FS_Subset
  <2>4. IsFiniteSet(T \cup {l + 1})
    BY <2>3, FS_AddElement
  <2>. QED
    BY <1>2, <2>2, <2>3, <2>4
<1>4. Cardinality(U) = r.cur + 1 /\ r.cur \in Nat /\ r.max \in Nat
  <2>1. Cardinality(T \cup {l + 1}) = Cardinality(T) + 1
    BY <1>2, <1>3, FS_AddElement
  <2>. QED
    BY <1>2, <2>1 DEF RunIs
<1>5. s.cur = r.cur + 1 /\ s.max = IF r.cur + 1 > r.max THEN r.cur + 1 ELSE r.max
  BY DEF RunOn
<1>6. U \in GoodRows(new, kept)
  <2>0. U \subseteq new /\ \A k \in new : k \in Nat /\ k <= l + 1
    BY <1>1 DEF LastRow
  <2>1. U # {} /\ U \in SUBSET Nat
    BY <1>2, <2>0
  <2>2. PICK i \in U : \A k \in U : i <= k
    BY <2>1, LeastElement
  <2>3. U \subseteq kept
    <3> SUFFICES ASSUME NEW k \in U PROVE k \in kept
      OBVIOUS
    <3>1. k \in new /\ k \in Nat
      BY <2>0
    <3>2. k >= k
      BY <3>1
    <3>. QED
      BY <3>1, <3>2 DEF LastRow
  <2>4. ASSUME NEW k \in new, i <= k PROVE k \in U
    <3>1. ASSUME NEW j \in new, j >= k PROVE j \in kept
      <4>1. i \in Nat /\ j \in Nat /\ k \in Nat
        BY <2>0, <2>2, <2>4, <3>1, Zenon
      <4>2. j >= i
        BY <2>4, <3>1, <4>1
      <4>. QED
        BY <2>2, <3>1, <4>2 DEF LastRow
    <3>. QED
      BY <2>4, <3>1 DEF LastRow
  <2>5. U = {k \in new : i <= k /\ k <= l + 1}
    BY <2>0, <2>2, <2>4
  <2>6. i \in new /\ l + 1 \in new
    BY <2>0, <2>2
  <2>. QED
    BY <2>3, <2>5, <2>6 DEF GoodRows, Rows
<1>7. ASSUME NEW S \in GoodRows(new, kept) PROVE Cardinality(S) <= s.max
  <2>1. CASE S \in GoodRows(ends, good)
    <3>1. Cardinality(S) <= r.max
      BY <2>1 DEF RunIs
    <3>2. Cardinality(S) \in Nat
      <4>1. S \subseteq ends
        BY <2>1 DEF GoodRows, Rows
      <4>. QED
        BY <1>3, <4>1, FS_Subset, FS_CardinalityType
    <3>. QED
      BY <1>4, <1>5, <3>1, <3>2
  <2>2. CASE S \subseteq U
    <3>1. Cardinality(S) <= Cardinality(U) /\ Cardinality(S) \in Nat
      BY <1>3, <2>2, FS_Subset, FS_CardinalityType
    <3>. QED
      BY <1>4, <1>5, <3>1
  <2>3. S \in GoodRows(ends, good) \/ S \subseteq U
    BY OlderRows
  <2>. QED
    BY <2>1, <2>2, <2>3
<1>8. \E S \in GoodRows(new, kept) : s.max = Cardinality(S)
  <2>1. CASE r.cur + 1 > r.max
    BY <1>4, <1>5, <1>6, <2>1
  <2>2. CASE ~(r.cur + 1 > r.max)
    <3>1. PICK S \in GoodRows(ends, good) : r.max = Cardinality(S)
      BY DEF RunIs
    <3>2. S \in GoodRows(new, kept)
      BY OlderRows
    <3>. QED
      BY <1>5, <2>2, <3>1, <3>2
  <2>. QED
    BY <2>1, <2>2
<1>9. s.cur \in Nat /\ s.max \in Nat /\ s.cur <= s.max
  BY <1>4, <1>5
<1>. QED
  BY <1>4, <1>5, <1>7, <1>8, <1>9 DEF RunIs

\* A miss ends the row, and what is no end changes nothing.
LEMMA MissBreaksOff ==
  ASSUME NEW l \in Nat, NEW ends \in SUBSET (1 .. l), NEW good \in SUBSET ends,
         NEW r, RunIs(r, ends, good)
  PROVE  RunIs(RunOn(r, "miss"), ends \cup {l + 1}, good)
<1> DEFINE new == ends \cup {l + 1}
<1>1. \A k \in ends : k \in Int /\ k < l + 1
  OBVIOUS
<1>2. LastRow(new, good) = {}
  <2>1. l + 1 \in new /\ l + 1 \notin good /\ \A k \in new : l + 1 >= k
    BY <1>1
  <2>. QED
    BY <2>1 DEF LastRow
<1>3. Cardinality(LastRow(new, good)) = 0
  BY <1>2, FS_EmptySet
<1>4. RunOn(r, "miss").cur = 0 /\ RunOn(r, "miss").max = IF 0 > r.max THEN 0 ELSE r.max
  BY DEF RunOn
<1>5. r.max \in Nat
  BY DEF RunIs
<1>6. RunOn(r, "miss").max = r.max
  BY <1>4, <1>5
<1>7. GoodRows(new, good) = GoodRows(ends, good)
  <2>1. good \cup {} = good
    OBVIOUS
  <2>2. /\ GoodRows(ends, good) \subseteq GoodRows(new, good)
        /\ \A S \in GoodRows(new, good) : S \in GoodRows(ends, good) \/ (l + 1 \in S /\ S \subseteq LastRow(new, good))
    BY <2>1, OlderRows
  <2>. QED
    BY <1>2, <2>2
<1>. QED
  BY <1>3, <1>4, <1>5, <1>6, <1>7, SMTT(30) DEF RunIs

LEMMA NoFlagKeeps ==
  ASSUME NEW r, NEW ends, NEW good, RunIs(r, ends, good)
  PROVE  RunIs(RunOn(r, "none"), ends, good)
<1>1. r.cur \in Nat /\ r.max \in Nat /\ r.cur <= r.max
  BY DEF RunIs
<1>2. RunOn(r, "none").cur = r.cur /\ RunOn(r, "none").max = IF r.cur > r.max THEN r.cur ELSE r.max
  BY DEF RunOn
<1>3. RunOn(r, "none").max = r.max
  BY <1>1, <1>2
<1>. QED
  BY <1>2, <1>3 DEF RunIs

LEMMA RunIsLongest ==
  ASSUME NEW r, NEW ends, NEW good, RunIs(r, ends, good),
         \A S \in GoodRows(ends, good) : Cardinality(S) \in Nat
  PROVE  r.max = LongestRow(ends, good)
<1> DEFINE C == {Cardinality(S) : S \in GoodRows(ends, good)}
<1>1. r.max \in C /\ \A n \in C : r.max >= n
  BY DEF RunIs
<1>2. \A n \in C : n \in Nat
  OBVIOUS
<1>3. LongestRow(ends, good) = Max(C)
  BY DEF LongestRow, GoodRows
<1>. HIDE DEF C
<1>4. Max(C) \in C /\ \A n \in C : Max(C) >= n
  BY <1>1 DEF Max
<1>. QED
  BY <1>1, <1>2, <1>3, <1>4

\* Flags of a longer log.
LEMMA FlagsGrow ==
  ASSUME NEW S, NEW es \in Seq(S), NEW e,
         NEW f, DOMAIN f = DOMAIN es, f = [n \in DOMAIN f |-> f[n]],
         NEW g, DOMAIN g = DOMAIN Append(es, e), g = [n \in DOMAIN g |-> g[n]],
         \A n \in DOMAIN es : f[n] = g[n]
  PROVE  Result("run", g) = RunOn(Result("run", f), g[Len(es) + 1])
<1> DEFINE l == Len(es)
           T == {f[n] : n \in DOMAIN es}
<1>1. /\ l \in Nat /\ DOMAIN es = 1 .. l
      /\ DOMAIN Append(es, e) = 1 .. l + 1
  BY AppendProperties, LenProperties
<1>2. f \in [1 .. l -> T]
  BY <1>1
<1>3. f \in Seq(T) /\ Len(f) = l
  <2>1. f \in Seq(T)
    BY <1>1, <1>2, SeqDef
  <2>2. DOMAIN f = 1 .. Len(f) /\ Len(f) \in Nat
    BY <2>1, LenProperties
  <2>. QED
    BY <1>1, <1>2, <2>1, <2>2
<1>4. Append(f, g[l + 1]) = g
  <2>. HIDE DEF T, l
  <2> DEFINE h == Append(f, g[l + 1])
  <2>1. /\ h \in Seq(T \cup {g[l + 1]}) /\ Len(h) = l + 1
        /\ \A i \in 1 .. l : h[i] = f[i]
        /\ h[l + 1] = g[l + 1]
    <3>1. f \in Seq(T \cup {g[l + 1]})
      <4>1. f \in [1 .. l -> T \cup {g[l + 1]}]
        BY <1>2
      <4>. QED
        BY <1>1, <4>1, SeqDef
    <3>. QED
      BY <1>1, <1>3, <3>1, AppendProperties
  <2>2. h = [n \in 1 .. l + 1 |-> h[n]]
    BY <2>1, LenProperties
  <2>3. g = [n \in 1 .. l + 1 |-> g[n]]
    BY <1>1
  <2>4. \A n \in 1 .. l + 1 : h[n] = g[n]
    <3> SUFFICES ASSUME NEW n \in 1 .. l + 1 PROVE h[n] = g[n]
      OBVIOUS
    <3>1. n \in 1 .. l \/ n = l + 1
      BY <1>1
    <3>. QED
      BY <1>1, <2>1, <3>1
  <2>. HIDE DEF h
  <2>5. h = g
    BY <2>2, <2>3, <2>4
  <2>. QED
    BY <2>5 DEF h
<1>. QED
  BY <1>3, <1>4, OneMoreEvent

OutcomeFlags(es)   == [n \in DOMAIN es |-> OutcomeFlag(es[n])]
ReleaseFlags(es)   == [n \in DOMAIN es |-> ReleaseFlag(es[n])]
OfTypes(es, types) == {n \in DOMAIN es : es[n].type \in types}
Completed(es)      == {n \in OfTypes(es, {"CLAIM_RELEASED"}) : es[n].reason = "TASK_COMPLETED"}

StreakInv(es) ==
  /\ RunIs(Result("run", OutcomeFlags(es)), OfTypes(es, Outcomes), OfTypes(es, {"CONFLICT_RESOLVED"}))
  /\ RunIs(Result("run", ReleaseFlags(es)), OfTypes(es, {"CLAIM_RELEASED"}), Completed(es))

LEMMA StreakStep ==
  ASSUME NEW S, NEW es \in Seq(S), NEW e, StreakInv(es)
  PROVE  StreakInv(Append(es, e))
<1> DEFINE l  == Len(es)
           fs == Append(es, e)
<1>1. /\ l \in Nat /\ DOMAIN es = 1 .. l /\ DOMAIN fs = 1 .. l + 1
      /\ \A i \in 1 .. l : fs[i] = es[i]
      /\ fs[l + 1] = e
      /\ 1 .. l + 1 = (1 .. l) \cup {l + 1} /\ l + 1 \notin 1 .. l
  BY AppendProperties, LenProperties
<1>. HIDE DEF l, fs
<1>2. Result("run", OutcomeFlags(fs)) = RunOn(Result("run", OutcomeFlags(es)), OutcomeFlag(e))
  <2>1. \A n \in DOMAIN es : OutcomeFlags(es)[n] = OutcomeFlags(fs)[n]
    BY <1>1 DEF OutcomeFlags
  <2>2. OutcomeFlags(fs)[l + 1] = OutcomeFlag(e)
    BY <1>1 DEF OutcomeFlags
  <2>3. /\ DOMAIN OutcomeFlags(es) = DOMAIN es /\ DOMAIN OutcomeFlags(fs) = DOMAIN fs
        /\ OutcomeFlags(es) = [n \in DOMAIN OutcomeFlags(es) |-> OutcomeFlags(es)[n]]
        /\ OutcomeFlags(fs) = [n \in DOMAIN OutcomeFlags(fs) |-> OutcomeFlags(fs)[n]]
    BY DEF OutcomeFlags
  <2>. QED
    BY <2>1, <2>2, <2>3, FlagsGrow DEF l, fs
<1>3. Result("run", ReleaseFlags(fs)) = RunOn(Result("run", ReleaseFlags(es)), ReleaseFlag(e))
  <2>1. \A n \in DOMAIN es : ReleaseFlags(es)[n] = ReleaseFlags(fs)[n]
    BY <1>1 DEF ReleaseFlags
  <2>2. ReleaseFlags(fs)[l + 1] = ReleaseFlag(e)
    BY <1>1 DEF ReleaseFlags
  <2>3. /\ DOMAIN ReleaseFlags(es) = DOMAIN es /\ DOMAIN ReleaseFlags(fs) = DOMAIN fs
        /\ ReleaseFlags(es) = [n \in DOMAIN ReleaseFlags(es) |-> ReleaseFlags(es)[n]]
        /\ ReleaseFlags(fs) = [n \in DOMAIN ReleaseFlags(fs) |-> ReleaseFlags(fs)[n]]
    BY DEF ReleaseFlags
  <2>. QED
    BY <2>1, <2>2, <2>3, FlagsGrow DEF l, fs
<1>4. \A types : OfTypes(fs, types) = OfTypes(es, types) \cup (IF e.type \in types THEN {l + 1} ELSE {})
  BY <1>1 DEF OfTypes
<1>5. Completed(fs) = Completed(es) \cup
        (IF e.type = "CLAIM_RELEASED" /\ e.reason = "TASK_COMPLETED" THEN {l + 1} ELSE {})
  <2>1. /\ OfTypes(es, {"CLAIM_RELEASED"}) \subseteq 1 .. l
        /\ OfTypes(fs, {"CLAIM_RELEASED"}) =
             OfTypes(es, {"CLAIM_RELEASED"}) \cup (IF e.type = "CLAIM_RELEASED" THEN {l + 1} ELSE {})
    BY <1>1, <1>4 DEF OfTypes
  <2>. QED
    BY <1>1, <2>1 DEF Completed
<1>6. RunIs(Result("run", OutcomeFlags(fs)), OfTypes(fs, Outcomes), OfTypes(fs, {"CONFLICT_RESOLVED"}))
  <2> DEFINE r    == Result("run", OutcomeFlags(es))
             ends == OfTypes(es, Outcomes)
             good == OfTypes(es, {"CONFLICT_RESOLVED"})
  <2>1. RunIs(r, ends, good) /\ ends \in SUBSET (1 .. l) /\ good \in SUBSET ends
    BY <1>1 DEF StreakInv, OfTypes, Outcomes
  <2>2. CASE e.type \notin Outcomes
    <3>1. OutcomeFlag(e) = "none" /\ OfTypes(fs, Outcomes) = ends /\ OfTypes(fs, {"CONFLICT_RESOLVED"}) = good
      BY <1>4, <2>2 DEF OutcomeFlag, Outcomes
    <3>. QED
      BY <1>2, <2>1, <3>1, NoFlagKeeps
  <2>3. CASE e.type = "CONFLICT_RESOLVED"
    <3>1. /\ OutcomeFlag(e) = "hit" /\ OfTypes(fs, Outcomes) = ends \cup {l + 1}
          /\ OfTypes(fs, {"CONFLICT_RESOLVED"}) = good \cup {l + 1}
      BY <1>4, <2>3 DEF OutcomeFlag, Outcomes
    <3>. HIDE DEF ends, good, r
    <3>2. RunIs(RunOn(r, "hit"), ends \cup {l + 1}, good \cup {l + 1})
      BY <1>1, <2>1, HitGoesOn
    <3>. QED
      BY <1>2, <3>1, <3>2 DEF r
  <2>4. CASE e.type \in Outcomes \ {"CONFLICT_RESOLVED"}
    <3>1. /\ OutcomeFlag(e) = "miss" /\ OfTypes(fs, Outcomes) = ends \cup {l + 1}
          /\ OfTypes(fs, {"CONFLICT_RESOLVED"}) = good
      BY <1>4, <2>4 DEF OutcomeFlag
    <3>. HIDE DEF ends, good, r
    <3>2. RunIs(RunOn(r, "miss"), ends \cup {l + 1}, good)
      BY <1>1, <2>1, MissBreaksOff
    <3>. QED
      BY <1>2, <3>1, <3>2 DEF r
  <2>. QED
    BY <2>2, <2>3, <2>4
<1>7. RunIs(Result("run", ReleaseFlags(fs)), OfTypes(fs, {"CLAIM_RELEASED"}), Completed(fs))
  <2> DEFINE r    == Result("run", ReleaseFlags(es))
             ends == OfTypes(es, {"CLAIM_RELEASED"})
             good == Completed(es)
  <2>1. RunIs(r, ends, good) /\ ends \in SUBSET (1 .. l) /\ good \in SUBSET ends
    BY <1>1 DEF StreakInv, OfTypes, Completed
  <2>2. CASE e.type # "CLAIM_RELEASED"
    <3>1. ReleaseFlag(e) = "none" /\ OfTypes(fs, {"CLAIM_RELEASED"}) = ends /\ Completed(fs) = good
      BY <1>4, <1>5, <2>2 DEF ReleaseFlag
    <3>. QED
      BY <1>3, <2>1, <3>1, NoFlagKeeps
  <2>3. CASE e.type = "CLAIM_RELEASED" /\ e.reason = "TASK_COMPLETED"
    <3>1. /\ ReleaseFlag(e) = "hit" /\ OfTypes(fs, {"CLAIM_RELEASED"}) = ends \cup {l + 1}
          /\ Completed(fs) = good \cup {l + 1}
      BY <1>4, <1>5, <2>3 DEF ReleaseFlag
    <3>. HIDE DEF ends, good, r
    <3>2. RunIs(RunOn(r, "hit"), ends \cup {l + 1}, good \cup {l + 1})
      BY <1>1, <2>1, HitGoesOn
    <3>. QED
      BY <1>3, <3>1, <3>2 DEF r
  <2>4. CASE e.type = "CLAIM_RELEASED" /\ e.reason # "TASK_COMPLETED"
    <3>1. /\ ReleaseFlag(e) = "miss" /\ OfTypes(fs, {"CLAIM_RELEASED"}) = ends \cup {l + 1}
          /\ Completed(fs) = good
      BY <1>4, <1>5, <2>4 DEF ReleaseFlag
    <3>. HIDE DEF ends, good, r
    <3>2. RunIs(RunOn(r, "miss"), ends \cup {l + 1}, good)
      BY <1>1, <2>1, MissBreaksOff
    <3>. QED
      BY <1>3, <3>1, <3>2 DEF r
  <2>. QED
    BY <2>2, <2>3, <2>4
<1>. QED
  BY <1>6, <1>7 DEF StreakInv, fs

LEMMA StreakStart == StreakInv(<<>>)
<1>1. DOMAIN <<>> = {}
  OBVIOUS
<1>2. OutcomeFlags(<<>>) = <<>> /\ ReleaseFlags(<<>>) = <<>>
  BY <1>1 DEF OutcomeFlags, ReleaseFlags
<1>3. (\A types : OfTypes(<<>>, types) = {}) /\ Completed(<<>>) = {}
  BY <1>1 DEF OfTypes, Completed
<1>4. LastRow({}, {}) = {} /\ GoodRows({}, {}) = {{}}
  BY DEF LastRow, GoodRows, Rows
<1>5. RunIs(NoRun, {}, {})
  <2>1. Cardinality({}) = 0
    BY FS_EmptySet
  <2>2. NoRun.cur = 0 /\ NoRun.max = 0
    BY DEF NoRun
  <2>3. Cardinality(LastRow({}, {})) = 0
    BY <1>4, <2>1
  <2>4. \A S \in GoodRows({}, {}) : Cardinality(S) = 0
    BY <1>4, <2>1
  <2>5. \E S \in GoodRows({}, {}) : 0 = Cardinality(S)
    BY <1>4, <2>1
  <2>. QED
    BY <2>2, <2>3, <2>4, <2>5 DEF RunIs
<1>. QED
  BY <1>2, <1>3, <1>5, NoEvents DEF StreakInv

LEMMA StreaksHold ==
  ASSUME NEW S, NEW es \in Seq(S), StreakInv(es)
  PROVE  StreaksAreRuns(es)
<1>1. DOMAIN es = 1 .. Len(es) /\ Len(es) \in Nat
  BY LenProperties
<1>2. ASSUME NEW ends \in SUBSET DOMAIN es, NEW good
      PROVE  \A R \in GoodRows(ends, good) : Cardinality(R) \in Nat
  <2>1. ASSUME NEW R \in GoodRows(ends, good) PROVE R \subseteq 1 .. Len(es)
    BY <1>1 DEF GoodRows, Rows
  <2>2. IsFiniteSet(1 .. Len(es))
    BY <1>1, FS_Interval
  <2>. QED
    BY <2>1, <2>2, FS_Subset, FS_CardinalityType
<1>3. auto_resolve_streak(es) = LongestRow(OfTypes(es, Outcomes), OfTypes(es, {"CONFLICT_RESOLVED"}))
  <2>1. auto_resolve_streak(es) = Result("run", OutcomeFlags(es)).max
    BY Passes DEF auto_resolve_streak, OutcomeFlags
  <2>2. OfTypes(es, Outcomes) \in SUBSET DOMAIN es
    BY DEF OfTypes
  <2>. QED
    BY <1>2, <2>1, <2>2, RunIsLongest DEF StreakInv
<1>4. completion_streak(es) = LongestRow(OfTypes(es, {"CLAIM_RELEASED"}), Completed(es))
  <2>1. completion_streak(es) = Result("run", ReleaseFlags(es)).max
    BY Passes DEF completion_streak, ReleaseFlags
  <2>2. OfTypes(es, {"CLAIM_RELEASED"}) \in SUBSET DOMAIN es
    BY DEF OfTypes
  <2>. QED
    BY <1>2, <2>1, <2>2, RunIsLongest DEF StreakInv
<1>. QED
  BY <1>3, <1>4 DEF StreaksAreRuns, OfTypes, Completed

-----------------------------------------------------------------------------
(* The biggest spike                                                       *)

\* Where the heat of the pair p was written.
Updates(es, p) == {k \in DOMAIN es : es[k].type = "HEAT_UPDATED" /\ ToSet(es[k].pair) = p}

HeatsLogged(es) ==
  \A k \in DOMAIN es :
    es[k].type = "HEAT_UPDATED" => es[k].heat \in Nat /\ ToSet(es[k].pair) \in SUBSET Agents

\* last_heat has of every pair what its last update said.
LastHeats(es, heats) ==
  \A p \in SUBSET Agents :
    IF Updates(es, p) = {} THEN heats[p] = Unset
    ELSE \E k \in Updates(es, p) : (\A j \in Updates(es, p) : j <= k) /\ heats[p] = es[k].heat

Marked(m) ==
  /\ {"heats", "spike"} \subseteq DOMAIN m
  /\ m.heats \in [SUBSET Agents -> Int]

SpikeInv(es) ==
  /\ HeatsLogged(es)
  /\ Marked(Marks(es)) /\ LastHeats(es, Marks(es).heats)
  /\ SpikeIsTheBiggestRise(es)

\* An event of another kind leaves heats and spike alone.
LEMMA OtherMarks ==
  ASSUME NEW m, Marked(m), NEW e, e.type # "HEAT_UPDATED"
  PROVE  /\ Marked(MarkEvent(m, e))
         /\ MarkEvent(m, e).heats = m.heats /\ MarkEvent(m, e).spike = m.spike
<1> DEFINE Fine(q) == Marked(q) /\ q.heats = m.heats /\ q.spike = m.spike
<1> SUFFICES Fine(MarkEvent(m, e))
  OBVIOUS
<1>1. Fine(m)
  OBVIOUS
<1>2. ASSUME NEW q, Fine(q), NEW files PROVE Fine(MarkUses(q, files))
  BY <1>2 DEF MarkUses, Marked
<1>3. /\ \A x : Fine([m EXCEPT !.touched[e.agent] = x]) /\ Fine([m EXCEPT !.openedAt[e.id] = x])
      /\ \A x : Fine([m EXCEPT !.diplomacy[e.agent] = x]) /\ Fine([m EXCEPT !.createdAt[e.claim] = x])
      /\ \A x : Fine([m EXCEPT !.lasted[e.agent] = x])
      /\ \A x, y : Fine([m EXCEPT !.openedAt[e.id] = x, !.longest = y])
  BY DEF Marked
<1>. HIDE DEF Fine
<1>4. CASE e.type = "FILE_TOUCHED"
  <2>1. MarkEvent(m, e) = MarkUses([m EXCEPT !.touched[e.agent] = @ \cup e.files], e.files)
    BY <1>4 DEF MarkEvent
  <2>2. Fine([m EXCEPT !.touched[e.agent] = @ \cup e.files])
    BY <1>3, Zenon
  <2>3. Fine(MarkUses([m EXCEPT !.touched[e.agent] = @ \cup e.files], e.files))
    BY <1>2, <2>2, Zenon
  <2>. QED
    BY <2>1, <2>3, Zenon
<1>5. CASE e.type = "CONFLICT_OPENED"
  <2>1. MarkEvent(m, e) = MarkUses([m EXCEPT !.openedAt[e.id] = e.ts], e.files)
    BY <1>5 DEF MarkEvent
  <2>2. Fine([m EXCEPT !.openedAt[e.id] = e.ts])
    BY <1>3, Zenon
  <2>3. Fine(MarkUses([m EXCEPT !.openedAt[e.id] = e.ts], e.files))
    BY <1>2, <2>2, Zenon
  <2>. QED
    BY <2>1, <2>3, Zenon
<1>6. CASE e.type \in {"CONFLICT_RESOLVED", "CONFLICT_ESCALATED"}
  <2>1. MarkEvent(m, e) = MarkDecided(m, e)
    BY <1>6 DEF MarkEvent
  <2>2. MarkDecided(m, e) = m \/ \E x, y : MarkDecided(m, e) = [m EXCEPT !.openedAt[e.id] = x, !.longest = y]
    BY DEF MarkDecided
  <2>3. Fine(MarkDecided(m, e))
    <3>1. CASE MarkDecided(m, e) = m
      BY <1>1, <3>1, Zenon
    <3>2. CASE MarkDecided(m, e) # m
      <4>1. PICK x, y : MarkDecided(m, e) = [m EXCEPT !.openedAt[e.id] = x, !.longest = y]
        BY <2>2, <3>2, Zenon
      <4>2. Fine([m EXCEPT !.openedAt[e.id] = x, !.longest = y])
        BY <1>3, Zenon
      <4>. QED
        BY <4>1, <4>2, Zenon
    <3>. QED
      BY <3>1, <3>2
  <2>. QED
    BY <2>1, <2>3, Zenon
<1>7. CASE e.type = "CONFLICT_PROPOSAL_RECEIVED"
  <2>1. MarkEvent(m, e) = m \/ MarkEvent(m, e) = [m EXCEPT !.diplomacy[e.agent] = @ + 1]
    BY <1>7 DEF MarkEvent
  <2>. QED
    BY <1>1, <1>3, <2>1
<1>8. CASE e.type = "CLAIM_CREATED"
  <2>1. MarkEvent(m, e) = [m EXCEPT !.createdAt[e.claim] = e.ts]
    BY <1>8 DEF MarkEvent
  <2>. QED
    BY <1>3, <2>1
<1>9. CASE e.type = "CLAIM_RELEASED"
  <2>1. MarkEvent(m, e) = MarkReleased(m, e)
    BY <1>9 DEF MarkEvent
  <2>2. MarkReleased(m, e) = m \/ \E x : MarkReleased(m, e) = [m EXCEPT !.lasted[e.agent] = x]
    BY DEF MarkReleased
  <2>3. Fine(MarkReleased(m, e))
    BY <1>1, <1>3, <2>2, Zenon
  <2>. QED
    BY <2>1, <2>3, Zenon
<1>10. CASE e.type \notin {"FILE_TOUCHED", "CONFLICT_OPENED", "CONFLICT_RESOLVED", "CONFLICT_ESCALATED",
                          "CONFLICT_PROPOSAL_RECEIVED", "CLAIM_CREATED", "CLAIM_RELEASED"}
  <2>1. MarkEvent(m, e) = m
    BY <1>10 DEF MarkEvent
  <2>. QED
    BY <1>1, <2>1
<1>. QED
  BY <1>4, <1>5, <1>6, <1>7, <1>8, <1>9, <1>10

\* What a further event adds to updates and to rises.
LEMMA LongerLog ==
  ASSUME NEW S, NEW es \in Seq(S), NEW e
  PROVE  LET l  == Len(es)
             fs == Append(es, e)
         IN  /\ l \in Nat /\ DOMAIN es = 1 .. l /\ DOMAIN fs = 1 .. l + 1
             /\ \A i \in 1 .. l : fs[i] = es[i]
             /\ fs[l + 1] = e
             /\ 1 .. l + 1 = (1 .. l) \cup {l + 1} /\ l + 1 \notin 1 .. l
             /\ \A p : Updates(fs, p) = Updates(es, p) \cup
                         (IF e.type = "HEAT_UPDATED" /\ ToSet(e.pair) = p THEN {l + 1} ELSE {})
             /\ \A m, n \in 1 .. l : Consecutive(fs, m, n) <=> Consecutive(es, m, n)
             /\ \A m \in 1 .. l : RiseOf(fs, <<m, m>>) = RiseOf(es, <<m, m>>)
<1> DEFINE l  == Len(es)
           fs == Append(es, e)
<1>1. /\ l \in Nat /\ DOMAIN es = 1 .. l /\ DOMAIN fs = 1 .. l + 1
      /\ \A i \in 1 .. l : fs[i] = es[i]
      /\ fs[l + 1] = e
      /\ 1 .. l + 1 = (1 .. l) \cup {l + 1} /\ l + 1 \notin 1 .. l
  BY AppendProperties, LenProperties
<1>. HIDE DEF l, fs
<1>2. \A p : Updates(fs, p) = Updates(es, p) \cup
               (IF e.type = "HEAT_UPDATED" /\ ToSet(e.pair) = p THEN {l + 1} ELSE {})
  BY <1>1 DEF Updates
<1>3. ASSUME NEW m \in 1 .. l, NEW n \in 1 .. l PROVE Consecutive(fs, m, n) <=> Consecutive(es, m, n)
  <2>1. \A k \in m + 1 .. n - 1 : k \in 1 .. l
    BY <1>1
  <2>2. fs[m] = es[m] /\ fs[n] = es[n] /\ \A k \in m + 1 .. n - 1 : fs[k] = es[k]
    BY <1>1, <2>1
  <2>. QED
    BY <2>2 DEF Consecutive
<1>4. \A m \in 1 .. l : RiseOf(fs, <<m, m>>) = RiseOf(es, <<m, m>>)
  BY <1>1 DEF RiseOf
<1>. QED
  BY <1>1, <1>2, <1>3, <1>4 DEF l, fs

\* The rises there were, and the rise that a higher heat makes.
LEMMA MoreRises ==
  ASSUME NEW S, NEW es \in Seq(S), NEW e, NEW heats, LastHeats(es, heats),
         e.type = "HEAT_UPDATED" => ToSet(e.pair) \in SUBSET Agents
  PROVE  LET l  == Len(es)
             fs == Append(es, e)
             p  == ToSet(e.pair)
             up == e.type = "HEAT_UPDATED" /\ Updates(es, p) # {} /\ e.heat > heats[p]
         IN  \/ ~up /\ Rises(fs) = Rises(es)
             \/ up /\ \E k \in Updates(es, p) :
                        es[k].heat = heats[p] /\ Rises(fs) = Rises(es) \cup {<<k, l + 1>>}
<1> DEFINE l  == Len(es)
           fs == Append(es, e)
           p  == ToSet(e.pair)
           up == e.type = "HEAT_UPDATED" /\ Updates(es, p) # {} /\ e.heat > heats[p]
           Rising(xs, m, n) == Consecutive(xs, m, n) /\ xs[n].heat > xs[m].heat
<1>1. /\ l \in Nat /\ DOMAIN es = 1 .. l /\ DOMAIN fs = 1 .. l + 1
      /\ \A i \in 1 .. l : fs[i] = es[i]
      /\ fs[l + 1] = e
      /\ 1 .. l + 1 = (1 .. l) \cup {l + 1} /\ l + 1 \notin 1 .. l
      /\ \A m, n \in 1 .. l : Consecutive(fs, m, n) <=> Consecutive(es, m, n)
  BY LongerLog
<1>. HIDE DEF l, fs, p
<1>2. \A m, n \in 1 .. l : Rising(fs, m, n) <=> Rising(es, m, n)
  BY <1>1
<1>3. \A n \in 1 .. l + 1 : ~Consecutive(fs, l + 1, n)
  BY <1>1 DEF Consecutive
<1>4. ASSUME NEW m \in 1 .. l, Consecutive(fs, m, l + 1)
      PROVE  /\ e.type = "HEAT_UPDATED" /\ m \in Updates(es, p)
             /\ \A j \in Updates(es, p) : j <= m
  <2>1. /\ fs[m] = es[m] /\ fs[m].type = "HEAT_UPDATED" /\ fs[l + 1].type = "HEAT_UPDATED"
        /\ ToSet(fs[m].pair) = ToSet(fs[l + 1].pair)
        /\ \A k \in m + 1 .. (l + 1) - 1 :
             fs[k].type = "HEAT_UPDATED" => ToSet(fs[k].pair) # ToSet(fs[m].pair)
    BY <1>1, <1>4 DEF Consecutive
  <2>2. e.type = "HEAT_UPDATED" /\ m \in Updates(es, p)
    BY <1>1, <2>1 DEF Updates, p
  <2>3. ASSUME NEW j \in Updates(es, p), ~(j <= m) PROVE FALSE
    <3>1. j \in 1 .. l /\ es[j].type = "HEAT_UPDATED" /\ ToSet(es[j].pair) = p
      BY <1>1 DEF Updates
    <3>2. j \in m + 1 .. (l + 1) - 1
      BY <1>1, <2>3, <3>1
    <3>. QED
      BY <1>1, <2>1, <3>1, <3>2 DEF p
  <2>. QED
    BY <2>2, <2>3
<1>5. ASSUME NEW m \in Updates(es, p), \A j \in Updates(es, p) : j <= m, e.type = "HEAT_UPDATED"
      PROVE  Consecutive(fs, m, l + 1)
  <2>1. m \in 1 .. l /\ es[m].type = "HEAT_UPDATED" /\ ToSet(es[m].pair) = p
    BY <1>1 DEF Updates
  <2>2. ASSUME NEW k \in m + 1 .. (l + 1) - 1, fs[k].type = "HEAT_UPDATED", ToSet(fs[k].pair) = p
        PROVE  FALSE
    <3>1. k \in 1 .. l /\ k > m
      BY <1>1, <2>1
    <3>2. k \in Updates(es, p)
      BY <1>1, <2>2, <3>1 DEF Updates
    <3>. QED
      BY <1>5, <2>1, <3>1, <3>2
  <2>3. m < l + 1 /\ fs[m] = es[m]
    BY <1>1, <2>1
  <2>. QED
    BY <1>1, <1>5, <2>1, <2>2, <2>3 DEF Consecutive, p
<1>6. \A mn \in (DOMAIN fs) \X (DOMAIN fs) :
        mn \in Rises(fs) <=> mn \in Rises(es) \/ (mn[2] = l + 1 /\ mn[1] \in 1 .. l /\ Rising(fs, mn[1], mn[2]))
  <2> SUFFICES ASSUME NEW m \in 1 .. l + 1, NEW n \in 1 .. l + 1
               PROVE  <<m, n>> \in Rises(fs) <=>
                        <<m, n>> \in Rises(es) \/ (n = l + 1 /\ m \in 1 .. l /\ Rising(fs, m, n))
    BY <1>1
  <2>1. <<m, n>> \in Rises(fs) <=> Rising(fs, m, n)
    BY <1>1 DEF Rises
  <2>2. <<m, n>> \in Rises(es) <=> m \in 1 .. l /\ n \in 1 .. l /\ Rising(es, m, n)
    BY <1>1 DEF Rises
  <2>3. m = l + 1 => ~Rising(fs, m, n)
    BY <1>3
  <2>4. (m \in 1 .. l \/ m = l + 1) /\ (n \in 1 .. l \/ n = l + 1)
    BY <1>1
  <2>. HIDE DEF Rising
  <2>. QED
    BY <1>1, <1>2, <2>1, <2>2, <2>3, <2>4
<1>7. Rises(fs) \subseteq (DOMAIN fs) \X (DOMAIN fs) /\ Rises(es) \subseteq (DOMAIN fs) \X (DOMAIN fs)
  BY <1>1 DEF Rises
<1>8. CASE ~up
  <2>1. ASSUME NEW m \in 1 .. l, Rising(fs, m, l + 1) PROVE FALSE
    <3>1. e.type = "HEAT_UPDATED" /\ m \in Updates(es, p) /\ \A j \in Updates(es, p) : j <= m
      BY <1>4, <2>1
    <3>2. PICK k \in Updates(es, p) : (\A j \in Updates(es, p) : j <= k) /\ heats[p] = es[k].heat
      BY <3>1 DEF LastHeats, p
    <3>3. k = m
      <4>1. k \in 1 .. l /\ k <= m /\ m <= k
        BY <1>1, <3>1, <3>2 DEF Updates
      <4>. QED
        BY <1>1, <4>1
    <3>4. e.heat > heats[p]
      BY <1>1, <2>1, <3>2, <3>3
    <3>. QED
      BY <1>8, <3>1, <3>4
  <2>2. Rises(fs) = Rises(es)
    <3>. HIDE DEF Rising
    <3>. QED
      BY <1>6, <1>7, <2>1
  <2>. QED
    BY <1>8, <2>2 DEF l, fs, p
<1>9. CASE up
  <2>1. PICK k \in Updates(es, p) : (\A j \in Updates(es, p) : j <= k) /\ heats[p] = es[k].heat
    BY <1>9 DEF LastHeats, p
  <2>2. k \in 1 .. l
    BY <1>1 DEF Updates
  <2>3. Rising(fs, k, l + 1)
    BY <1>1, <1>5, <1>9, <2>1, <2>2
  <2>4. ASSUME NEW m \in 1 .. l, Rising(fs, m, l + 1) PROVE m = k
    <3>1. m \in Updates(es, p) /\ \A j \in Updates(es, p) : j <= m
      BY <1>4, <2>4
    <3>2. k <= m /\ m <= k
      BY <2>1, <3>1
    <3>. QED
      BY <1>1, <2>2, <3>2
  <2>5. Rises(fs) = Rises(es) \cup {<<k, l + 1>>}
    <3>. HIDE DEF Rising
    <3>1. <<k, l + 1>> \in (DOMAIN fs) \X (DOMAIN fs) /\ l + 1 \in 1 .. l + 1
      BY <1>1, <2>2
    <3>2. \A mn \in (DOMAIN fs) \X (DOMAIN fs) : mn = <<mn[1], mn[2]>>
      OBVIOUS
    <3>3. \A mn \in (DOMAIN fs) \X (DOMAIN fs) :
            mn[2] = l + 1 /\ mn[1] \in 1 .. l /\ Rising(fs, mn[1], mn[2]) <=> mn = <<k, l + 1>>
      BY <2>2, <2>3, <2>4, <3>2
    <3>. QED
      BY <1>6, <1>7, <3>1, <3>3
  <2>. QED
    BY <1>9, <2>1, <2>5 DEF l, fs, p
<1>. QED
  BY <1>8, <1>9

LEMMA HeatMarks ==
  ASSUME NEW m, Marked(m), NEW e, e.type = "HEAT_UPDATED", e.heat \in Nat,
         ToSet(e.pair) \in SUBSET Agents
  PROVE  LET p == ToSet(e.pair)
             q == MarkEvent(m, e)
         IN  /\ Marked(q) /\ q.heats = [m.heats EXCEPT ![p] = e.heat]
             /\ q.spike = IF m.heats[p] # Unset /\ e.heat - m.heats[p] > m.spike.to - m.spike.from
                            THEN [pair |-> p, from |-> m.heats[p], to |-> e.heat] ELSE m.spike
<1> DEFINE p == ToSet(e.pair)
           q == MarkEvent(m, e)
<1>1. q = MarkHeat(m, e)
  BY DEF MarkEvent
<1>2. q.heats = [m.heats EXCEPT ![p] = e.heat] /\ DOMAIN q = DOMAIN m
  BY <1>1 DEF MarkHeat, Marked
<1>3. q.spike = IF m.heats[p] # Unset /\ Rise([pair |-> p, from |-> m.heats[p], to |-> e.heat]) > Rise(m.spike)
                  THEN [pair |-> p, from |-> m.heats[p], to |-> e.heat] ELSE m.spike
  BY <1>1 DEF MarkHeat, Marked
<1>4. q.heats \in [SUBSET Agents -> Int]
  BY <1>2 DEF Marked
<1>. QED
  BY <1>2, <1>3, <1>4 DEF Marked, Rise

LEMMA LastHeatsGoOn ==
  ASSUME NEW S, NEW es \in Seq(S), NEW e, NEW heats \in [SUBSET Agents -> Int],
         LastHeats(es, heats),
         e.type = "HEAT_UPDATED" => ToSet(e.pair) \in SUBSET Agents
  PROVE  LastHeats(Append(es, e),
                   IF e.type = "HEAT_UPDATED" THEN [heats EXCEPT ![ToSet(e.pair)] = e.heat] ELSE heats)
<1> DEFINE l   == Len(es)
           fs  == Append(es, e)
           now == IF e.type = "HEAT_UPDATED" THEN [heats EXCEPT ![ToSet(e.pair)] = e.heat] ELSE heats
<1>1. /\ l \in Nat /\ DOMAIN es = 1 .. l /\ DOMAIN fs = 1 .. l + 1
      /\ \A i \in 1 .. l : fs[i] = es[i]
      /\ fs[l + 1] = e
      /\ 1 .. l + 1 = (1 .. l) \cup {l + 1} /\ l + 1 \notin 1 .. l
      /\ \A p : Updates(fs, p) = Updates(es, p) \cup
                  (IF e.type = "HEAT_UPDATED" /\ ToSet(e.pair) = p THEN {l + 1} ELSE {})
  BY LongerLog
<1>. HIDE DEF l, fs
<1>2. ASSUME NEW p \in SUBSET Agents
      PROVE  IF Updates(fs, p) = {} THEN now[p] = Unset
             ELSE \E k \in Updates(fs, p) : (\A j \in Updates(fs, p) : j <= k) /\ now[p] = fs[k].heat
  <2>1. \A k \in Updates(es, p) : k \in 1 .. l
    BY <1>1 DEF Updates
  <2>2. CASE e.type = "HEAT_UPDATED" /\ ToSet(e.pair) = p
    <3>1. now[p] = e.heat /\ Updates(fs, p) = Updates(es, p) \cup {l + 1}
      BY <1>1, <2>2
    <3>2. \A j \in Updates(fs, p) : j <= l + 1
      BY <1>1, <2>1, <3>1
    <3>. QED
      BY <1>1, <3>1, <3>2
  <2>3. CASE ~(e.type = "HEAT_UPDATED" /\ ToSet(e.pair) = p)
    <3>1. now[p] = heats[p] /\ Updates(fs, p) = Updates(es, p)
      BY <1>1, <2>3
    <3>. HIDE DEF now
    <3>2. CASE Updates(es, p) = {}
      BY <3>1, <3>2 DEF LastHeats
    <3>3. CASE Updates(es, p) # {}
      <4>1. PICK k \in Updates(es, p) : (\A j \in Updates(es, p) : j <= k) /\ heats[p] = es[k].heat
        BY <3>3 DEF LastHeats
      <4>2. fs[k] = es[k]
        BY <1>1, <2>1, <4>1
      <4>. QED
        BY <3>1, <4>1, <4>2
    <3>. QED
      BY <3>2, <3>3
  <2>. QED
    BY <2>2, <2>3
<1>. QED
  BY <1>2 DEF LastHeats, fs

LEMMA SpikeStep ==
  ASSUME NEW S, NEW es \in Seq(S), SpikeInv(es), NEW e,
         e.type = "HEAT_UPDATED" => e.heat \in Nat /\ ToSet(e.pair) \in SUBSET Agents
  PROVE  SpikeInv(Append(es, e))
<1> DEFINE l  == Len(es)
           fs == Append(es, e)
           m  == Marks(es)
           p  == ToSet(e.pair)
<1>1. /\ l \in Nat /\ DOMAIN es = 1 .. l /\ DOMAIN fs = 1 .. l + 1
      /\ \A i \in 1 .. l : fs[i] = es[i]
      /\ fs[l + 1] = e
      /\ 1 .. l + 1 = (1 .. l) \cup {l + 1} /\ l + 1 \notin 1 .. l
  BY LongerLog
<1>2. Marks(fs) = MarkEvent(m, e)
  BY OneMoreEvent
<1>3. Marked(m) /\ LastHeats(es, m.heats) /\ HeatsLogged(es) /\ SpikeIsTheBiggestRise(es)
  BY DEF SpikeInv
<1> DEFINE rise == IF m.heats[p] # Unset /\ e.heat - m.heats[p] > m.spike.to - m.spike.from
                     THEN [pair |-> p, from |-> m.heats[p], to |-> e.heat] ELSE m.spike
<1>3a. ASSUME e.type = "HEAT_UPDATED"
       PROVE  /\ p \in SUBSET Agents /\ e.heat \in Nat
              /\ Marked(Marks(fs)) /\ Marks(fs).heats = [m.heats EXCEPT ![p] = e.heat]
              /\ Marks(fs).spike = rise
  <2>1. p \in SUBSET Agents /\ e.heat \in Nat
    BY <1>3a
  <2>2. /\ Marked(MarkEvent(m, e)) /\ MarkEvent(m, e).heats = [m.heats EXCEPT ![p] = e.heat]
        /\ MarkEvent(m, e).spike = rise
    BY <1>3, <1>3a, <2>1, HeatMarks, Zenon
  <2>. QED
    BY <1>2, <2>1, <2>2, Zenon
<1>3b. ASSUME e.type # "HEAT_UPDATED"
       PROVE  /\ Marked(Marks(fs)) /\ Marks(fs).heats = m.heats /\ Marks(fs).spike = m.spike
  BY <1>2, <1>3, <1>3b, OtherMarks
<1>4. HeatsLogged(fs)
  <2>. HIDE DEF l, fs
  <2>. QED
    BY <1>1, <1>3 DEF HeatsLogged
<1>5. Marked(Marks(fs)) /\ Marks(fs).heats = IF e.type = "HEAT_UPDATED" THEN [m.heats EXCEPT ![p] = e.heat] ELSE m.heats
  <2>. HIDE DEF m, p, fs, rise
  <2>. QED
    BY <1>3a, <1>3b
<1>6. LastHeats(fs, Marks(fs).heats)
  <2>1. m.heats \in [SUBSET Agents -> Int]
    BY <1>3 DEF Marked
  <2>2. LastHeats(fs, IF e.type = "HEAT_UPDATED" THEN [m.heats EXCEPT ![p] = e.heat] ELSE m.heats)
    BY <1>3, <2>1, LastHeatsGoOn, Zenon
  <2>. QED
    BY <1>5, <2>2, Zenon
<1> DEFINE up == e.type = "HEAT_UPDATED" /\ Updates(es, p) # {} /\ e.heat > m.heats[p]
<1>7. \/ ~up /\ Rises(fs) = Rises(es)
      \/ up /\ \E k \in Updates(es, p) : es[k].heat = m.heats[p] /\ Rises(fs) = Rises(es) \cup {<<k, l + 1>>}
  <2>. HIDE DEF m
  <2>. QED
    BY <1>3, MoreRises
<1>8. ASSUME NEW mn \in Rises(es)
      PROVE  /\ mn[1] \in 1 .. l /\ mn[2] \in 1 .. l
             /\ RiseOf(fs, mn) = RiseOf(es, mn) /\ SpikeOf(fs, mn) = SpikeOf(es, mn)
             /\ RiseOf(es, mn) \in Nat \ {0}
             /\ SpikeOf(es, mn).to - SpikeOf(es, mn).from = RiseOf(es, mn)
  <2>. HIDE DEF l, fs
  <2>1. mn[1] \in 1 .. l /\ mn[2] \in 1 .. l /\ Consecutive(es, mn[1], mn[2]) /\ es[mn[2]].heat > es[mn[1]].heat
    BY <1>1 DEF Rises
  <2>2. es[mn[1]].heat \in Nat /\ es[mn[2]].heat \in Nat
    BY <1>1, <1>3, <2>1 DEF HeatsLogged, Consecutive
  <2>3. fs[mn[1]] = es[mn[1]] /\ fs[mn[2]] = es[mn[2]]
    BY <1>1, <2>1
  <2>. QED
    BY <2>1, <2>2, <2>3 DEF RiseOf, SpikeOf
<1> DEFINE Biggest(xs, mn) ==
             \A kl \in Rises(xs) : \/ RiseOf(xs, kl) < RiseOf(xs, mn)
                                   \/ RiseOf(xs, kl) = RiseOf(xs, mn) /\ kl[2] >= mn[2]
<1>9. \A mn \in Rises(es) : Rises(fs) = Rises(es) => (Biggest(fs, mn) <=> Biggest(es, mn))
  BY <1>8
<1>10. CASE ~up
  <2>1. Rises(fs) = Rises(es)
    BY <1>7, <1>10
  <2>2. Marks(fs).spike = m.spike
    <3>1. CASE e.type # "HEAT_UPDATED"
      BY <1>3b, <3>1
    <3>2. CASE e.type = "HEAT_UPDATED"
      <4>1. Marks(fs).spike = IF m.heats[p] # Unset /\ e.heat - m.heats[p] > m.spike.to - m.spike.from
                            THEN [pair |-> p, from |-> m.heats[p], to |-> e.heat] ELSE m.spike
        BY <1>3a, <3>2
      <4>2. Updates(es, p) = {} => m.heats[p] = Unset
        BY <1>3, <3>2 DEF LastHeats
      <4>3. m.spike.to - m.spike.from \in Nat
        <5>1. CASE Rises(es) = {}
          <6>1. m.spike = NoSpike
            BY <1>3, <5>1 DEF SpikeIsTheBiggestRise
          <6>. QED
            BY <6>1 DEF NoSpike
        <5>2. CASE Rises(es) # {}
          <6>1. PICK mn \in Rises(es) : m.spike = SpikeOf(es, mn)
            BY <1>3, <5>2 DEF SpikeIsTheBiggestRise
          <6>. QED
            BY <1>8, <6>1
        <5>. QED
          BY <5>1, <5>2
      <4>4. m.heats[p] \in Int
        BY <1>3, <3>2 DEF Marked
      <4>5. ~(m.heats[p] # Unset /\ e.heat - m.heats[p] > m.spike.to - m.spike.from)
        <5>1. CASE m.heats[p] = Unset
          BY <5>1
        <5>2. CASE ~(e.heat > m.heats[p])
          <6>. HIDE DEF m, p
          <6>. QED
            BY <3>2, <4>3, <4>4, <5>2
        <5>. QED
          BY <1>10, <3>2, <4>2, <5>1, <5>2
      <4>. QED
        BY <4>1, <4>5
    <3>. QED
      BY <3>1, <3>2
  <2>3. SpikeIsTheBiggestRise(fs)
    <3>1. CASE Rises(es) = {}
      <4>1. m.spike = NoSpike
        BY <1>3, <3>1 DEF SpikeIsTheBiggestRise
      <4>. QED
        BY <2>1, <2>2, <3>1, <4>1 DEF SpikeIsTheBiggestRise
    <3>2. CASE Rises(es) # {}
      <4>1. PICK mn \in Rises(es) : m.spike = SpikeOf(es, mn) /\ Biggest(es, mn)
        BY <1>3, <3>2 DEF SpikeIsTheBiggestRise
      <4>2. mn \in Rises(fs) /\ Marks(fs).spike = SpikeOf(fs, mn) /\ Biggest(fs, mn)
        BY <1>8, <1>9, <2>1, <2>2, <4>1
      <4>. QED
        BY <4>2 DEF SpikeIsTheBiggestRise
    <3>. QED
      BY <3>1, <3>2
  <2>. QED
    BY <1>4, <1>5, <1>6, <2>3 DEF SpikeInv
<1>11. CASE up
  <2>1. PICK k \in Updates(es, p) : es[k].heat = m.heats[p] /\ Rises(fs) = Rises(es) \cup {<<k, l + 1>>}
    BY <1>7, <1>11
  <2> DEFINE new == <<k, l + 1>>
  <2>2. k \in 1 .. l /\ es[k].type = "HEAT_UPDATED" /\ ToSet(es[k].pair) = p /\ es[k].heat \in Nat
    BY <1>1, <1>3 DEF Updates, HeatsLogged
  <2>3. /\ RiseOf(fs, new) = e.heat - m.heats[p]
        /\ SpikeOf(fs, new) = [pair |-> p, from |-> m.heats[p], to |-> e.heat]
    <3>1. fs[k] = es[k] /\ fs[l + 1] = e
      BY <1>1, <2>2
    <3>. HIDE DEF fs, m, p
    <3>. QED
      BY <2>1, <2>2, <3>1 DEF RiseOf, SpikeOf
  <2>4. /\ Marks(fs).spike = IF m.heats[p] # Unset /\ e.heat - m.heats[p] > m.spike.to - m.spike.from
                            THEN [pair |-> p, from |-> m.heats[p], to |-> e.heat] ELSE m.spike
        /\ m.heats[p] \in Nat /\ e.heat \in Nat /\ e.heat > m.heats[p]
    BY <1>11, <1>3a, <2>1, <2>2
  <2>5. m.heats[p] # Unset
    BY <2>4 DEF Unset
  <2> DEFINE r == e.heat - m.heats[p]
  <2>6. r \in Nat \ {0}
    <3>. HIDE DEF m, p
    <3>. QED
      BY <2>4
  <2>7. CASE Rises(es) = {}
    <3>1. m.spike = NoSpike
      BY <1>3, <2>7 DEF SpikeIsTheBiggestRise
    <3>2. m.spike.to - m.spike.from = 0
      BY <3>1 DEF NoSpike
    <3>3. Marks(fs).spike = SpikeOf(fs, new)
      BY <2>3, <2>4, <2>5, <2>6, <3>2
    <3>4. Rises(fs) = {new} /\ l + 1 >= l + 1
      BY <1>1, <2>1, <2>7
    <3>. HIDE DEF new
    <3>5. Biggest(fs, new)
      BY <3>4 DEF new
    <3>6. SpikeIsTheBiggestRise(fs)
      BY <3>3, <3>4, <3>5 DEF SpikeIsTheBiggestRise
    <3>. QED
      BY <1>4, <1>5, <1>6, <3>6 DEF SpikeInv
  <2>8. CASE Rises(es) # {}
    <3>1. PICK mn \in Rises(es) : m.spike = SpikeOf(es, mn) /\ Biggest(es, mn)
      BY <1>3, <2>8 DEF SpikeIsTheBiggestRise
    <3> DEFINE o == RiseOf(es, mn)
    <3>2. o \in Nat \ {0} /\ m.spike.to - m.spike.from = o
      BY <1>8, <3>1
    <3>3. new[2] = l + 1 /\ \A kl \in Rises(es) : kl[2] \in Nat /\ kl[2] <= l
      BY <1>1, <1>8
    <3>4. CASE r > o
      <4>1. Marks(fs).spike = SpikeOf(fs, new)
        BY <2>3, <2>4, <2>5, <3>2, <3>4
      <4>2. ASSUME NEW kl \in Rises(es) PROVE RiseOf(fs, kl) < RiseOf(fs, new)
        <5>1. RiseOf(fs, kl) = RiseOf(es, kl) /\ RiseOf(es, kl) \in Nat /\ RiseOf(es, kl) <= o
          BY <1>8, <3>1, <3>2
        <5>. HIDE DEF o, r, m, p
        <5>. QED
          BY <2>3, <2>6, <3>2, <3>4, <5>1 DEF r
      <4>3. l + 1 >= l + 1
        BY <1>1
      <4>4. Biggest(fs, new)
        <5>. HIDE DEF fs, m, p
        <5>. QED
          BY <2>1, <4>2, <4>3
      <4>5. new \in Rises(fs) /\ Rises(fs) # {}
        BY <2>1
      <4>6. SpikeIsTheBiggestRise(fs)
        <5>. HIDE DEF new
        <5>. QED
          BY <4>1, <4>4, <4>5 DEF SpikeIsTheBiggestRise
      <4>. QED
        BY <1>4, <1>5, <1>6, <4>6 DEF SpikeInv
    <3>5. CASE ~(r > o)
      <4>1. Marks(fs).spike = m.spike
        BY <2>4, <3>2, <3>5
      <4>2. Marks(fs).spike = SpikeOf(fs, mn)
        BY <1>8, <3>1, <4>1
      <4>3. RiseOf(fs, mn) = o /\ RiseOf(fs, new) = r /\ mn[2] <= l /\ mn[2] \in Nat
        BY <1>8, <2>3, <3>1, <3>3
      <4>4. \/ RiseOf(fs, new) < RiseOf(fs, mn)
            \/ RiseOf(fs, new) = RiseOf(fs, mn) /\ new[2] >= mn[2]
        <5>1. r < o \/ r = o
          <6>. HIDE DEF r, o
          <6>. QED
            BY <2>6, <3>2, <3>5
        <5>2. new[2] >= mn[2]
          BY <1>1, <3>3, <4>3
        <5>. QED
          BY <4>3, <5>1, <5>2
      <4>5. ASSUME NEW kl \in Rises(es)
            PROVE  \/ RiseOf(fs, kl) < RiseOf(fs, mn)
                   \/ RiseOf(fs, kl) = RiseOf(fs, mn) /\ kl[2] >= mn[2]
        <5>1. RiseOf(fs, kl) = RiseOf(es, kl) /\ RiseOf(fs, mn) = RiseOf(es, mn)
          BY <1>8, <3>1
        <5>. QED
          BY <3>1, <5>1
      <4>6. Biggest(fs, mn)
        <5>. HIDE DEF new, fs, m, p
        <5>. QED
          BY <2>1, <4>4, <4>5 DEF new
      <4>7. mn \in Rises(fs)
        BY <2>1
      <4>8. SpikeIsTheBiggestRise(fs)
        BY <4>2, <4>6, <4>7 DEF SpikeIsTheBiggestRise
      <4>. QED
        BY <1>4, <1>5, <1>6, <4>8 DEF SpikeInv
    <3>. QED
      BY <3>4, <3>5
  <2>. QED
    BY <2>7, <2>8
<1>. QED
  BY <1>10, <1>11

LEMMA SpikeStart == SpikeInv(<<>>)
<1>1. DOMAIN <<>> = {}
  OBVIOUS
<1>2. Rises(<<>>) = {} /\ \A p : Updates(<<>>, p) = {}
  BY <1>1 DEF Rises, Updates
<1>3. Marks(<<>>) = NoMarks
  BY NoEvents
<1>4. Marked(NoMarks) /\ NoMarks.spike = NoSpike /\ NoMarks.heats = [p \in SUBSET Agents |-> Unset]
  <2>1. Unset \in Int
    BY DEF Unset
  <2>. QED
    BY <2>1 DEF Marked, NoMarks
<1>. QED
  BY <1>1, <1>2, <1>3, <1>4 DEF SpikeInv, HeatsLogged, LastHeats, SpikeIsTheBiggestRise

-----------------------------------------------------------------------------
(* Badges                                                                  *)

\* Some agent took part in heat exactly if there is a peak.
PeakInv(s) ==
  /\ {"session", "seen", "files", "peak", "agents"} \subseteq DOMAIN s
  /\ s.agents \in [Agents -> [TallyFields -> Nat]]
  /\ s.peak.heat \in Nat
  /\ (\E a \in Agents : s.agents[a]["heat_generated_sum"] > 0) <=> s.peak.heat > 0

\* t is s with n more in the field f of those in `who'.
Tallied(t, s, who, f, n) ==
  /\ DOMAIN t = DOMAIN s /\ t.peak = s.peak
  /\ t.agents \in [Agents -> [TallyFields -> Nat]]
  /\ \A a \in Agents : \A g \in TallyFields :
       t.agents[a][g] = IF g = f /\ a \in who THEN s.agents[a][g] + n ELSE s.agents[a][g]

LEMMA TalliesAll ==
  ASSUME NEW s, {"session", "seen", "files", "peak", "agents"} \subseteq DOMAIN s,
         s.agents \in [Agents -> [TallyFields -> Nat]],
         NEW who, NEW f \in TallyFields, NEW n \in Nat
  PROVE  Tallied(Tally(s, who, f, n), s, who, f, n)
<1> DEFINE new == [a \in Agents |-> IF a \in who THEN [s.agents[a] EXCEPT ![f] = @ + n] ELSE s.agents[a]]
           t   == Tally(s, who, f, n)
<1>1. t = [s EXCEPT !.agents = new]
  BY DEF Tally
<1>2. t.agents = new /\ t.peak = s.peak /\ DOMAIN t = DOMAIN s
  <2>. HIDE DEF new, t
  <2>. QED
    BY <1>1
<1>3. ASSUME NEW a \in Agents
      PROVE  /\ new[a] \in [TallyFields -> Nat]
             /\ \A g \in TallyFields :
                  new[a][g] = IF g = f /\ a \in who THEN s.agents[a][g] + n ELSE s.agents[a][g]
  <2> DEFINE old == s.agents[a]
  <2>1. old \in [TallyFields -> Nat]
    OBVIOUS
  <2>2. new[a] = IF a \in who THEN [old EXCEPT ![f] = @ + n] ELSE old
    OBVIOUS
  <2>. HIDE DEF new, old
  <2>3. CASE a \in who
    <3>1. new[a] = [old EXCEPT ![f] = @ + n]
      BY <2>2, <2>3
    <3>2. old[f] + n \in Nat
      BY <2>1
    <3>3. new[a] \in [TallyFields -> Nat]
      BY <2>1, <3>1, <3>2
    <3>. QED
      BY <2>1, <2>3, <3>1, <3>3 DEF old
  <2>4. CASE a \notin who
    BY <2>1, <2>2, <2>4 DEF old
  <2>. QED
    BY <2>3, <2>4
<1>4. new \in [Agents -> [TallyFields -> Nat]]
  <2>1. new = [a \in Agents |-> new[a]]
    OBVIOUS
  <2>. HIDE DEF new
  <2>. QED
    BY <1>3, <2>1
<1>. HIDE DEF new, t
<1>. QED
  BY <1>2, <1>3, <1>4 DEF Tallied, t

\* No event but an update of a heat changes who took part in heat.
LEMMA OtherPeaks ==
  ASSUME NEW s, PeakInv(s), NEW e, e.type # "HEAT_UPDATED"
  PROVE  PeakInv(CountEvent(s, e))
<1>1. ASSUME NEW t, PeakInv(t), NEW c PROVE PeakInv(Count(t, c))
  BY <1>1 DEF PeakInv, Count
<1>2. ASSUME NEW t, PeakInv(t), NEW who, NEW f \in TallyFields \ {"heat_generated_sum"}
      PROVE  PeakInv(Tally(t, who, f, 1))
  <2> DEFINE u == Tally(t, who, f, 1)
  <2>1. Tallied(u, t, who, f, 1)
    <3>1. /\ {"session", "seen", "files", "peak", "agents"} \subseteq DOMAIN t
          /\ t.agents \in [Agents -> [TallyFields -> Nat]]
      BY <1>2 DEF PeakInv
    <3>2. f \in TallyFields /\ 1 \in Nat
      BY <1>2
    <3>. QED
      BY <3>1, <3>2, TalliesAll
  <2>. HIDE DEF u
  <2>2. \A a \in Agents : u.agents[a]["heat_generated_sum"] = t.agents[a]["heat_generated_sum"]
    BY <1>2, <2>1 DEF Tallied, TallyFields
  <2>3. (\E a \in Agents : u.agents[a]["heat_generated_sum"] > 0)
          <=> (\E a \in Agents : t.agents[a]["heat_generated_sum"] > 0)
    BY <2>2
  <2>. QED
    <3>1. PeakInv(u)
      BY <1>2, <2>1, <2>3 DEF PeakInv, Tallied
    <3>. QED
      BY <3>1 DEF u
<1>3. {"claims_made", "tasks_completed", "ghost_claims", "conflicts_involved",
       "arbitrations_involved", "deadlocks_involved"} \subseteq TallyFields \ {"heat_generated_sum"}
  BY DEF TallyFields
<1>4. PeakInv([s EXCEPT !.seen = @ \cup {e.agent}]) /\ PeakInv([s EXCEPT !.files = @ \cup e.files])
  BY DEF PeakInv
<1>5. ASSUME NEW c, NEW who, NEW f \in TallyFields \ {"heat_generated_sum"}
      PROVE  PeakInv(Tally(Count(s, c), who, f, 1))
  BY <1>1, <1>2
<1>6. CASE e.type \in {"AGENT_JOINED", "FILE_TOUCHED"}
  <2>1. CountEvent(s, e) \in {[s EXCEPT !.seen = @ \cup {e.agent}], [s EXCEPT !.files = @ \cup e.files]}
    BY <1>6 DEF CountEvent
  <2>. QED
    BY <1>4, <2>1
<1>7. CASE e.type \in {"CLAIM_REJECTED", "CONFLICT_ESCALATED", "CONFLICT_TIMEOUT", "CONFLICT_ABORTED"}
  <2>1. \E c : CountEvent(s, e) = Count(s, c)
    BY <1>7 DEF CountEvent
  <2>. QED
    BY <1>1, <2>1
<1>8. CASE e.type = "CONFLICT_RESOLVED"
  <2>1. CountEvent(s, e) = CountResolved(s, e.resolution)
    BY <1>8 DEF CountEvent
  <2>2. CountResolved(s, e.resolution) = s \/ \E c : CountResolved(s, e.resolution) = Count(s, c)
    BY DEF CountResolved
  <2>. QED
    BY <1>1, <2>1, <2>2
<1>9. CASE e.type = "CLAIM_ORPHANED"
  <2>1. CountEvent(s, e) = Tally(s, {e.agent}, "ghost_claims", 1)
    BY <1>9 DEF CountEvent
  <2>. QED
    BY <1>2, <1>3, <2>1
<1>10. CASE e.type \in {"CLAIM_CREATED", "CLAIM_RELEASED", "CONFLICT_OPENED",
                        "USER_ARBITRATION_REQUIRED", "DEADLOCK_DETECTED"}
  <2>1. \E c, who, f : /\ f \in TallyFields \ {"heat_generated_sum"}
                       /\ CountEvent(s, e) = Tally(Count(s, c), who, f, 1)
    <3>1. CASE e.type = "CLAIM_CREATED"
      <4>1. CountEvent(s, e) = Tally(Count(s, "claims_created"), {e.agent}, "claims_made", 1)
        BY <3>1 DEF CountEvent
      <4>. QED
        BY <1>3, <4>1
    <3>2. CASE e.type = "CLAIM_RELEASED"
      <4>1. \E who : CountEvent(s, e) = Tally(Count(s, "claims_released"), who, "tasks_completed", 1)
        BY <3>2 DEF CountEvent
      <4>. QED
        BY <1>3, <4>1
    <3>3. CASE e.type = "CONFLICT_OPENED"
      <4>1. CountEvent(s, e) = Tally(Count(s, "conflicts_opened"), ToSet(e.pair), "conflicts_involved", 1)
        BY <3>3 DEF CountEvent
      <4>. QED
        BY <1>3, <4>1
    <3>4. CASE e.type = "USER_ARBITRATION_REQUIRED"
      <4>1. CountEvent(s, e)
              = Tally(Count(s, "arbitrations_requested"), ToSet(e.pair), "arbitrations_involved", 1)
        BY <3>4 DEF CountEvent
      <4>. QED
        BY <1>3, <4>1
    <3>5. CASE e.type = "DEADLOCK_DETECTED"
      <4>1. CountEvent(s, e) = Tally(Count(s, "deadlocks"), ToSet(e.pair), "deadlocks_involved", 1)
        BY <3>5 DEF CountEvent
      <4>. QED
        BY <1>3, <4>1
    <3>. QED
      BY <1>10, <3>1, <3>2, <3>3, <3>4, <3>5
  <2>. QED
    BY <1>5, <2>1
<1>11. CASE e.type \notin {"AGENT_JOINED", "CLAIM_CREATED", "CLAIM_REJECTED", "CONFLICT_ESCALATED",
                           "CONFLICT_TIMEOUT", "CLAIM_RELEASED", "CLAIM_ORPHANED", "FILE_TOUCHED",
                           "CONFLICT_OPENED", "CONFLICT_RESOLVED", "CONFLICT_ABORTED",
                           "USER_ARBITRATION_REQUIRED", "DEADLOCK_DETECTED"}
  <2>1. CountEvent(s, e) = s
    BY <1>11 DEF CountEvent
  <2>. QED
    BY <2>1
<1>. QED
  BY <1>6, <1>7, <1>8, <1>9, <1>10, <1>11

LEMMA HeatPeaks ==
  ASSUME NEW s, PeakInv(s), NEW e, e.type = "HEAT_UPDATED",
         e.heat \in Nat, ToSet(e.pair) \in SUBSET Agents, ToSet(e.pair) # {}
  PROVE  PeakInv(CountEvent(s, e))
<1> DEFINE who == ToSet(e.pair)
           c   == Count(s, "heat_updates")
           u   == Tally(c, who, "heat_generated_sum", e.heat)
           t   == Tally(u, who, "heat_generated_count", 1)
           top == [t EXCEPT !.peak = [heat |-> e.heat, pair |-> e.pair, ts |-> e.ts]]
           sum(x, a) == x.agents[a]["heat_generated_sum"]
<1>1. CountEvent(s, e) = IF e.heat > s.peak.heat THEN top ELSE t
  BY DEF CountEvent, CountHeat
<1>2. {"session", "seen", "files", "peak", "agents"} \subseteq DOMAIN s /\ s.agents \in [Agents -> [TallyFields -> Nat]]
  BY DEF PeakInv
<1>3. DOMAIN c = DOMAIN s /\ c.agents = s.agents /\ c.peak = s.peak
  BY <1>2 DEF Count
<1>4. {"heat_generated_sum", "heat_generated_count"} \subseteq TallyFields
  BY DEF TallyFields
<1>. HIDE DEF c
<1>5a. Tallied(u, c, who, "heat_generated_sum", e.heat)
  <2>1. /\ {"session", "seen", "files", "peak", "agents"} \subseteq DOMAIN c
        /\ c.agents \in [Agents -> [TallyFields -> Nat]]
    BY <1>2, <1>3
  <2>2. "heat_generated_sum" \in TallyFields
    BY <1>4
  <2>. HIDE DEF who
  <2>. QED
    BY <2>1, <2>2, TalliesAll
<1>. HIDE DEF u
<1>5. Tallied(u, s, who, "heat_generated_sum", e.heat)
  BY <1>3, <1>5a DEF Tallied
<1>6. Tallied(t, u, who, "heat_generated_count", 1)
  <2>1. /\ {"session", "seen", "files", "peak", "agents"} \subseteq DOMAIN u
        /\ u.agents \in [Agents -> [TallyFields -> Nat]]
    BY <1>2, <1>5 DEF Tallied
  <2>2. "heat_generated_count" \in TallyFields
    BY <1>4
  <2>. HIDE DEF who
  <2>. QED
    BY <2>1, <2>2, TalliesAll
<1>. HIDE DEF t
<1>7. \A a \in Agents : /\ sum(s, a) \in Nat
                        /\ sum(t, a) = IF a \in who THEN sum(s, a) + e.heat ELSE sum(s, a)
  BY <1>2, <1>4, <1>5, <1>6 DEF Tallied
<1>8. s.peak.heat \in Nat /\ ((\E a \in Agents : sum(s, a) > 0) <=> s.peak.heat > 0)
  BY DEF PeakInv
<1>. HIDE DEF sum
<1>9. CASE e.heat > s.peak.heat
  <2>1. top.agents = t.agents /\ top.peak.heat = e.heat /\ DOMAIN top = DOMAIN s
    BY <1>2, <1>5, <1>6 DEF Tallied
  <2>2. PICK a \in who : TRUE
    OBVIOUS
  <2>3. a \in Agents /\ sum(t, a) > 0
    BY <1>7, <1>8, <1>9, <2>2
  <2>4. e.heat > 0
    BY <1>8, <1>9
  <2>. HIDE DEF top
  <2>. QED
    BY <1>1, <1>2, <1>6, <1>9, <2>1, <2>3, <2>4 DEF PeakInv, Tallied, sum
<1>10. CASE ~(e.heat > s.peak.heat)
  <2>1. (\E a \in Agents : sum(t, a) > 0) <=> s.peak.heat > 0
    <3>1. CASE s.peak.heat > 0
      <4>1. PICK a \in Agents : sum(s, a) > 0
        BY <1>8, <3>1
      <4>2. sum(t, a) > 0
        BY <1>7, <4>1
      <4>. QED
        BY <3>1, <4>2
    <3>2. CASE ~(s.peak.heat > 0)
      <4>1. e.heat = 0
        BY <1>8, <1>10, <3>2
      <4>2. \A a \in Agents : sum(t, a) = sum(s, a)
        BY <1>7, <4>1
      <4>. QED
        BY <1>8, <3>2, <4>2
    <3>. QED
      BY <3>1, <3>2
  <2>. QED
    BY <1>1, <1>2, <1>5, <1>6, <1>8, <1>10, <2>1 DEF PeakInv, Tallied, sum
<1>. QED
  BY <1>9, <1>10

LEMMA PeakStart == PeakInv(NoStats)
BY DEF PeakInv, NoStats, NoPeak, TallyFields

LEMMA FirstFacts ==
  ASSUME NEW T \in SUBSET (Nat \ {0})
  PROVE  /\ FirstOf(T) = NoOne <=> T = {}
         /\ FirstOf(T) # NoOne => FirstOf(T) \in T
<1>1. CASE T = {}
  BY <1>1 DEF FirstOf
<1>2. CASE T # {}
  <2>1. T \in SUBSET Nat
    OBVIOUS
  <2>2. \E x \in T : \A y \in T : x <= y
    BY <1>2, <2>1, LeastElement
  <2>3. Min(T) \in T
    BY <2>2 DEF Min
  <2>. QED
    BY <1>2, <2>3 DEF FirstOf, NoOne
<1>. QED
  BY <1>1, <1>2

\* Some agent has the most, if any has some.
LEMMA SomebodyHasMost ==
  ASSUME NEW f \in [Agents -> Nat]
  PROVE  MostOf(f) = {} <=> \A a \in Agents : f[a] = 0
<1>1. ASSUME NEW a \in Agents, f[a] # 0 PROVE MostOf(f) # {}
  <2> DEFINE T == {f[x] : x \in Agents}
  <2>1. IsFiniteSet(T)
    <3>1. f = [x \in Agents |-> f[x]] /\ IsFiniteSet(Agents)
      BY StatisticsAssumption
    <3>. QED
      BY <3>1, FiniteImage
  <2>2. T \in SUBSET Nat /\ T # {} /\ f[a] \in T
    BY <1>1
  <2>. HIDE DEF T
  <2>3. PICK n \in T : \A m \in T : m <= n
    BY <2>1, <2>2, HasGreatest
  <2>4. PICK x \in Agents : f[x] = n
    BY <2>3 DEF T
  <2>5. \A y \in Agents : f[y] \in T /\ f[y] <= f[x]
    BY <2>3, <2>4 DEF T
  <2>6. f[a] <= f[x] /\ f[a] \in Nat /\ f[x] \in Nat
    BY <1>1, <2>4, <2>5
  <2>7. f[x] > 0
    BY <1>1, <2>6
  <2>. QED
    BY <2>4, <2>5, <2>7 DEF MostOf
<1>2. ASSUME MostOf(f) # {} PROVE \E a \in Agents : f[a] # 0
  BY <1>2 DEF MostOf
<1>. QED
  BY <1>1, <1>2

LEMMA BadgesHold ==
  ASSUME NEW es, PeakInv(summarize(es))
  PROVE  BadgesAgree(es)
<1> DEFINE s == summarize(es)
           m == Marks(es)
           b == Badges(s, m)
           t == s.agents
           generated == [a \in Agents |-> t[a]["heat_generated_sum"]]
           involved  == [a \in Agents |-> t[a]["conflicts_involved"]]
<1>1. Agents \in SUBSET (Nat \ {0}) /\ LogFiles \in SUBSET (Nat \ {0})
  BY StatisticsAssumption
<1>2. \A T \in SUBSET Agents : FirstOf(T) # NoOne => FirstOf(T) \in T
  BY <1>1, FirstFacts
<1>3. /\ b.firestarter = FirstOf(MostOf(generated))
      /\ b.conflict_magnet = FirstOf(MostOf(involved))
      /\ b.hotzone_hero = IF battleground(m) = NoOne THEN NoOne
                          ELSE FirstOf({a \in Agents : battleground(m) \in m.touched[a]})
      /\ b.lone_wolf = FirstOf({a \in Agents : Alone(t[a])})
      /\ b.pacifist = FirstOf({a \in Agents : t[a].conflicts_involved > 0 /\ t[a].arbitrations_involved = 0})
      /\ b.sniper = FirstOf({a \in Agents : t[a].claims_made > 0
                                            /\ t[a].tasks_completed = t[a].claims_made
                                            /\ t[a].ghost_claims = 0})
  BY DEF Badges, badge_max_agent
<1>. HIDE DEF s, m, b
<1>4. b.lone_wolf # NoOne => b.lone_wolf \notin {b.conflict_magnet, b.pacifist}
  <2> SUFFICES ASSUME b.lone_wolf # NoOne, b.lone_wolf \in {b.conflict_magnet, b.pacifist} PROVE FALSE
    OBVIOUS
  <2>1. b.lone_wolf \in Agents /\ t[b.lone_wolf]["conflicts_involved"] = 0
    BY <1>2, <1>3 DEF Alone
  <2>2. CASE b.lone_wolf = b.conflict_magnet
    <3>1. MostOf(involved) \in SUBSET Agents
      BY DEF MostOf
    <3>2. b.lone_wolf \in MostOf(involved)
      BY <1>2, <1>3, <2>2, <3>1
    <3>3. involved[b.lone_wolf] > 0
      BY <3>2 DEF MostOf
    <3>. QED
      BY <2>1, <3>3
  <2>3. CASE b.lone_wolf = b.pacifist
    <3>1. t[b.lone_wolf].conflicts_involved > 0
      BY <1>2, <1>3, <2>3
    <3>. QED
      BY <2>1, <3>1
  <2>. QED
    BY <2>2, <2>3
<1>5. b.sniper # NoOne => t[b.sniper]["ghost_claims"] = 0
  BY <1>2, <1>3
<1>6. b.hotzone_hero # NoOne => battleground(m) \in m.touched[b.hotzone_hero]
  BY <1>2, <1>3
<1>7. (b.firestarter = NoOne) <=> (s.peak.heat = 0)
  <2>1. /\ t \in [Agents -> [TallyFields -> Nat]] /\ s.peak.heat \in Nat
        /\ (\E a \in Agents : t[a]["heat_generated_sum"] > 0) <=> s.peak.heat > 0
    BY DEF PeakInv, s
  <2>2. generated \in [Agents -> Nat]
    <3>1. "heat_generated_sum" \in TallyFields
      BY DEF TallyFields
    <3>. QED
      BY <2>1, <3>1
  <2>3. \A a \in Agents : generated[a] = t[a]["heat_generated_sum"] /\ generated[a] \in Nat
    BY <2>2
  <2>. HIDE DEF generated
  <2>4. MostOf(generated) \in SUBSET (Nat \ {0})
    BY <1>1, <2>2 DEF MostOf
  <2>5. b.firestarter = NoOne <=> \A a \in Agents : generated[a] = 0
    BY <1>3, <2>2, <2>4, FirstFacts, SomebodyHasMost
  <2>. QED
    BY <2>1, <2>3, <2>5
<1>. QED
  BY <1>4, <1>5, <1>6, <1>7 DEF BadgesAgree, s, m, b

-----------------------------------------------------------------------------
(* The recap                                                               *)

RecapInv ==
  /\ DOMAIN log = {"live", "spare"} /\ \E S : log.live \in Seq(S)
  /\ SpikeInv(log.live) /\ StreakInv(log.live) /\ PeakInv(summarize(log.live))

\* An event says nothing of heat, or that of two agents.
HeatIsOfAgents(e) ==
  e.type = "HEAT_UPDATED" =>
    e.heat \in Nat /\ ToSet(e.pair) \in SUBSET Agents /\ ToSet(e.pair) # {}

LEMMA EventsOfAgents == RecapNext => \E e : Write(e) /\ HeatIsOfAgents(e)
<1> SUFFICES ASSUME RecapNext PROVE \E e : Write(e) /\ HeatIsOfAgents(e)
  OBVIOUS
<1>1. ASSUME NEW i \in ConflictIds, OpenConflict(i) \/ EndConflict(i) \/ DiscussConflict(i)
      PROVE  \E e : Write(e) /\ e.type # "HEAT_UPDATED"
  <2>1. CASE OpenConflict(i)
    BY <2>1 DEF OpenConflict
  <2>2. CASE EndConflict(i)
    <3>1. CASE Write([type |-> "CONFLICT_ABORTED", ts |-> Now, id |-> i])
      BY <3>1
    <3>2. ASSUME NEW r, Write([type |-> "CONFLICT_RESOLVED", ts |-> Now, id |-> i, resolution |-> r])
          PROVE  \E e : Write(e) /\ e.type # "HEAT_UPDATED"
      BY <3>2
    <3>. QED
      BY <2>2, <3>1, <3>2 DEF EndConflict
  <2>3. CASE DiscussConflict(i)
    <3>1. ASSUME NEW type \in {"CONFLICT_ESCALATED", "CONFLICT_TIMEOUT"},
                 Write([type |-> type, ts |-> Now, id |-> i])
          PROVE  \E e : Write(e) /\ e.type # "HEAT_UPDATED"
      BY <3>1
    <3>2. ASSUME NEW type \in {"USER_ARBITRATION_REQUIRED", "DEADLOCK_DETECTED"},
                 Write([type |-> type, ts |-> Now, id |-> i, pair |-> <<1, 2>>])
          PROVE  \E e : Write(e) /\ e.type # "HEAT_UPDATED"
      BY <3>2
    <3>3. ASSUME Write([type |-> "CONFLICT_PROPOSAL_RECEIVED", ts |-> Now, id |-> i,
                        agent |-> 2, kind |-> "CO_OWN"])
          PROVE  \E e : Write(e) /\ e.type # "HEAT_UPDATED"
      BY <3>3
    <3>. QED
      BY <2>3, <3>1, <3>2, <3>3 DEF DiscussConflict
  <2>. QED
    BY <1>1, <2>1, <2>2, <2>3
<1>2. ASSUME NEW a \in Agents, NEW c \in LogClaims, Work(a, c)
      PROVE  \E e : Write(e) /\ e.type # "HEAT_UPDATED"
  BY <1>2 DEF Work
<1>3. ASSUME NEW a \in Agents, NEW b \in Agents, NEW h \in Heats, UpdateHeat(a, b, h)
      PROVE  \E e : Write(e) /\ HeatIsOfAgents(e)
  <2> DEFINE e == [type |-> "HEAT_UPDATED", ts |-> Now, pair |-> <<a, b>>, heat |-> h]
  <2>1. Write(e)
    BY <1>3 DEF UpdateHeat
  <2>2. ToSet(<<a, b>>) = {a, b}
    BY DEF ToSet
  <2>3. HeatIsOfAgents(e)
    BY <2>2, RecapAssumption DEF HeatIsOfAgents
  <2>. HIDE DEF e
  <2>. QED
    BY <2>1, <2>3
<1>. QED
  BY <1>1, <1>2, <1>3 DEF RecapNext, HeatIsOfAgents

LEMMA RecapStep ==
  ASSUME RecapInv, RecapNext
  PROVE  RecapInv'
<1>1. PICK e : Write(e) /\ HeatIsOfAgents(e)
  BY EventsOfAgents
<1>2. PICK S : log.live \in Seq(S)
  BY DEF RecapInv
<1>3. ASSUME NEW es \in Seq(S), SpikeInv(es), StreakInv(es), PeakInv(summarize(es))
      PROVE  LET fs == Append(es, e)
             IN  /\ \E T : fs \in Seq(T)
                 /\ SpikeInv(fs) /\ StreakInv(fs) /\ PeakInv(summarize(fs))
  <2> DEFINE fs == Append(es, e)
  <2>1. \E T : fs \in Seq(T)
    <3>1. es \in [1 .. Len(es) -> S] /\ Len(es) \in Nat
      BY LenProperties
    <3>2. es \in [1 .. Len(es) -> S \cup {e}]
      BY <3>1
    <3>3. es \in Seq(S \cup {e})
      BY <3>1, <3>2, SeqDef
    <3>. QED
      BY <3>3, AppendProperties
  <2>2. SpikeInv(fs)
    BY <1>1, <1>3, SpikeStep DEF HeatIsOfAgents
  <2>3. StreakInv(fs)
    BY <1>3, StreakStep
  <2>4. PeakInv(summarize(fs))
    <3>1. summarize(fs) = CountEvent(summarize(es), e)
      BY OneMoreEvent
    <3>2. PeakInv(CountEvent(summarize(es), e))
      <4>1. CASE e.type = "HEAT_UPDATED"
        BY <1>1, <1>3, <4>1, HeatPeaks DEF HeatIsOfAgents
      <4>2. CASE e.type # "HEAT_UPDATED"
        BY <1>3, <4>2, OtherPeaks
      <4>. QED
        BY <4>1, <4>2
    <3>. QED
      BY <3>1, <3>2
  <2>. QED
    BY <2>1, <2>2, <2>3, <2>4
<1>4. CASE Len(log.live) >= MaxLines
  <2>1. log' = [live |-> <<e>>, spare |-> log.live]
    BY <1>1, <1>4 DEF Write, AppendEvent
  <2>2. <<>> \in Seq(S) /\ Append(<<>>, e) = <<e>>
    OBVIOUS
  <2>3. SpikeInv(<<>>) /\ StreakInv(<<>>) /\ PeakInv(summarize(<<>>))
    BY SpikeStart, StreakStart, PeakStart, NoEvents
  <2>4. SpikeInv(<<e>>) /\ StreakInv(<<e>>) /\ PeakInv(summarize(<<e>>)) /\ \E T : <<e>> \in Seq(T)
    BY <1>3, <2>2, <2>3
  <2>. QED
    BY <2>1, <2>4 DEF RecapInv
<1>5. CASE ~(Len(log.live) >= MaxLines)
  <2>1. log' = [log EXCEPT !.live = Append(@, e)]
    BY <1>1, <1>5 DEF Write, AppendEvent
  <2>2. log'.live = Append(log.live, e) /\ DOMAIN log' = {"live", "spare"}
    BY <2>1 DEF RecapInv
  <2>. QED
    BY <1>2, <1>3, <2>2 DEF RecapInv
<1>. QED
  BY <1>4, <1>5

\* The spike, the streaks and the badges of a session are what its log says,
\* for any number of agents, files, conflicts, claims and events and any heats.
THEOREM RecapHolds == RecapInit /\ [][RecapNext]_recapVars => []RecapIsTrue
<1>1. RecapInit => RecapInv
  <2> SUFFICES ASSUME RecapInit PROVE RecapInv
    OBVIOUS
  <2>1. log = [live |-> <<>>, spare |-> <<>>]
    BY DEF RecapInit
  <2>2. <<>> \in Seq({})
    OBVIOUS
  <2>3. SpikeInv(<<>>) /\ StreakInv(<<>>) /\ PeakInv(summarize(<<>>))
    BY SpikeStart, StreakStart, PeakStart, NoEvents
  <2>. QED
    BY <2>1, <2>2, <2>3 DEF RecapInv
<1>2. RecapInv /\ [RecapNext]_recapVars => RecapInv'
  <2>1. ASSUME RecapInv, UNCHANGED recapVars PROVE RecapInv'
    BY <2>1 DEF RecapInv, recapVars
  <2>. QED
    BY <2>1, RecapStep
<1>3. RecapInv => RecapIsTrue
  BY BadgesHold, StreaksHold DEF RecapInv, SpikeInv, RecapIsTrue
<1>. QED
  BY <1>1, <1>2, <1>3, PTL

-----------------------------------------------------------------------------
(* The wait-for graph                                                      *)

WaitsTyped == edges \in Seq(Edges(Agent))

LEMMA WaitsAreTyped == WaitInit /\ [][WaitNext]_edges => []WaitsTyped
<1>1. WaitInit => WaitsTyped
  BY DEF WaitInit, WaitsTyped
<1>2. WaitsTyped /\ [WaitNext]_edges => WaitsTyped'
  <2> SUFFICES ASSUME WaitsTyped, [WaitNext]_edges PROVE WaitsTyped'
    OBVIOUS
  <2>1. ASSUME NEW a \in Agent, Forget(a) PROVE WaitsTyped'
    BY <2>1, RemoveAgentFacts DEF WaitsTyped, Forget
  <2>2. ASSUME NEW a \in Agent, NEW b \in Agent, Wait(a, b) PROVE WaitsTyped'
    BY <2>2, AddEdgeFacts DEF WaitsTyped, Wait
  <2>3. CASE UNCHANGED edges
    BY <2>3 DEF WaitsTyped
  <2>. QED
    BY <2>1, <2>2, <2>3 DEF WaitNext
<1>. QED
  BY <1>1, <1>2, PTL

\* find_cycle finds a cycle exactly when some agents are in a deadlock, however
\* many wait and in whatever order they began to, and what it returns is a cycle
\* of the waits that names no agent twice.
THEOREM DeadlocksAreFound == WaitInit /\ [][WaitNext]_edges => []CycleIffDeadlocked
<1>1. WaitsTyped => CycleIffDeadlocked
  BY SearchSettles, CycleIsDeadlock DEF WaitsTyped, CycleIffDeadlocked, Circle
<1>. QED
  BY <1>1, WaitsAreTyped, PTL
=============================================================================
