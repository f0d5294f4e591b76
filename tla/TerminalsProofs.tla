--------------------------- MODULE TerminalsProofs ---------------------------
(***************************************************************************)
(* What a terminal's end leaves in Core, for every number of terminals,    *)
(* prompts and crashes: the types of Terminals, and that a session which   *)
(* ended in order has released every claim but those it may overlook.      *)
(***************************************************************************)
EXTENDS Terminals, SequenceTheorems, TLAPS

-----------------------------------------------------------------------------
(* The invariant                                                           *)

\* What is on its way between a sidecar and Core, in the order in which the
\* sidecar will hear of it: the answers, then the requests without one.
Underway(t) == told[t] \o asked[t]

IsIn(r, q) == \E i \in DOMAIN q : q[i] = r

\* The requests that t can have made so far.
Sent(t) == {r \in Requests : r.n <= prompts[t]}

\* Every variable that is kept per terminal is a function of the terminals.
Shape ==
  /\ open \in [Terminal -> {"no", "yes", "closed"}]
  /\ sidecar \in [Terminal -> {"none", "boot", "poll", "dial", "queued", "up", "leaving",
                               "gone", "failed"}]
  /\ asked \in [Terminal -> Seq(Requests)]
  /\ told \in [Terminal -> Seq(Requests)]
  /\ prompts \in [Terminal -> 0 .. Prompts]
  /\ live \in [Terminal -> SUBSET (1 .. Prompts)]
  /\ known \in [Terminal -> SUBSET (1 .. Prompts)]
  /\ asking \in [Terminal -> SUBSET (1 .. Prompts)]
  /\ late \in [Terminal -> SUBSET (1 .. Prompts)]

\* What the terminals share; a sidecar has been started by an opened terminal.
Globals ==
  /\ linked \subseteq Terminal
  /\ core \in {"none", "boot", "serve", "ending"} /\ files \in BOOLEAN
  /\ backlog \in Seq(Terminal)
  /\ conn \in Terminal \cup {NoOne} /\ agent \in {conn, NoOne}
  /\ crashes \in 0 .. MaxCrashes
  /\ \A t \in Terminal : open[t] = "no" => sidecar[t] = "none"

\* Whatever is under way, live or known was prompted before.
Bounds(t) ==
  /\ asked[t] \in Seq(Sent(t)) /\ told[t] \in Seq(Sent(t))
  /\ prompts[t] \in 0 .. Prompts
  /\ live[t] \subseteq 1 .. prompts[t]
  /\ late[t] \subseteq 1 .. prompts[t]
  /\ known[t] \subseteq 1 .. prompts[t]
  /\ asking[t] \subseteq known[t]

\* Before it listens to hooks a sidecar has its registration under way, or
\* nothing at all.
Prologue(t) ==
  /\ sidecar[t] \in {"none", "boot", "poll", "dial"} =>
       asked[t] = <<>> /\ told[t] = <<>> /\ prompts[t] = 0
  /\ sidecar[t] = "queued" => t \in linked /\ Underway(t) = <<Register>> /\ prompts[t] = 0

Working(t) == t \in linked /\ sidecar[t] \in {"up", "leaving"}

\* A claim under way has not been heard of, and is under way once.
QueueInv(t) ==
  \A i \in DOMAIN Underway(t) :
    /\ Underway(t)[i] # Register
    /\ Underway(t)[i].kind = "claim" =>
         /\ Underway(t)[i].n \notin known[t]
         /\ \A j \in DOMAIN Underway(t) : j # i => Underway(t)[j] # Underway(t)[i]

\* The sidecar knows of every live claim, or the answer is on its way.
LiveInv(t) == \A n \in live[t] : n \in known[t] \/ IsIn(Claim(n), told[t])

\* A claim that is being released is not live, or its release is before Core.
AskingInv(t) ==
  /\ sidecar[t] = "up" => asking[t] = {}
  /\ \A n \in asking[t] : n \notin live[t] \/ IsIn(Release(n), asked[t])

\* While the session ends, an answer that it must not overlook comes before
\* the answer to a release, or before the first release is asked for.
LeaveInv(t) ==
  sidecar[t] = "leaving" =>
    \A i \in DOMAIN Underway(t) :
      Underway(t)[i].kind = "claim" /\ Underway(t)[i].n \notin late[t] =>
        \/ \E j \in DOMAIN Underway(t) : i < j /\ Underway(t)[j].kind = "release"
        \/ asking[t] = {} /\ known[t] # {}

\* After its end only claims that may be overlooked are live or will be.
GoneInv(t) ==
  t \in linked /\ sidecar[t] = "gone" =>
    /\ live[t] \subseteq late[t]
    /\ \A i \in DOMAIN asked[t] : asked[t][i].kind = "claim" => asked[t][i].n \in late[t]

WorkInv(t) == QueueInv(t) /\ LiveInv(t) /\ AskingInv(t) /\ LeaveInv(t)

TermInv(t) ==
  /\ Bounds(t)
  /\ Prologue(t)
  /\ Working(t) => WorkInv(t)
  /\ GoneInv(t)

Inv == Shape /\ Globals /\ \A t \in Terminal : TermInv(t)

-----------------------------------------------------------------------------
(* Requests and queues                                                     *)

LEMMA RequestFacts ==
  /\ Register \in Requests /\ Register.kind = "register" /\ Register.n = 0
  /\ \A n \in 1 .. Prompts :
       /\ Claim(n) \in Requests /\ Claim(n).kind = "claim" /\ Claim(n).n = n
       /\ Release(n) \in Requests /\ Release(n).kind = "release" /\ Release(n).n = n
  /\ \A r \in Requests :
       /\ r.kind \in {"register", "claim", "release"}
       /\ r.kind = "register" => r = Register
       /\ r.kind = "claim" => r = Claim(r.n) /\ r.n \in 1 .. Prompts
       /\ r.kind = "release" => r = Release(r.n) /\ r.n \in 1 .. Prompts
       /\ r.n \in 0 .. Prompts
BY TerminalsAssumption DEF Requests, Register, Claim, Release

\* The first of the answers is heard: the queue moves up by one.
LEMMA QueueTail ==
  ASSUME NEW S, NEW a \in Seq(S), NEW b \in Seq(S), a # <<>>
  PROVE  /\ Tail(a) \in Seq(S) /\ Head(a) \in S
         /\ 1 \in DOMAIN (a \o b) /\ (a \o b)[1] = Head(a)
         /\ Len(Tail(a) \o b) = Len(a \o b) - 1
         /\ \A i \in DOMAIN (Tail(a) \o b) :
              i \in Nat /\ i + 1 \in DOMAIN (a \o b) /\ (Tail(a) \o b)[i] = (a \o b)[i + 1]
         /\ \A i \in DOMAIN (a \o b) : i # 1 =>
              i - 1 \in DOMAIN (Tail(a) \o b)
<1>1. /\ Tail(a) \in Seq(S) /\ Head(a) \in S /\ Len(Tail(a)) = Len(a) - 1
      /\ Head(a) = a[1] /\ Len(a) \in Nat \ {0} /\ Len(b) \in Nat
      /\ \A i \in 1 .. Len(a) - 1 : Tail(a)[i] = a[i + 1]
  BY HeadTailProperties, LenProperties, EmptySeq
<1>2. /\ a \o b \in Seq(S) /\ Len(a \o b) = Len(a) + Len(b)
      /\ \A i \in 1 .. Len(a) + Len(b) :
           (a \o b)[i] = IF i <= Len(a) THEN a[i] ELSE b[i - Len(a)]
  BY ConcatProperties
<1>3. /\ Tail(a) \o b \in Seq(S) /\ Len(Tail(a) \o b) = Len(Tail(a)) + Len(b)
      /\ \A i \in 1 .. Len(Tail(a)) + Len(b) :
           (Tail(a) \o b)[i] = IF i <= Len(Tail(a)) THEN Tail(a)[i] ELSE b[i - Len(Tail(a))]
  BY <1>1, ConcatProperties
<1>4. DOMAIN (a \o b) = 1 .. Len(a) + Len(b)
      /\ DOMAIN (Tail(a) \o b) = 1 .. Len(a) - 1 + Len(b)
  BY <1>1, <1>2, <1>3, LenProperties
<1>5. ASSUME NEW i \in 1 .. Len(a) - 1 + Len(b)
      PROVE  i + 1 \in 1 .. Len(a) + Len(b) /\ (Tail(a) \o b)[i] = (a \o b)[i + 1]
  <2>1. CASE i <= Len(a) - 1
    BY <1>1, <1>2, <1>3, <2>1
  <2>2. CASE i > Len(a) - 1
    <3>1. (Tail(a) \o b)[i] = b[i - (Len(a) - 1)] /\ (a \o b)[i + 1] = b[i + 1 - Len(a)]
      BY <1>1, <1>2, <1>3, <2>2
    <3>2. i - (Len(a) - 1) = i + 1 - Len(a)
      BY <1>1
    <3>. QED
      BY <1>1, <3>1, <3>2
  <2>. QED
    BY <1>1, <2>1, <2>2
<1>. QED
  BY <1>1, <1>2, <1>3, <1>4, <1>5

\* A request is handled: it goes from the requests to the answers, at the
\* same place of the queue.
LEMMA QueueMove ==
  ASSUME NEW S, NEW a \in Seq(S), NEW b \in Seq(S), b # <<>>
  PROVE  /\ Append(a, Head(b)) \in Seq(S) /\ Tail(b) \in Seq(S) /\ Head(b) \in S
         /\ Append(a, Head(b)) \o Tail(b) = a \o b
         /\ \E i \in DOMAIN (a \o b) : (a \o b)[i] = Head(b)
<1>1. /\ Tail(b) \in Seq(S) /\ Head(b) \in S /\ Len(Tail(b)) = Len(b) - 1
      /\ Head(b) = b[1] /\ Len(b) \in Nat \ {0} /\ Len(a) \in Nat
      /\ \A i \in 1 .. Len(b) - 1 : Tail(b)[i] = b[i + 1]
  BY HeadTailProperties, LenProperties, EmptySeq
<1>2. /\ Append(a, Head(b)) \in Seq(S) /\ Len(Append(a, Head(b))) = Len(a) + 1
      /\ \A i \in 1 .. Len(a) : Append(a, Head(b))[i] = a[i]
      /\ Append(a, Head(b))[Len(a) + 1] = b[1]
  BY <1>1, AppendProperties
<1>3. /\ a \o b \in Seq(S) /\ Len(a \o b) = Len(a) + Len(b)
      /\ \A i \in 1 .. Len(a) + Len(b) :
           (a \o b)[i] = IF i <= Len(a) THEN a[i] ELSE b[i - Len(a)]
  BY ConcatProperties
<1> DEFINE x == Append(a, Head(b))
           y == Tail(b)
<1> HIDE DEF x, y
<1>4. x \in Seq(S) /\ y \in Seq(S) /\ Len(x) = Len(a) + 1 /\ Len(y) = Len(b) - 1
      /\ (\A i \in 1 .. Len(a) : x[i] = a[i]) /\ x[Len(a) + 1] = b[1]
      /\ (\A i \in 1 .. Len(b) - 1 : y[i] = b[i + 1])
  BY <1>1, <1>2 DEF x, y
<1>5. /\ x \o y \in Seq(S) /\ Len(x \o y) = Len(x) + Len(y)
      /\ \A i \in 1 .. Len(x) + Len(y) :
           (x \o y)[i] = IF i <= Len(x) THEN x[i] ELSE y[i - Len(x)]
  BY <1>4, ConcatProperties
<1>6. Len(x \o y) = Len(a \o b) /\ Len(a \o b) = Len(a) + Len(b)
  BY <1>1, <1>3, <1>4, <1>5
<1>7. ASSUME NEW i \in 1 .. Len(a) + Len(b) PROVE (x \o y)[i] = (a \o b)[i]
  <2>1. CASE i <= Len(a)
    BY <1>1, <1>3, <1>4, <1>5, <2>1
  <2>2. CASE i = Len(a) + 1
    BY <1>1, <1>3, <1>4, <1>5, <2>2
  <2>3. CASE i > Len(a) + 1
    <3>1. (x \o y)[i] = y[i - (Len(a) + 1)] /\ i - (Len(a) + 1) \in 1 .. Len(b) - 1
      BY <1>1, <1>4, <1>5, <2>3
    <3>2. y[i - (Len(a) + 1)] = b[i - (Len(a) + 1) + 1]
      BY <1>4, <3>1
    <3>3. i - (Len(a) + 1) + 1 = i - Len(a)
      BY <1>1
    <3>4. (a \o b)[i] = b[i - Len(a)]
      BY <1>1, <1>3, <2>3
    <3>. QED
      BY <3>1, <3>2, <3>3, <3>4
  <2>4. i <= Len(a) \/ i = Len(a) + 1 \/ i > Len(a) + 1
    BY <1>1
  <2>. QED
    BY <2>1, <2>2, <2>3, <2>4, Zenon
<1>8. x \o y = a \o b
  BY <1>3, <1>5, <1>6, <1>7, SeqEqual
<1>9. Len(a) + 1 \in 1 .. Len(a) + Len(b) /\ (a \o b)[Len(a) + 1] = Head(b)
  BY <1>1, <1>3
<1>10. DOMAIN (a \o b) = 1 .. Len(a) + Len(b)
  BY <1>3, LenProperties
<1>. QED
  BY <1>1, <1>2, <1>8, <1>9, <1>10 DEF x, y

\* A request is made: it joins the queue at its end.
LEMMA QueueAppend ==
  ASSUME NEW S, NEW a \in Seq(S), NEW b \in Seq(S), NEW r \in S
  PROVE  /\ Append(b, r) \in Seq(S)
         /\ \A i \in DOMAIN (a \o b) :
              /\ i \in DOMAIN (a \o Append(b, r)) /\ (a \o Append(b, r))[i] = (a \o b)[i]
              /\ i < Len(a \o b) + 1
         /\ Len(a \o b) + 1 \in DOMAIN (a \o Append(b, r))
         /\ (a \o Append(b, r))[Len(a \o b) + 1] = r
         /\ \A i \in DOMAIN (a \o Append(b, r)) :
              i \in DOMAIN (a \o b) \/ i = Len(a \o b) + 1
<1>1. /\ Append(b, r) \in Seq(S) /\ Len(Append(b, r)) = Len(b) + 1
      /\ \A i \in 1 .. Len(b) : Append(b, r)[i] = b[i]
      /\ Append(b, r)[Len(b) + 1] = r
      /\ Len(a) \in Nat /\ Len(b) \in Nat
  BY AppendProperties, LenProperties
<1>2. /\ a \o b \in Seq(S) /\ Len(a \o b) = Len(a) + Len(b)
      /\ \A i \in 1 .. Len(a) + Len(b) :
           (a \o b)[i] = IF i <= Len(a) THEN a[i] ELSE b[i - Len(a)]
  BY ConcatProperties
<1> DEFINE x == Append(b, r)
<1> HIDE DEF x
<1>3. x \in Seq(S) /\ Len(x) = Len(b) + 1 /\ (\A i \in 1 .. Len(b) : x[i] = b[i])
      /\ x[Len(b) + 1] = r
  BY <1>1 DEF x
<1>4. /\ a \o x \in Seq(S) /\ Len(a \o x) = Len(a) + Len(x)
      /\ \A i \in 1 .. Len(a) + Len(x) :
           (a \o x)[i] = IF i <= Len(a) THEN a[i] ELSE x[i - Len(a)]
  BY <1>3, ConcatProperties
<1>5. DOMAIN (a \o b) = 1 .. Len(a) + Len(b) /\ DOMAIN (a \o x) = 1 .. Len(a) + Len(b) + 1
  BY <1>1, <1>2, <1>3, <1>4, LenProperties
<1>6. ASSUME NEW i \in 1 .. Len(a) + Len(b) PROVE (a \o x)[i] = (a \o b)[i]
  <2>1. CASE i <= Len(a)
    BY <1>1, <1>2, <1>3, <1>4, <2>1
  <2>2. CASE i > Len(a)
    BY <1>1, <1>2, <1>3, <1>4, <2>2
  <2>3. i <= Len(a) \/ i > Len(a)
    BY <1>1
  <2>. QED
    BY <2>1, <2>2, <2>3, Zenon
<1>7. (a \o x)[Len(a) + Len(b) + 1] = r
  BY <1>1, <1>3, <1>4
<1>8. \A i \in DOMAIN (a \o b) :
        /\ i \in DOMAIN (a \o x) /\ (a \o x)[i] = (a \o b)[i]
        /\ i < Len(a \o b) + 1
  BY <1>1, <1>2, <1>5, <1>6
<1>9. /\ Len(a \o b) + 1 \in DOMAIN (a \o x)
      /\ (a \o x)[Len(a \o b) + 1] = r
      /\ \A i \in DOMAIN (a \o x) : i \in DOMAIN (a \o b) \/ i = Len(a \o b) + 1
  BY <1>1, <1>2, <1>5, <1>7
<1>10. x \in Seq(S)
  BY <1>3
<1>. QED
  BY <1>8, <1>9, <1>10 DEF x

LEMMA IsInFacts ==
  ASSUME NEW S, NEW q \in Seq(S)
  PROVE  /\ \A x \in S : \A r : IsIn(r, Append(q, x)) <=> IsIn(r, q) \/ r = x
         /\ q # <<>> => \A r : IsIn(r, q) <=> r = Head(q) \/ IsIn(r, Tail(q))
         /\ ~ \E r : IsIn(r, <<>>)
<1>1. Len(q) \in Nat /\ DOMAIN q = 1 .. Len(q)
  BY LenProperties
<1>2. ASSUME NEW x \in S, NEW r PROVE IsIn(r, Append(q, x)) <=> IsIn(r, q) \/ r = x
  <2>1. /\ DOMAIN Append(q, x) = 1 .. Len(q) + 1
        /\ \A i \in 1 .. Len(q) : Append(q, x)[i] = q[i]
        /\ Append(q, x)[Len(q) + 1] = x
    BY AppendProperties, LenProperties
  <2>2. 1 .. Len(q) + 1 = (1 .. Len(q)) \cup {Len(q) + 1}
    BY <1>1
  <2>. QED
    BY <1>1, <2>1, <2>2 DEF IsIn
<1>3. ASSUME q # <<>>, NEW r PROVE IsIn(r, q) <=> r = Head(q) \/ IsIn(r, Tail(q))
  <2>1. /\ Tail(q) \in Seq(S) /\ DOMAIN Tail(q) = 1 .. Len(q) - 1 /\ Len(q) \in Nat \ {0}
        /\ Head(q) = q[1] /\ \A i \in 1 .. Len(q) - 1 : Tail(q)[i] = q[i + 1]
    BY <1>3, HeadTailProperties, LenProperties, EmptySeq
  <2>2. ASSUME IsIn(r, q) PROVE r = Head(q) \/ IsIn(r, Tail(q))
    <3>1. PICK i \in 1 .. Len(q) : q[i] = r
      BY <1>1, <2>2 DEF IsIn
    <3>2. CASE i = 1
      BY <2>1, <3>1, <3>2
    <3>3. CASE i # 1
      <4>1. i - 1 \in 1 .. Len(q) - 1 /\ i - 1 + 1 = i
        BY <1>1, <3>3
      <4>2. Tail(q)[i - 1] = r
        BY <2>1, <3>1, <4>1
      <4>. QED
        BY <2>1, <4>1, <4>2 DEF IsIn
    <3>. QED
      BY <3>2, <3>3
  <2>3. ASSUME r = Head(q) \/ IsIn(r, Tail(q)) PROVE IsIn(r, q)
    <3>1. \A i \in 1 .. Len(q) - 1 : i + 1 \in 1 .. Len(q)
      BY <1>1
    <3>2. 1 \in 1 .. Len(q)
      BY <2>1
    <3>. QED
      BY <1>1, <2>1, <2>3, <3>1, <3>2 DEF IsIn
  <2>. QED
    BY <2>2, <2>3
<1>4. DOMAIN <<>> = {}
  OBVIOUS
<1>5. ~ \E r : IsIn(r, <<>>)
  BY <1>4 DEF IsIn
<1>6. \A x \in S : \A r : IsIn(r, Append(q, x)) <=> IsIn(r, q) \/ r = x
  BY <1>2, Zenon
<1>7. q # <<>> => \A r : IsIn(r, q) <=> r = Head(q) \/ IsIn(r, Tail(q))
  BY <1>3, Zenon
<1>. QED
  BY <1>5, <1>6, <1>7, Zenon

-----------------------------------------------------------------------------
(* What a step does to one terminal                                        *)

Same(t) == /\ sidecar'[t] = sidecar[t] /\ prompts'[t] = prompts[t]
           /\ asked'[t] = asked[t] /\ told'[t] = told[t]
           /\ live'[t] = live[t] /\ known'[t] = known[t]
           /\ asking'[t] = asking[t] /\ late'[t] = late[t]
           /\ t \in linked' <=> t \in linked

Starting == {"none", "boot", "poll", "dial"}

\* The sidecar gets on with its start, or gives up.
Starts(t) ==
  /\ sidecar[t] \in Starting /\ sidecar'[t] \in Starting \cup {"failed"}
  /\ prompts'[t] = prompts[t] /\ asked'[t] = asked[t] /\ told'[t] = told[t]
  /\ live'[t] = live[t] /\ known'[t] = known[t]
  /\ asking'[t] = asking[t] /\ late'[t] = late[t]

Dials(t) ==
  /\ sidecar[t] = "dial" /\ sidecar'[t] = "queued" /\ t \in linked'
  /\ prompts'[t] = prompts[t]
  /\ asked'[t] = Append(asked[t], Register) /\ told'[t] = told[t]
  /\ live'[t] = live[t] /\ known'[t] = known[t]
  /\ asking'[t] = asking[t] /\ late'[t] = late[t]

Proposes(t) ==
  /\ sidecar[t] \in {"up", "leaving"} /\ sidecar'[t] = sidecar[t]
  /\ prompts[t] + 1 <= Prompts /\ prompts'[t] = prompts[t] + 1
  /\ asked'[t] = Append(asked[t], Claim(prompts[t] + 1)) /\ told'[t] = told[t]
  /\ live'[t] = live[t] /\ known'[t] = known[t] /\ asking'[t] = asking[t]
  /\ late'[t] = IF sidecar[t] = "leaving" THEN late[t] \cup {prompts[t] + 1} ELSE late[t]
  /\ t \in linked' <=> t \in linked

Ends(t) ==
  /\ sidecar[t] = "up" /\ sidecar'[t] = "leaving"
  /\ prompts'[t] = prompts[t] /\ asked'[t] = asked[t] /\ told'[t] = told[t]
  /\ live'[t] = live[t] /\ known'[t] = known[t] /\ asking'[t] = asking[t]
  /\ late'[t] = IF known[t] = {} THEN 1 .. prompts[t] ELSE {}
  /\ t \in linked' <=> t \in linked

Hears(t) ==
  /\ told[t] # <<>> /\ sidecar[t] \in {"queued", "up", "leaving"}
  /\ sidecar'[t] = IF Head(told[t]) = Register THEN "up" ELSE sidecar[t]
  /\ prompts'[t] = prompts[t]
  /\ asked'[t] = asked[t] /\ told'[t] = Tail(told[t])
  /\ known'[t] = IF Head(told[t]).kind = "claim" THEN known[t] \cup {Head(told[t]).n}
                                                 ELSE known[t]
  /\ live'[t] = live[t] /\ asking'[t] = asking[t] /\ late'[t] = late[t]
  /\ t \in linked' <=> t \in linked

Releases(t) ==
  /\ sidecar[t] = "leaving" /\ sidecar'[t] = sidecar[t]
  /\ \E n \in known[t] :
       /\ asking'[t] = asking[t] \cup {n}
       /\ asked'[t] = IF t \in linked THEN Append(asked[t], Release(n)) ELSE asked[t]
  /\ prompts'[t] = prompts[t] /\ told'[t] = told[t]
  /\ live'[t] = live[t] /\ known'[t] = known[t] /\ late'[t] = late[t]
  /\ t \in linked' <=> t \in linked

Completes(t) ==
  /\ sidecar[t] = "leaving" /\ sidecar'[t] = "gone"
  /\ ~Waits(t) /\ known[t] = asking[t]
  /\ prompts'[t] = prompts[t] /\ asked'[t] = asked[t] /\ told'[t] = <<>>
  /\ live'[t] = live[t] /\ known'[t] = known[t]
  /\ asking'[t] = asking[t] /\ late'[t] = late[t]
  /\ t \in linked' <=> t \in linked

Forgets(t) ==
  /\ live'[t] = {}
  /\ sidecar'[t] = sidecar[t] /\ prompts'[t] = prompts[t]
  /\ asked'[t] = asked[t] /\ told'[t] = told[t] /\ known'[t] = known[t]
  /\ asking'[t] = asking[t] /\ late'[t] = late[t]
  /\ t \in linked' <=> t \in linked

Served(t) ==
  /\ asked[t] # <<>>
  /\ asked'[t] = Tail(asked[t])
  /\ told'[t] = IF sidecar[t] = "gone" THEN told[t] ELSE Append(told[t], Head(asked[t]))
  /\ live'[t] = CASE Head(asked[t]).kind = "claim"   -> live[t] \cup {Head(asked[t]).n}
                  [] Head(asked[t]).kind = "release" -> live[t] \ {Head(asked[t]).n}
                  [] OTHER                           -> live[t]
  /\ sidecar'[t] = sidecar[t] /\ prompts'[t] = prompts[t] /\ known'[t] = known[t]
  /\ asking'[t] = asking[t] /\ late'[t] = late[t]
  /\ t \in linked' <=> t \in linked

\* The connection goes, from either end of it.
Unlinks(t) ==
  /\ t \notin linked'
  /\ sidecar'[t] = IF t \in linked /\ sidecar[t] = "queued" THEN "failed" ELSE sidecar[t]
  /\ asked'[t] \in {<<>>, asked[t]} /\ told'[t] \in {<<>>, told[t]}
  /\ prompts'[t] = prompts[t] /\ live'[t] = live[t] /\ known'[t] = known[t]
  /\ asking'[t] = asking[t] /\ late'[t] = late[t]

Dies(t) ==
  /\ sidecar[t] \in {"queued", "up", "leaving"} /\ sidecar'[t] = "gone"
  /\ prompts'[t] = prompts[t] /\ asked'[t] = asked[t] /\ told'[t] = <<>>
  /\ late'[t] = 1 .. prompts[t]
  /\ live'[t] = live[t] /\ known'[t] = known[t] /\ asking'[t] = asking[t]
  /\ t \in linked' <=> t \in linked

Effect(t) ==
  \/ Same(t) \/ Starts(t) \/ Dials(t) \/ Proposes(t) \/ Ends(t) \/ Hears(t)
  \/ Releases(t) \/ Completes(t) \/ Forgets(t) \/ Served(t) \/ Unlinks(t) \/ Dies(t)

LEMMA StepEffects ==
  Shape /\ Globals /\ [Next]_vars => \A t \in Terminal : Effect(t)
<1> SUFFICES ASSUME Shape, Globals, [Next]_vars, NEW t \in Terminal PROVE Effect(t)
  OBVIOUS
<1> USE DEF Shape
<1>1. CASE CoreStarts
  BY <1>1 DEF CoreStarts, termVars, Forgets, Effect
<1>2. CASE Accept \/ RemoveFiles
  BY <1>2 DEF Accept, RemoveFiles, termVars, Same, Effect
<1>3. CASE CoreExits
  BY <1>3 DEF CoreExits, CutOff, Unlinks, Effect
<1>4. CASE CoreCrashes
  BY <1>4 DEF CoreCrashes, CutOff, Unlinks, Effect
<1>5. ASSUME NEW s \in Terminal, Handle(s) PROVE Effect(t)
  <2>1. CASE s # t
    BY <1>5, <2>1 DEF Handle, Tell, termVars, Same, Effect
  <2>2. CASE s = t
    <3>1. /\ asked[t] # <<>> /\ asked'[t] = Tail(asked[t])
          /\ told'[t] = IF sidecar[t] = "gone" THEN told[t]
                                               ELSE Append(told[t], Head(asked[t]))
      BY <1>5, <2>2 DEF Handle, Tell
    <3>2. live'[t] = CASE Head(asked[t]).kind = "claim"   -> live[t] \cup {Head(asked[t]).n}
                       [] Head(asked[t]).kind = "release" -> live[t] \ {Head(asked[t]).n}
                       [] OTHER                           -> live[t]
      BY <1>5, <2>2 DEF Handle
    <3>3. /\ sidecar'[t] = sidecar[t] /\ prompts'[t] = prompts[t] /\ known'[t] = known[t]
          /\ asking'[t] = asking[t] /\ late'[t] = late[t] /\ linked' = linked
      BY <1>5 DEF Handle, termVars
    <3>. QED
      BY <3>1, <3>2, <3>3 DEF Served, Effect
  <2>. QED
    BY <2>1, <2>2
<1>6. ASSUME NEW s \in Terminal, CloseConn(s) PROVE Effect(t)
  <2>1. CASE s # t
    BY <1>6, <2>1 DEF CloseConn, Same, Effect
  <2>2. CASE s = t
    BY <1>6, <2>2 DEF CloseConn, Unlinks, Effect
  <2>. QED
    BY <2>1, <2>2
<1>7. ASSUME NEW s \in Terminal, SidecarRuns(s) \/ GiveUp(s) \/ SidecarDies(s)
                                 \/ OpenTerminal(s) \/ Prompt(s) \/ CloseTerminal(s),
             s # t
      PROVE  Effect(t)
  <2>1. Same(t)
    BY <1>7 DEF SidecarRuns, EnsureCore, Poll, Dial, Hear, ReleaseNext, Shutdown, GiveUp,
       SidecarDies, OpenTerminal, Prompt, CloseTerminal, Goto, Ask, Learn, coreVars, Same
  <2>. QED
    BY <2>1 DEF Effect
<1>8. CASE OpenTerminal(t) \/ EnsureCore(t) \/ Poll(t) \/ GiveUp(t)
  <2>1. CASE OpenTerminal(t)
    BY <2>1 DEF Globals, OpenTerminal, Goto, coreVars, Starts, Starting, Effect
  <2>2. CASE EnsureCore(t) \/ Poll(t) \/ GiveUp(t)
    BY <2>2 DEF EnsureCore, Poll, GiveUp, Goto, coreVars, Starts, Starting, Effect
  <2>. QED
    BY <1>8, <2>1, <2>2
<1>9. CASE Dial(t)
  <2>1. CASE Listening
    BY <1>9, <2>1 DEF Dial, Goto, Ask, Dials, Effect
  <2>2. CASE ~Listening
    BY <1>9, <2>2 DEF Dial, Goto, Starts, Starting, Effect
  <2>. QED
    BY <2>1, <2>2
<1>10. CASE Prompt(t)
  BY <1>10 DEF Prompt, Ask, coreVars, Proposes, Effect
<1>11. CASE CloseTerminal(t)
  <2>1. CASE UNCHANGED <<sidecar, late>>
    BY <1>11, <2>1 DEF CloseTerminal, coreVars, Same, Effect
  <2>2. CASE ~ UNCHANGED <<sidecar, late>>
    BY <1>11, <2>2 DEF CloseTerminal, Goto, coreVars, Ends, Effect
  <2>. QED
    BY <2>1, <2>2
<1>12. CASE Hear(t)
  <2>1. /\ told[t] # <<>> /\ sidecar[t] \in {"queued", "up", "leaving"}
        /\ prompts'[t] = prompts[t] /\ asked'[t] = asked[t] /\ told'[t] = Tail(told[t])
        /\ live'[t] = live[t] /\ asking'[t] = asking[t] /\ late'[t] = late[t]
        /\ linked' = linked
    BY <1>12 DEF Hear, coreVars
  <2>2. known'[t] = IF Head(told[t]).kind = "claim" THEN known[t] \cup {Head(told[t]).n}
                                                    ELSE known[t]
    BY <1>12 DEF Hear, Learn
  <2>3. sidecar'[t] = IF Head(told[t]) = Register THEN "up" ELSE sidecar[t]
    BY <1>12 DEF Hear, Goto
  <2>. QED
    BY <2>1, <2>2, <2>3 DEF Hears, Effect
<1>13. CASE ReleaseNext(t)
  BY <1>13 DEF ReleaseNext, Ask, coreVars, Releases, Effect
<1>14. CASE Shutdown(t)
  BY <1>14 DEF Shutdown, Goto, coreVars, Completes, Effect
<1>15. CASE SidecarDies(t)
  BY <1>15 DEF SidecarDies, Goto, coreVars, Dies, Effect
<1>16. CASE UNCHANGED vars
  BY <1>16 DEF vars, termVars, coreVars, Same, Effect
<1>. QED
  BY <1>1, <1>2, <1>3, <1>4, <1>5, <1>6, <1>7, <1>8, <1>9, <1>10, <1>11, <1>12, <1>13,
     <1>14, <1>15, <1>16 DEF Next, CoreRuns, SidecarRuns

-----------------------------------------------------------------------------
(* Every such step keeps the invariant                                     *)

\* A request that t can have made stays one when more prompts are given.
LEMMA SentFacts ==
  ASSUME NEW t, prompts[t] \in 0 .. Prompts
  PROVE  /\ Sent(t) \subseteq Requests
         /\ Register \in Sent(t)
         /\ \A n \in 1 .. prompts[t] : Claim(n) \in Sent(t) /\ Release(n) \in Sent(t)
         /\ \A r \in Sent(t) : r.n <= prompts[t] /\ r.n \in Nat
         /\ \A r \in Sent(t) : r.kind = "claim" => r = Claim(r.n) /\ r.n \in 1 .. prompts[t]
BY TerminalsAssumption, RequestFacts DEF Sent

\* A terminal whose queues, claims and prompts stay, on a connection that
\* stays if it stood, keeps its invariant.
LEMMA SameKept == ASSUME NEW t, TermInv(t), Same(t) PROVE TermInv(t)'
<1>1. Underway(t)' = Underway(t) /\ Sent(t)' = Sent(t)
  BY DEF Same, Underway, Sent
<1>2. Bounds(t)' /\ Prologue(t)'
  BY <1>1 DEF Same, TermInv, Bounds, Prologue
<1>3. Working(t)' => Working(t)
  BY DEF Same, Working
<1>4. WorkInv(t) => WorkInv(t)'
  <2>1. QueueInv(t) => QueueInv(t)'
    BY <1>1 DEF Same, QueueInv
  <2>2. LiveInv(t) => LiveInv(t)'
    BY DEF Same, LiveInv, IsIn
  <2>3. AskingInv(t) => AskingInv(t)'
    BY DEF Same, AskingInv, IsIn
  <2>4. LeaveInv(t) => LeaveInv(t)'
    BY <1>1 DEF Same, LeaveInv
  <2>. QED
    BY <2>1, <2>2, <2>3, <2>4 DEF WorkInv
<1>5. GoneInv(t)'
  BY DEF Same, TermInv, GoneInv
<1>. QED
  BY <1>2, <1>3, <1>4, <1>5 DEF TermInv

LEMMA StartsKept == ASSUME NEW t, TermInv(t), Starts(t) PROVE TermInv(t)'
<1>1. Sent(t)' = Sent(t)
  BY DEF Starts, Sent
<1>2. Bounds(t)'
  BY <1>1 DEF Starts, TermInv, Bounds
<1>. QED
  BY <1>2 DEF Starts, Starting, TermInv, Prologue, Working, GoneInv

LEMMA DialsKept == ASSUME NEW t, TermInv(t), Dials(t) PROVE TermInv(t)'
<1>1. Sent(t)' = Sent(t) /\ Register \in Sent(t) /\ asked[t] \in Seq(Sent(t))
  BY SentFacts DEF Dials, Sent, TermInv, Bounds
<1>2. Append(asked[t], Register) \in Seq(Sent(t))
  BY <1>1, AppendProperties
<1>3. Bounds(t)'
  BY <1>1, <1>2 DEF Dials, TermInv, Bounds
<1>4. told[t] = <<>> /\ asked[t] = <<>>
  BY DEF Dials, TermInv, Prologue
<1>5. <<>> \o Append(<<>>, Register) = <<Register>>
  BY RequestFacts
<1>6. Underway(t)' = <<Register>>
  BY <1>4, <1>5 DEF Dials, Underway
<1>. QED
  BY <1>3, <1>6 DEF Dials, TermInv, Prologue, Working, GoneInv

LEMMA UnlinksKept == ASSUME NEW t, TermInv(t), Unlinks(t) PROVE TermInv(t)'
<1>1. Sent(t)' = Sent(t) /\ <<>> \in Seq(Sent(t))
  BY DEF Unlinks, Sent
<1>2. Bounds(t)'
  BY <1>1 DEF Unlinks, TermInv, Bounds
<1>3. sidecar[t] = "queued" => t \in linked
  BY DEF TermInv, Prologue
<1>. QED
  BY <1>2, <1>3 DEF Unlinks, TermInv, Prologue, Working, GoneInv

LEMMA DiesKept == ASSUME NEW t, TermInv(t), Dies(t) PROVE TermInv(t)'
<1>1. Sent(t)' = Sent(t) /\ <<>> \in Seq(Sent(t))
  BY DEF Dies, Sent
<1>2. Bounds(t)'
  BY <1>1 DEF Dies, TermInv, Bounds
<1>3. ASSUME NEW i \in DOMAIN asked[t], asked[t][i].kind = "claim"
      PROVE  asked[t][i].n \in 1 .. prompts[t]
  <2>1. asked[t][i] \in Sent(t)
    BY <1>3, ElementOfSeq, LenProperties DEF TermInv, Bounds
  <2>. QED
    BY <1>3, <2>1, SentFacts DEF TermInv, Bounds
<1>4. GoneInv(t)'
  BY <1>3 DEF Dies, TermInv, Bounds, GoneInv
<1>. QED
  BY <1>2, <1>4 DEF Dies, TermInv, Prologue, Working

LEMMA ForgetsKept == ASSUME NEW t, TermInv(t), Forgets(t) PROVE TermInv(t)'
<1>1. Underway(t)' = Underway(t) /\ Sent(t)' = Sent(t)
  BY DEF Forgets, Underway, Sent
<1>2. Bounds(t)' /\ Prologue(t)'
  BY <1>1 DEF Forgets, TermInv, Bounds, Prologue
<1>3. Working(t)' => Working(t)
  BY DEF Forgets, Working
<1>4. WorkInv(t) => WorkInv(t)'
  <2>1. QueueInv(t) => QueueInv(t)'
    BY <1>1 DEF Forgets, QueueInv
  <2>2. LiveInv(t)'
    BY DEF Forgets, LiveInv
  <2>3. AskingInv(t) => AskingInv(t)'
    BY DEF Forgets, AskingInv
  <2>4. LeaveInv(t) => LeaveInv(t)'
    BY <1>1 DEF Forgets, LeaveInv
  <2>. QED
    BY <2>1, <2>2, <2>3, <2>4 DEF WorkInv
<1>5. GoneInv(t)'
  BY DEF Forgets, TermInv, GoneInv
<1>. QED
  BY <1>2, <1>3, <1>4, <1>5 DEF TermInv

LEMMA EndsKept == ASSUME NEW t, TermInv(t), Ends(t) PROVE TermInv(t)'
<1>1. Underway(t)' = Underway(t) /\ Sent(t)' = Sent(t)
  BY DEF Ends, Underway, Sent
<1>2. Bounds(t)' /\ Prologue(t)'
  BY <1>1 DEF Ends, TermInv, Bounds, Prologue
<1>3. ASSUME Working(t)' PROVE WorkInv(t)'
  <2>1. WorkInv(t)
    BY <1>3 DEF Ends, Working, TermInv
  <2>2. QueueInv(t)'
    BY <1>1, <2>1 DEF Ends, WorkInv, QueueInv
  <2>3. LiveInv(t)' /\ AskingInv(t)' /\ asking[t] = {}
    BY <2>1 DEF Ends, WorkInv, LiveInv, AskingInv, IsIn
  <2>4. ASSUME NEW i \in DOMAIN Underway(t), Underway(t)[i].kind = "claim", known[t] = {}
        PROVE  Underway(t)[i].n \in 1 .. prompts[t]
    <3>1. Underway(t) \in Seq(Sent(t))
      BY ConcatProperties DEF TermInv, Bounds, Underway
    <3>2. Underway(t)[i] \in Sent(t)
      BY <2>4, <3>1, ElementOfSeq, LenProperties
    <3>. QED
      BY <2>4, <3>2, SentFacts DEF TermInv, Bounds
  <2>5. LeaveInv(t)'
    BY <1>1, <2>3, <2>4 DEF Ends, LeaveInv
  <2>. QED
    BY <2>2, <2>3, <2>5 DEF WorkInv
<1>. QED
  BY <1>2, <1>3 DEF Ends, TermInv, GoneInv

LEMMA ProposesKept == ASSUME NEW t, TermInv(t), Proposes(t) PROVE TermInv(t)'
<1> DEFINE n == prompts[t] + 1
           q == Underway(t)
           p == Underway(t)'
<1>1. /\ prompts[t] \in 0 .. Prompts /\ prompts'[t] = n /\ prompts'[t] \in 0 .. Prompts
      /\ n \in 1 .. Prompts /\ n \notin 1 .. prompts[t]
      /\ 1 .. prompts[t] \subseteq 1 .. n /\ n \in 1 .. n
  BY TerminalsAssumption DEF TermInv, Bounds, Proposes
<1>2. Sent(t) \subseteq Sent(t)' /\ Claim(n) \in Sent(t)'
  BY <1>1, RequestFacts DEF Sent
<1>3. asked[t] \in Seq(Sent(t)') /\ told[t] \in Seq(Sent(t)')
  BY <1>2, SeqMonotonic DEF TermInv, Bounds
<1>4. asked'[t] \in Seq(Sent(t)') /\ told'[t] \in Seq(Sent(t)')
  BY <1>2, <1>3, AppendProperties DEF Proposes
<1>5. Bounds(t)'
  BY <1>1, <1>4 DEF TermInv, Bounds, Proposes
<1>6. /\ \A i \in DOMAIN q : i \in DOMAIN p /\ p[i] = q[i] /\ i < Len(q) + 1
      /\ Len(q) + 1 \in DOMAIN p /\ p[Len(q) + 1] = Claim(n)
      /\ \A i \in DOMAIN p : i \in DOMAIN q \/ i = Len(q) + 1
  <2> DEFINE a == told[t]
             b == asked[t]
             S == Sent(t)'
             new == Claim(n)
  <2>1. q = a \o b /\ p = a \o Append(b, new)
    BY DEF Proposes, Underway
  <2>2. a \in Seq(S) /\ b \in Seq(S) /\ new \in S
    BY <1>2, <1>3
  <2> HIDE DEF a, b, S, new, p, q
  <2>3. /\ \A i \in DOMAIN (a \o b) :
             /\ i \in DOMAIN (a \o Append(b, new)) /\ (a \o Append(b, new))[i] = (a \o b)[i]
             /\ i < Len(a \o b) + 1
        /\ Len(a \o b) + 1 \in DOMAIN (a \o Append(b, new))
        /\ (a \o Append(b, new))[Len(a \o b) + 1] = new
        /\ \A i \in DOMAIN (a \o Append(b, new)) :
             i \in DOMAIN (a \o b) \/ i = Len(a \o b) + 1
    BY <2>2, QueueAppend
  <2>. QED
    BY <2>1, <2>3 DEF new
<1>7. \A i \in DOMAIN q : q[i] # Claim(n)
  <2>1. q \in Seq(Sent(t))
    BY ConcatProperties DEF TermInv, Bounds, Underway
  <2>2. \A i \in DOMAIN q : q[i] \in Sent(t)
    BY <2>1, ElementOfSeq, LenProperties
  <2>3. Claim(n) \notin Sent(t)
    BY <1>1, RequestFacts DEF Sent
  <2>. QED
    BY <2>2, <2>3
<1>8. Claim(n) # Register /\ Claim(n).kind = "claim" /\ Claim(n).n = n
  BY <1>1, RequestFacts
<1>9. known[t] \subseteq 1 .. prompts[t]
  BY DEF TermInv, Bounds
<1> HIDE DEF n, q, p
<1>10. ASSUME Working(t)' PROVE WorkInv(t)'
  <2>1. WorkInv(t)
    BY <1>10 DEF Proposes, Working, TermInv
  <2>2. QueueInv(t)'
    <3> SUFFICES ASSUME NEW i \in DOMAIN p
                 PROVE  /\ p[i] # Register
                        /\ p[i].kind = "claim" =>
                             /\ p[i].n \notin known'[t]
                             /\ \A j \in DOMAIN p : j # i => p[j] # p[i]
      BY DEF QueueInv, p
    <3>1. CASE i \in DOMAIN q
      BY <1>6, <1>7, <2>1, <3>1 DEF WorkInv, QueueInv, q, Proposes
    <3>2. CASE i = Len(q) + 1
      BY <1>1, <1>6, <1>7, <1>8, <1>9, <3>2 DEF Proposes
    <3>. QED
      BY <1>6, <3>1, <3>2
  <2>3. LiveInv(t)'
    BY <2>1 DEF WorkInv, LiveInv, Proposes, IsIn
  <2>4. AskingInv(t)'
    <3>1. \A r : IsIn(r, asked[t]) => IsIn(r, asked[t])'
      <4>1. asked'[t] = Append(asked[t], Claim(n)) /\ Claim(n) \in Sent(t)'
        BY <1>2 DEF Proposes, n
      <4>2. \A r : IsIn(r, asked[t]) => IsIn(r, Append(asked[t], Claim(n)))
        BY <1>3, <4>1, IsInFacts
      <4>. QED
        BY <4>1, <4>2 DEF IsIn
    <3>. QED
      BY <2>1, <3>1 DEF WorkInv, AskingInv, Proposes
  <2>5. LeaveInv(t)'
    <3> SUFFICES ASSUME sidecar'[t] = "leaving", NEW i \in DOMAIN p,
                        p[i].kind = "claim", p[i].n \notin late'[t]
                 PROVE  \/ \E j \in DOMAIN p : i < j /\ p[j].kind = "release"
                        \/ asking'[t] = {} /\ known'[t] # {}
      BY DEF LeaveInv, p
    <3>1. i # Len(q) + 1
      BY <1>6, <1>8 DEF Proposes, n
    <3>2. i \in DOMAIN q /\ q[i].kind = "claim" /\ q[i].n \notin late[t]
      BY <1>6, <3>1 DEF Proposes
    <3>. QED
      BY <1>6, <2>1, <3>2 DEF WorkInv, LeaveInv, q, Proposes
  <2>. QED
    BY <2>2, <2>3, <2>4, <2>5 DEF WorkInv
<1>. QED
  BY <1>5, <1>10 DEF TermInv, Prologue, GoneInv, Proposes

LEMMA HearsKept == ASSUME NEW t, TermInv(t), Hears(t) PROVE TermInv(t)'
<1> DEFINE q == Underway(t)
           p == Underway(t)'
           r == Head(told[t])
<1>1. /\ asked[t] \in Seq(Sent(t)) /\ told[t] \in Seq(Sent(t)) /\ told[t] # <<>>
      /\ Sent(t)' = Sent(t) /\ prompts[t] \in 0 .. Prompts /\ prompts'[t] = prompts[t]
  BY DEF TermInv, Bounds, Hears, Sent
<1>2. /\ Tail(told[t]) \in Seq(Sent(t)) /\ r \in Sent(t)
      /\ 1 \in DOMAIN q /\ q[1] = r
      /\ Len(p) = Len(q) - 1
      /\ \A i \in DOMAIN p : i \in Nat /\ i + 1 \in DOMAIN q /\ p[i] = q[i + 1]
      /\ \A i \in DOMAIN q : i # 1 => i - 1 \in DOMAIN p
  <2> DEFINE a == told[t]
             b == asked[t]
             S == Sent(t)
  <2>1. q = a \o b /\ p = Tail(a) \o b
    BY DEF Hears, Underway
  <2>2. a \in Seq(S) /\ b \in Seq(S) /\ a # <<>>
    BY <1>1
  <2>3. r = Head(a) /\ Tail(told[t]) = Tail(a) /\ Sent(t) = S
    OBVIOUS
  <2> HIDE DEF a, b, S, p, q, r
  <2>4. /\ Tail(a) \in Seq(S) /\ Head(a) \in S
        /\ 1 \in DOMAIN (a \o b) /\ (a \o b)[1] = Head(a)
        /\ Len(Tail(a) \o b) = Len(a \o b) - 1
        /\ \A i \in DOMAIN (Tail(a) \o b) :
             i \in Nat /\ i + 1 \in DOMAIN (a \o b) /\ (Tail(a) \o b)[i] = (a \o b)[i + 1]
        /\ \A i \in DOMAIN (a \o b) : i # 1 => i - 1 \in DOMAIN (Tail(a) \o b)
    BY <2>2, QueueTail
  <2>. QED
    BY <2>1, <2>3, <2>4
<1>3. r.kind = "claim" => r = Claim(r.n) /\ r.n \in 1 .. prompts[t]
  BY <1>1, <1>2, SentFacts
<1>4. Bounds(t)'
  BY <1>1, <1>2, <1>3 DEF TermInv, Bounds, Hears
<1>5. q \in Seq(Sent(t)) /\ DOMAIN q = 1 .. Len(q) /\ Len(q) \in Nat
      /\ p \in Seq(Sent(t)) /\ DOMAIN p = 1 .. Len(p) /\ Len(p) \in Nat
  BY <1>1, <1>2, ConcatProperties, LenProperties, ZenonT(30) DEF Underway, Hears
<1>6. \A i \in DOMAIN q : q[i] \in Sent(t)
  BY <1>5, ElementOfSeq
<1> HIDE DEF q, p, r
<1>7. CASE sidecar[t] = "queued"
  <2>1. q = <<Register>> /\ prompts[t] = 0 /\ live[t] = {} /\ asking[t] = {} /\ known[t] = {}
    BY <1>7 DEF TermInv, Prologue, Bounds, q
  <2>2. r = Register /\ Len(p) = 0 /\ DOMAIN p = {}
    BY <1>2, <1>5, <2>1
  <2>3. sidecar'[t] = "up"
    BY <2>2 DEF Hears, r
  <2>4. WorkInv(t)'
    BY <2>1, <2>2, <2>3
    DEF WorkInv, QueueInv, LiveInv, AskingInv, LeaveInv, Hears, p
  <2>. QED
    BY <1>4, <2>3, <2>4 DEF TermInv, Prologue, GoneInv
<1>8. CASE sidecar[t] # "queued" /\ ~Working(t)
  <2>1. sidecar'[t] \in {"up", "leaving"} /\ t \notin linked'
    BY <1>8 DEF Hears, Working
  <2>. QED
    BY <1>4, <2>1 DEF TermInv, Prologue, Working, GoneInv
<1>9. CASE Working(t)
  <2>1. WorkInv(t)
    BY <1>9 DEF TermInv
  <2>2. r # Register /\ sidecar'[t] = sidecar[t]
    BY <1>2, <2>1 DEF WorkInv, QueueInv, Hears, q, r
  <2>3. QueueInv(t)'
    <3> SUFFICES ASSUME NEW i \in DOMAIN p
                 PROVE  /\ p[i] # Register
                        /\ p[i].kind = "claim" =>
                             /\ p[i].n \notin known'[t]
                             /\ \A j \in DOMAIN p : j # i => p[j] # p[i]
      BY DEF QueueInv, p
    <3>1. i + 1 \in DOMAIN q /\ i + 1 # 1 /\ p[i] = q[i + 1] /\ q[i + 1] \in Sent(t)
      BY <1>2, <1>6
    <3>2. /\ q[i + 1] # Register
          /\ q[i + 1].kind = "claim" => /\ q[i + 1].n \notin known[t]
                                        /\ \A j \in DOMAIN q : j # i + 1 => q[j] # q[i + 1]
      BY <2>1, <3>1 DEF WorkInv, QueueInv, q
    <3>3. ASSUME p[i].kind = "claim" PROVE p[i].n \notin known'[t]
      <4>1. q[i + 1] = Claim(q[i + 1].n) /\ r # q[i + 1]
        BY <1>1, <1>2, <3>1, <3>2, <3>3, SentFacts
      <4>2. r.kind = "claim" => r.n # q[i + 1].n
        BY <1>3, <4>1
      <4>. QED
        BY <3>1, <3>2, <3>3, <4>2 DEF Hears, r
    <3>4. ASSUME p[i].kind = "claim", NEW j \in DOMAIN p, j # i PROVE p[j] # p[i]
      <4>1. j + 1 \in DOMAIN q /\ p[j] = q[j + 1] /\ j + 1 # i + 1
        BY <1>2, <3>4
      <4>. QED
        BY <3>1, <3>2, <3>4, <4>1
    <3>. QED
      BY <3>1, <3>2, <3>3, <3>4
  <2>4. LiveInv(t)'
    <3> SUFFICES ASSUME NEW n \in live[t] PROVE n \in known'[t] \/ IsIn(Claim(n), told'[t])
      BY DEF LiveInv, Hears
    <3>1. CASE n \in known[t]
      BY <3>1 DEF Hears
    <3>2. CASE IsIn(Claim(n), told[t])
      <4>1. Claim(n) = r \/ IsIn(Claim(n), Tail(told[t]))
        BY <1>1, <3>2, IsInFacts DEF r
      <4>2. n \in 1 .. Prompts
        BY <1>1, TerminalsAssumption DEF TermInv, Bounds
      <4>3. Claim(n) = r => n \in known'[t]
        BY <4>2, RequestFacts DEF Hears, r
      <4>. QED
        BY <4>1, <4>3 DEF Hears
    <3>. QED
      BY <2>1, <3>1, <3>2 DEF WorkInv, LiveInv
  <2>5. AskingInv(t)'
    BY <2>1, <2>2 DEF WorkInv, AskingInv, Hears, IsIn
  <2>6. LeaveInv(t)'
    <3> SUFFICES ASSUME sidecar'[t] = "leaving", NEW i \in DOMAIN p,
                        p[i].kind = "claim", p[i].n \notin late[t]
                 PROVE  \/ \E j \in DOMAIN p : i < j /\ p[j].kind = "release"
                        \/ asking[t] = {} /\ known'[t] # {}
      BY DEF LeaveInv, Hears, p
    <3>1. i + 1 \in DOMAIN q /\ p[i] = q[i + 1] /\ i \in Nat
      BY <1>2
    <3>2. CASE \E j \in DOMAIN q : i + 1 < j /\ q[j].kind = "release"
      <4>1. PICK j \in DOMAIN q : i + 1 < j /\ q[j].kind = "release"
        BY <3>2
      <4>2. j \in Nat /\ j # 1
        BY <1>5, <3>1, <4>1
      <4>3. j - 1 \in DOMAIN p /\ j - 1 + 1 = j /\ i < j - 1
        BY <1>2, <3>1, <4>1, <4>2
      <4>4. p[j - 1] = q[j]
        BY <1>2, <4>3
      <4>. QED
        BY <4>1, <4>3, <4>4
    <3>3. CASE asking[t] = {} /\ known[t] # {}
      BY <3>3 DEF Hears
    <3>. QED
      BY <2>1, <2>2, <3>1, <3>2, <3>3 DEF WorkInv, LeaveInv, q
  <2>7. WorkInv(t)'
    BY <2>3, <2>4, <2>5, <2>6 DEF WorkInv
  <2>. QED
    BY <1>4, <1>9, <2>2, <2>7 DEF TermInv, Prologue, Working, GoneInv
<1>. QED
  BY <1>7, <1>8, <1>9

\* What is under way is an answer or a request, and the other way round.
LEMMA UnderwayFacts ==
  ASSUME NEW t, Bounds(t)
  PROVE  /\ \A i \in DOMAIN Underway(t) :
              \/ \E j \in DOMAIN told[t] : told[t][j] = Underway(t)[i]
              \/ \E j \in DOMAIN asked[t] : asked[t][j] = Underway(t)[i]
         /\ \A j \in DOMAIN told[t] :
              \E i \in DOMAIN Underway(t) : Underway(t)[i] = told[t][j]
         /\ \A j \in DOMAIN asked[t] :
              \E i \in DOMAIN Underway(t) : Underway(t)[i] = asked[t][j]
<1> DEFINE a == told[t]
           b == asked[t]
           S == Sent(t)
<1>1. a \in Seq(S) /\ b \in Seq(S) /\ Underway(t) = a \o b
  BY DEF Bounds, Underway
<1> HIDE DEF a, b, S
<1>2. /\ DOMAIN a = 1 .. Len(a) /\ DOMAIN b = 1 .. Len(b) /\ Len(a) \in Nat /\ Len(b) \in Nat
      /\ DOMAIN (a \o b) = 1 .. Len(a) + Len(b)
      /\ \A i \in 1 .. Len(a) + Len(b) :
           (a \o b)[i] = IF i <= Len(a) THEN a[i] ELSE b[i - Len(a)]
  BY <1>1, ConcatProperties, LenProperties
<1>3. ASSUME NEW i \in 1 .. Len(a) + Len(b)
      PROVE  \/ \E j \in DOMAIN a : a[j] = (a \o b)[i]
             \/ \E j \in DOMAIN b : b[j] = (a \o b)[i]
  <2>1. CASE i <= Len(a)
    BY <1>2, <2>1
  <2>2. CASE i > Len(a)
    <3>1. i - Len(a) \in DOMAIN b /\ (a \o b)[i] = b[i - Len(a)]
      BY <1>2, <2>2
    <3>. QED
      BY <3>1
  <2>3. i <= Len(a) \/ i > Len(a)
    BY <1>2
  <2>. QED
    BY <2>1, <2>2, <2>3, Zenon
<1>4. ASSUME NEW j \in 1 .. Len(a)
      PROVE  j \in 1 .. Len(a) + Len(b) /\ (a \o b)[j] = a[j]
  BY <1>2
<1>5. ASSUME NEW j \in 1 .. Len(b)
      PROVE  j + Len(a) \in 1 .. Len(a) + Len(b) /\ (a \o b)[j + Len(a)] = b[j]
  <2>1. j + Len(a) \in 1 .. Len(a) + Len(b) /\ j + Len(a) > Len(a)
        /\ j + Len(a) - Len(a) = j
    BY <1>2
  <2>. QED
    BY <1>2, <2>1
<1>. QED
  BY <1>1, <1>2, <1>3, <1>4, <1>5 DEF a, b

LEMMA ReleasesKept == ASSUME NEW t, TermInv(t), Releases(t) PROVE TermInv(t)'
<1>1. PICK n \in known[t] :
        /\ asking'[t] = asking[t] \cup {n}
        /\ asked'[t] = IF t \in linked THEN Append(asked[t], Release(n)) ELSE asked[t]
  BY DEF Releases
<1>2. /\ n \in 1 .. prompts[t] /\ prompts[t] \in 0 .. Prompts /\ n \in 1 .. Prompts
      /\ Sent(t)' = Sent(t) /\ asked[t] \in Seq(Sent(t)) /\ told[t] \in Seq(Sent(t))
  BY TerminalsAssumption DEF TermInv, Bounds, Releases, Sent
<1>3. Release(n) \in Sent(t) /\ Release(n).kind = "release" /\ Release(n) # Register
  BY <1>2, SentFacts, RequestFacts
<1>4. asked'[t] \in Seq(Sent(t))
  BY <1>1, <1>2, <1>3, AppendProperties
<1>5. Bounds(t)'
  BY <1>1, <1>2, <1>4 DEF TermInv, Bounds, Releases
<1>6. ASSUME Working(t)' PROVE WorkInv(t)'
  <2> DEFINE q == Underway(t)
             p == Underway(t)'
  <2>1. WorkInv(t) /\ t \in linked /\ asked'[t] = Append(asked[t], Release(n))
    BY <1>1, <1>6 DEF Releases, Working, TermInv
  <2>2. /\ \A i \in DOMAIN q : i \in DOMAIN p /\ p[i] = q[i] /\ i < Len(q) + 1
        /\ Len(q) + 1 \in DOMAIN p /\ p[Len(q) + 1] = Release(n)
        /\ \A i \in DOMAIN p : i \in DOMAIN q \/ i = Len(q) + 1
    <3> DEFINE a == told[t]
               b == asked[t]
               S == Sent(t)
               new == Release(n)
    <3>1. q = a \o b /\ p = a \o Append(b, new)
      BY <2>1 DEF Releases, Underway
    <3>2. a \in Seq(S) /\ b \in Seq(S) /\ new \in S
      BY <1>2, <1>3
    <3> HIDE DEF a, b, S, new, p, q
    <3>3. /\ \A i \in DOMAIN (a \o b) :
               /\ i \in DOMAIN (a \o Append(b, new))
               /\ (a \o Append(b, new))[i] = (a \o b)[i]
               /\ i < Len(a \o b) + 1
          /\ Len(a \o b) + 1 \in DOMAIN (a \o Append(b, new))
          /\ (a \o Append(b, new))[Len(a \o b) + 1] = new
          /\ \A i \in DOMAIN (a \o Append(b, new)) :
               i \in DOMAIN (a \o b) \/ i = Len(a \o b) + 1
      BY <3>2, QueueAppend
    <3>. QED
      BY <3>1, <3>3 DEF new
  <2> HIDE DEF q, p
  <2>3. QueueInv(t)'
    <3> SUFFICES ASSUME NEW i \in DOMAIN p
                 PROVE  /\ p[i] # Register
                        /\ p[i].kind = "claim" =>
                             /\ p[i].n \notin known[t]
                             /\ \A j \in DOMAIN p : j # i => p[j] # p[i]
      BY DEF QueueInv, Releases, p
    <3>1. CASE i \in DOMAIN q
      BY <1>3, <2>1, <2>2, <3>1 DEF WorkInv, QueueInv, q
    <3>2. CASE i = Len(q) + 1
      BY <1>3, <2>2, <3>2
    <3>. QED
      BY <2>2, <3>1, <3>2
  <2>4. LiveInv(t)'
    BY <2>1 DEF WorkInv, LiveInv, Releases, IsIn
  <2>5. AskingInv(t)'
    <3>1. \A r : IsIn(r, asked'[t]) <=> IsIn(r, asked[t]) \/ r = Release(n)
      BY <1>2, <1>3, <2>1, IsInFacts
    <3>2. IsIn(Release(n), asked'[t]) /\ sidecar'[t] # "up"
      BY <3>1 DEF Releases
    <3>3. ASSUME NEW m \in asking'[t] PROVE m \notin live[t] \/ IsIn(Release(m), asked'[t])
      <4>1. CASE m = n
        BY <3>2, <4>1
      <4>2. CASE m \in asking[t]
        BY <2>1, <3>1, <4>2 DEF WorkInv, AskingInv
      <4>. QED
        BY <1>1, <4>1, <4>2
    <3>4. live'[t] = live[t]
      BY DEF Releases
    <3>. QED
      BY <3>2, <3>3, <3>4 DEF AskingInv, IsIn
  <2>6. LeaveInv(t)'
    <3> SUFFICES ASSUME NEW i \in DOMAIN p, p[i].kind = "claim"
                 PROVE  \E j \in DOMAIN p : i < j /\ p[j].kind = "release"
      BY DEF LeaveInv, p
    <3>. QED
      BY <1>3, <2>2
  <2>. QED
    BY <2>3, <2>4, <2>5, <2>6 DEF WorkInv
<1>. QED
  BY <1>5, <1>6 DEF TermInv, Prologue, GoneInv, Releases

LEMMA CompletesKept == ASSUME NEW t, TermInv(t), Completes(t) PROVE TermInv(t)'
<1>1. Sent(t)' = Sent(t) /\ <<>> \in Seq(Sent(t)) /\ Bounds(t)
  BY DEF Completes, Sent, TermInv
<1>2. Bounds(t)'
  BY <1>1 DEF Completes, Bounds
<1>3. /\ \A j \in DOMAIN asked[t] : asked[t][j].kind # "release"
      /\ \A j \in DOMAIN told[t] : told[t][j].kind # "release"
  BY DEF Completes, Waits
<1>4. \A i \in DOMAIN Underway(t) : Underway(t)[i].kind # "release"
  BY <1>1, <1>3, UnderwayFacts
<1>5. ASSUME t \in linked PROVE GoneInv(t)'
  <2>1. WorkInv(t)
    BY <1>5 DEF Completes, TermInv, Working
  <2>2. ~ (asking[t] = {} /\ known[t] # {})
    BY DEF Completes
  <2>3. \A i \in DOMAIN Underway(t) :
          Underway(t)[i].kind = "claim" => Underway(t)[i].n \in late[t]
    BY <1>4, <2>1, <2>2 DEF WorkInv, LeaveInv, Completes
  <2>4. \A j \in DOMAIN asked[t] : asked[t][j].kind = "claim" => asked[t][j].n \in late[t]
    BY <1>1, <2>3, UnderwayFacts
  <2>5. \A j \in DOMAIN told[t] : told[t][j].kind = "claim" => told[t][j].n \in late[t]
    BY <1>1, <2>3, UnderwayFacts
  <2>6. ASSUME NEW n \in live[t] PROVE n \in late[t]
    <3>1. n \in 1 .. Prompts
      BY <1>1, TerminalsAssumption DEF Bounds
    <3>2. CASE n \in known[t]
      <4>1. IsIn(Release(n), asked[t])
        BY <2>1, <3>2 DEF WorkInv, AskingInv, Completes
      <4>2. Release(n).kind = "release"
        BY <3>1, RequestFacts
      <4>. QED
        BY <1>3, <4>1, <4>2 DEF IsIn
    <3>3. CASE IsIn(Claim(n), told[t])
      <4>1. Claim(n).kind = "claim" /\ Claim(n).n = n
        BY <3>1, RequestFacts
      <4>. QED
        BY <2>5, <3>3, <4>1 DEF IsIn
    <3>. QED
      BY <2>1, <3>2, <3>3 DEF WorkInv, LiveInv
  <2>. QED
    BY <2>4, <2>6 DEF GoneInv, Completes
<1>. QED
  BY <1>2, <1>5 DEF TermInv, Prologue, Working, GoneInv, Completes

LEMMA ServedKept == ASSUME NEW t, TermInv(t), Served(t) PROVE TermInv(t)'
<1> DEFINE r == Head(asked[t])
<1>1. /\ asked[t] \in Seq(Sent(t)) /\ told[t] \in Seq(Sent(t)) /\ asked[t] # <<>>
      /\ Sent(t)' = Sent(t) /\ prompts[t] \in 0 .. Prompts /\ prompts'[t] = prompts[t]
      /\ asked'[t] = Tail(asked[t]) /\ Bounds(t)
  BY DEF TermInv, Bounds, Served, Sent
<1>2. /\ Append(told[t], r) \in Seq(Sent(t)) /\ Tail(asked[t]) \in Seq(Sent(t)) /\ r \in Sent(t)
      /\ Append(told[t], r) \o Tail(asked[t]) = told[t] \o asked[t]
      /\ \E i \in DOMAIN (told[t] \o asked[t]) : (told[t] \o asked[t])[i] = r
  <2> DEFINE a == told[t]
             b == asked[t]
             S == Sent(t)
  <2>1. a \in Seq(S) /\ b \in Seq(S) /\ b # <<>>
    BY <1>1
  <2> HIDE DEF a, b, S
  <2>2. /\ Append(a, Head(b)) \in Seq(S) /\ Tail(b) \in Seq(S) /\ Head(b) \in S
        /\ Append(a, Head(b)) \o Tail(b) = a \o b
        /\ \E i \in DOMAIN (a \o b) : (a \o b)[i] = Head(b)
    BY <2>1, QueueMove
  <2>. QED
    BY <2>2 DEF a, b, S
<1>3. /\ r.kind = "claim" => r = Claim(r.n) /\ r.n \in 1 .. prompts[t]
      /\ r.kind = "release" => r = Release(r.n) /\ r.n \in 1 .. Prompts
      /\ r.kind \in {"register", "claim", "release"}
  BY <1>1, <1>2, SentFacts, RequestFacts
<1>4. /\ r.kind = "claim" => live'[t] = live[t] \cup {r.n}
      /\ r.kind = "release" => live'[t] = live[t] \ {r.n}
      /\ r.kind = "register" => live'[t] = live[t]
  BY DEF Served
<1>5. Bounds(t)'
  <2>1. told'[t] \in Seq(Sent(t)) /\ asked'[t] \in Seq(Sent(t))
    BY <1>1, <1>2 DEF Served
  <2>2. live'[t] \subseteq 1 .. prompts[t]
    BY <1>1, <1>3, <1>4 DEF Bounds
  <2>. QED
    BY <1>1, <2>1, <2>2 DEF Bounds, Served
<1>6. sidecar[t] \notin {"none", "boot", "poll", "dial"}
  BY <1>1 DEF TermInv, Prologue
<1>7. CASE sidecar[t] = "gone"
  <2>1. ASSUME t \in linked PROVE GoneInv(t)'
    <3>1. /\ live[t] \subseteq late[t]
          /\ \A i \in DOMAIN asked[t] : asked[t][i].kind = "claim" => asked[t][i].n \in late[t]
      BY <1>7, <2>1 DEF TermInv, GoneInv
    <3>2. /\ Head(asked[t]) = asked[t][1] /\ 1 \in DOMAIN asked[t]
          /\ \A i \in DOMAIN Tail(asked[t]) : i + 1 \in DOMAIN asked[t]
                                              /\ Tail(asked[t])[i] = asked[t][i + 1]
      <4>1. Len(asked[t]) \in Nat \ {0} /\ DOMAIN asked[t] = 1 .. Len(asked[t])
        BY <1>1, EmptySeq, LenProperties
      <4>2. Tail(asked[t]) \in Seq(Sent(t)) /\ Len(Tail(asked[t])) = Len(asked[t]) - 1
        BY <1>1, HeadTailProperties
      <4>3. DOMAIN Tail(asked[t]) = 1 .. Len(asked[t]) - 1
        BY <4>1, <4>2, LenProperties
      <4>4. \A i \in 1 .. Len(asked[t]) - 1 : Tail(asked[t])[i] = asked[t][i + 1]
        BY <1>1, HeadTailProperties
      <4>5. Head(asked[t]) = asked[t][1]
        BY <1>1
      <4>. QED
        BY <4>1, <4>3, <4>4, <4>5
    <3>3. r.kind = "claim" => r.n \in late[t]
      BY <3>1, <3>2
    <3>4. live'[t] \subseteq late[t]
      BY <1>3, <1>4, <3>1, <3>3
    <3>5. \A i \in DOMAIN Tail(asked[t]) :
            Tail(asked[t])[i].kind = "claim" => Tail(asked[t])[i].n \in late[t]
      BY <3>1, <3>2
    <3>. QED
      BY <1>1, <3>4, <3>5 DEF GoneInv, Served
  <2>. QED
    BY <1>5, <1>7, <2>1 DEF TermInv, Prologue, Working, GoneInv, Served
<1>8. CASE sidecar[t] # "gone"
  <2>1. told'[t] = Append(told[t], r) /\ sidecar'[t] = sidecar[t]
    BY <1>8 DEF Served
  <2>2. Underway(t)' = Underway(t) /\ \E i \in DOMAIN Underway(t) : Underway(t)[i] = r
    BY <1>1, <1>2, <2>1 DEF Underway
  <2>3. Prologue(t)'
    BY <1>1, <1>6, <2>1, <2>2 DEF TermInv, Prologue, Served
  <2>4. ASSUME Working(t)' PROVE WorkInv(t)'
    <3>1. WorkInv(t)
      BY <2>4 DEF Served, Working, TermInv
    <3>2. QueueInv(t)'
      BY <2>2, <3>1 DEF WorkInv, QueueInv, Served
    <3>3. \A x : IsIn(x, told'[t]) <=> IsIn(x, told[t]) \/ x = r
      BY <1>1, <1>2, <2>1, IsInFacts
    <3>4. \A x : IsIn(x, asked[t]) <=> x = r \/ IsIn(x, asked'[t])
      BY <1>1, IsInFacts
    <3>5. r.kind = "claim" => r.n \notin known[t]
      BY <2>2, <3>1 DEF WorkInv, QueueInv
    <3>6. ASSUME NEW n \in live'[t] PROVE n \in known[t] \/ IsIn(Claim(n), told'[t])
      <4>1. CASE n \in live[t]
        BY <3>1, <3>3, <4>1 DEF WorkInv, LiveInv
      <4>2. CASE n \notin live[t]
        BY <1>3, <1>4, <3>3, <3>6, <4>2
      <4>. QED
        BY <4>1, <4>2
    <3>7. LiveInv(t)'
      BY <3>6 DEF LiveInv, IsIn, Served
    <3>8. ASSUME NEW n \in asking[t], n \in live'[t] PROVE IsIn(Release(n), asked'[t])
      <4>1. n \in known[t] /\ n \in 1 .. Prompts
        BY <1>1, TerminalsAssumption DEF Bounds
      <4>2. n \in live[t]
        BY <1>3, <1>4, <3>5, <3>8, <4>1
      <4>3. Release(n) # r
        BY <1>3, <1>4, <3>8, <4>1, RequestFacts
      <4>. QED
        BY <3>1, <3>4, <4>2, <4>3 DEF WorkInv, AskingInv
    <3>9. AskingInv(t)'
      BY <3>1, <3>8 DEF WorkInv, AskingInv, IsIn, Served
    <3>10. LeaveInv(t)'
      BY <2>2, <3>1 DEF WorkInv, LeaveInv, Served
    <3>. QED
      BY <3>2, <3>7, <3>9, <3>10 DEF WorkInv
  <2>. QED
    BY <1>5, <1>8, <2>1, <2>3, <2>4 DEF TermInv, GoneInv
<1>. QED
  BY <1>7, <1>8

-----------------------------------------------------------------------------
(* Theorems                                                                *)

LEMMA InitInv == Init => Inv
<1> SUFFICES ASSUME Init PROVE Inv
  OBVIOUS
<1>1. Shape
  <2>1. \A S : <<>> \in Seq(S)
    OBVIOUS
  <2>2. 0 \in 0 .. Prompts
    BY TerminalsAssumption
  <2>. QED
    BY <2>1, <2>2 DEF Init, Shape
<1>2. Globals
  <2>1. 0 \in 0 .. MaxCrashes /\ <<>> \in Seq(Terminal)
    BY TerminalsAssumption
  <2>2. files \in BOOLEAN
    BY DEF Init
  <2>. QED
    BY <2>1, <2>2 DEF Init, Globals
<1>3. ASSUME NEW t \in Terminal PROVE TermInv(t)
  <2>1. Bounds(t)
    BY TerminalsAssumption, <1>3 DEF Init, Bounds
  <2>. QED
    BY <2>1, <1>3 DEF Init, TermInv, Prologue, Working, GoneInv
<1>. QED
  BY <1>1, <1>2, <1>3 DEF Inv

LEMMA NextTermInv ==
  Shape /\ Globals /\ [Next]_vars => \A t \in Terminal : TermInv(t) => TermInv(t)'
<1> SUFFICES ASSUME Shape, Globals, [Next]_vars, NEW t \in Terminal, TermInv(t)
             PROVE  TermInv(t)'
  OBVIOUS
<1>1. Effect(t)
  BY StepEffects
<1>. QED
  BY <1>1, SameKept, StartsKept, DialsKept, ProposesKept, EndsKept, HearsKept, ReleasesKept,
     CompletesKept, ForgetsKept, ServedKept, UnlinksKept, DiesKept DEF Effect

\* The prompts of a terminal that were given are at most Prompts.
LEMMA PromptBounds ==
  ASSUME Shape, NEW t \in Terminal
  PROVE  1 .. prompts[t] \in SUBSET (1 .. Prompts) /\ prompts[t] \in Nat
<1>1. prompts[t] \in 0 .. Prompts
  BY DEF Shape
<1>. QED
  BY <1>1, TerminalsAssumption

\* The variables of one terminal that a step assigns stay of their types.
LEMMA NextShape == Shape /\ [Next]_vars => Shape'
<1> SUFFICES ASSUME Shape, [Next]_vars PROVE Shape'
  OBVIOUS
<1> USE DEF Shape
<1>a. ASSUME NEW t \in Terminal
      PROVE  /\ asked[t] # <<>> => Head(asked[t]) \in Requests /\ Tail(asked[t]) \in Seq(Requests)
             /\ told[t] # <<>> => Head(told[t]) \in Requests /\ Tail(told[t]) \in Seq(Requests)
             /\ \A r \in Requests : Append(asked[t], r) \in Seq(Requests)
                                    /\ Append(told[t], r) \in Seq(Requests)
  BY HeadTailProperties, AppendProperties
<1>b. <<>> \in Seq(Requests) /\ Register \in Requests
      /\ \A n \in 1 .. Prompts : Claim(n) \in Requests /\ Release(n) \in Requests
      /\ \A r \in Requests : r.kind = "claim" => r.n \in 1 .. Prompts
  BY RequestFacts
<1>1. CASE CoreStarts
  BY <1>1 DEF CoreStarts, termVars
<1>2. CASE Accept \/ RemoveFiles
  BY <1>2 DEF Accept, RemoveFiles, termVars
<1>3. CASE CoreExits
  BY <1>3, <1>b DEF CoreExits, CutOff
<1>4. CASE CoreCrashes
  BY <1>4 DEF CoreCrashes, CutOff
<1>5. ASSUME NEW t \in Terminal, Handle(t) PROVE Shape'
  <2> DEFINE r == Head(asked[t])
  <2>1. r \in Requests /\ Tail(asked[t]) \in Seq(Requests) /\ Append(told[t], r) \in Seq(Requests)
    BY <1>5, <1>a DEF Handle
  <2>2. asked' \in [Terminal -> Seq(Requests)] /\ told' \in [Terminal -> Seq(Requests)]
    BY <1>5, <2>1 DEF Handle, Tell
  <2>3. live' \in [Terminal -> SUBSET (1 .. Prompts)]
    <3>1. live' = CASE r.kind = "claim"   -> [live EXCEPT ![t] = @ \cup {r.n}]
                    [] r.kind = "release" -> [live EXCEPT ![t] = @ \ {r.n}]
                    [] OTHER              -> live
      BY <1>5, Zenon DEF Handle
    <3>2. r \in Requests
      BY <2>1
    <3>. HIDE DEF r
    <3>3. r.kind = "claim" => r.n \in 1 .. Prompts
      BY <3>2, RequestFacts
    <3>4. CASE r.kind = "claim"
      <4>1. live[t] \cup {r.n} \in SUBSET (1 .. Prompts)
        BY <3>3, <3>4
      <4>. QED
        BY <3>1, <3>4, <4>1
    <3>5. CASE r.kind = "release"
      <4>1. live[t] \ {r.n} \in SUBSET (1 .. Prompts)
        OBVIOUS
      <4>. QED
        BY <3>1, <3>5, <4>1
    <3>. QED
      BY <3>1, <3>4, <3>5
  <2>. QED
    BY <1>5, <2>2, <2>3 DEF Handle, termVars
<1>6. ASSUME NEW t \in Terminal, CloseConn(t) PROVE Shape'
  BY <1>6, <1>b DEF CloseConn
<1>7. ASSUME NEW t \in Terminal, OpenTerminal(t) PROVE Shape'
  BY <1>7 DEF OpenTerminal, Goto, coreVars
<1>8. ASSUME NEW t \in Terminal, EnsureCore(t) \/ Poll(t) \/ GiveUp(t) PROVE Shape'
  BY <1>8 DEF EnsureCore, Poll, GiveUp, Goto, coreVars
<1>9. ASSUME NEW t \in Terminal, Dial(t) PROVE Shape'
  <2>1. Append(asked[t], Register) \in Seq(Requests)
    BY <1>a, <1>b
  <2>2. asked' \in [Terminal -> Seq(Requests)]
    <3>1. asked' = [asked EXCEPT ![t] = Append(asked[t], Register)] \/ asked' = asked
      BY <1>9 DEF Dial, Ask
    <3>. QED
      BY <2>1, <3>1
  <2>3. sidecar' \in [Terminal -> {"none", "boot", "poll", "dial", "queued", "up", "leaving",
                                   "gone", "failed"}]
    BY <1>9 DEF Dial, Goto
  <2>. QED
    BY <1>9, <2>2, <2>3 DEF Dial
<1>10. ASSUME NEW t \in Terminal, Prompt(t) PROVE Shape'
  <2>1. prompts[t] + 1 \in 1 .. Prompts /\ prompts[t] + 1 \in 0 .. Prompts
    BY <1>10, PromptBounds, TerminalsAssumption DEF Prompt
  <2>2. Append(asked[t], Claim(prompts[t] + 1)) \in Seq(Requests)
    BY <1>a, <1>b, <2>1
  <2>3. asked' \in [Terminal -> Seq(Requests)]
    BY <1>10, <2>2 DEF Prompt, Ask
  <2>4. prompts' \in [Terminal -> 0 .. Prompts]
    BY <1>10, <2>1 DEF Prompt
  <2>5. late' \in [Terminal -> SUBSET (1 .. Prompts)]
    BY <1>10, <2>1 DEF Prompt
  <2>. QED
    BY <1>10, <2>3, <2>4, <2>5 DEF Prompt, coreVars
<1>11. ASSUME NEW t \in Terminal, CloseTerminal(t) PROVE Shape'
  <2>1. 1 .. prompts[t] \in SUBSET (1 .. Prompts)
    BY PromptBounds
  <2>2. late' \in [Terminal -> SUBSET (1 .. Prompts)]
    BY <1>11, <2>1 DEF CloseTerminal
  <2>3. open' \in [Terminal -> {"no", "yes", "closed"}]
    BY <1>11 DEF CloseTerminal
  <2>4. sidecar' \in [Terminal -> {"none", "boot", "poll", "dial", "queued", "up", "leaving",
                                   "gone", "failed"}]
    BY <1>11 DEF CloseTerminal, Goto
  <2>. QED
    BY <1>11, <2>2, <2>3, <2>4 DEF CloseTerminal, coreVars
<1>12. ASSUME NEW t \in Terminal, Hear(t) PROVE Shape'
  <2>1. Head(told[t]) \in Requests /\ Tail(told[t]) \in Seq(Requests)
    BY <1>12, <1>a DEF Hear
  <2>2. told' \in [Terminal -> Seq(Requests)]
    BY <1>12, <2>1 DEF Hear
  <2>3. known' \in [Terminal -> SUBSET (1 .. Prompts)]
    <3> DEFINE r == Head(told[t])
    <3>1. known' = IF r.kind = "claim" THEN [known EXCEPT ![t] = @ \cup {r.n}] ELSE known
      BY <1>12, Zenon DEF Hear, Learn
    <3>2. r \in Requests
      BY <2>1
    <3>. HIDE DEF r
    <3>3. r.kind = "claim" => r.n \in 1 .. Prompts
      BY <3>2, RequestFacts
    <3>4. CASE r.kind = "claim"
      <4>1. known[t] \cup {r.n} \in SUBSET (1 .. Prompts)
        BY <3>3, <3>4
      <4>. QED
        BY <3>1, <3>4, <4>1
    <3>. QED
      BY <3>1, <3>4
  <2>4. sidecar' \in [Terminal -> {"none", "boot", "poll", "dial", "queued", "up", "leaving",
                                   "gone", "failed"}]
    BY <1>12 DEF Hear, Goto
  <2>. QED
    BY <1>12, <2>2, <2>3, <2>4 DEF Hear, coreVars
<1>13. ASSUME NEW t \in Terminal, ReleaseNext(t) PROVE Shape'
  <2>1. PICK n \in known[t] \ asking[t] :
          /\ asking' = [asking EXCEPT ![t] = @ \cup {n}]
          /\ IF t \in linked THEN Ask(t, Release(n)) ELSE UNCHANGED asked
    BY <1>13 DEF ReleaseNext
  <2>2. n \in 1 .. Prompts
    BY <2>1
  <2>3. Append(asked[t], Release(n)) \in Seq(Requests)
    BY <1>a, <1>b, <2>2
  <2>4. asking' \in [Terminal -> SUBSET (1 .. Prompts)]
    BY <2>1, <2>2
  <2>5. asked' \in [Terminal -> Seq(Requests)]
    BY <2>1, <2>3 DEF Ask
  <2>. QED
    BY <1>13, <2>4, <2>5 DEF ReleaseNext, coreVars
<1>14. ASSUME NEW t \in Terminal, Shutdown(t) PROVE Shape'
  BY <1>14, <1>b DEF Shutdown, Goto, coreVars
<1>15. ASSUME NEW t \in Terminal, SidecarDies(t) PROVE Shape'
  <2>1. 1 .. prompts[t] \in SUBSET (1 .. Prompts)
    BY PromptBounds
  <2>. QED
    BY <1>15, <1>b, <2>1 DEF SidecarDies, Goto, coreVars
<1>16. CASE UNCHANGED vars
  BY <1>16 DEF vars, termVars, coreVars
<1>. QED
  BY <1>1, <1>2, <1>3, <1>4, <1>5, <1>6, <1>7, <1>8, <1>9, <1>10, <1>11, <1>12, <1>13,
     <1>14, <1>15, <1>16 DEF Next, CoreRuns, SidecarRuns

LEMMA NextGlobals == Shape /\ Globals /\ [Next]_vars => Globals'
<1> SUFFICES ASSUME Shape, Globals, [Next]_vars PROVE Globals'
  OBVIOUS
<1> USE DEF Globals, Shape
<1>1. CASE CoreStarts \/ RemoveFiles
  BY <1>1 DEF CoreStarts, RemoveFiles, termVars
<1>2. CASE Accept
  <2>1. Head(backlog) \in Terminal /\ Tail(backlog) \in Seq(Terminal)
    BY <1>2, HeadTailProperties DEF Accept
  <2>. QED
    BY <1>2, <2>1 DEF Accept, termVars
<1>3. CASE CoreExits \/ CoreCrashes
  <2>1. crashes' \in 0 .. MaxCrashes
    BY <1>3, TerminalsAssumption DEF CoreExits, CoreCrashes
  <2>2. <<>> \in Seq(Terminal)
    OBVIOUS
  <2>3. files' \in BOOLEAN /\ open' = open
    BY <1>3 DEF CoreExits, CoreCrashes, CutOff
  <2>4. \A t \in Terminal : sidecar[t] = "none" => sidecar'[t] = "none"
    BY <1>3 DEF CoreExits, CoreCrashes, CutOff
  <2>5. /\ linked' = {} /\ core' = "none" /\ backlog' = <<>>
        /\ conn' = NoOne /\ agent' = NoOne
    BY <1>3 DEF CoreExits, CoreCrashes, CutOff
  <2>. QED
    BY <2>1, <2>2, <2>3, <2>4, <2>5
<1>4. ASSUME NEW t \in Terminal, Handle(t) PROVE Globals'
  BY <1>4 DEF Handle, termVars
<1>5. ASSUME NEW t \in Terminal, CloseConn(t) PROVE Globals'
  BY <1>5 DEF CloseConn
<1>6. ASSUME NEW t \in Terminal, OpenTerminal(t) \/ EnsureCore(t) \/ Poll(t) \/ GiveUp(t)
      PROVE  Globals'
  BY <1>6 DEF OpenTerminal, EnsureCore, Poll, GiveUp, Goto, coreVars
<1>7. ASSUME NEW t \in Terminal, Dial(t) PROVE Globals'
  <2>1. Append(backlog, t) \in Seq(Terminal)
    BY AppendProperties
  <2>. QED
    BY <1>7, <2>1 DEF Dial, Goto
<1>8. ASSUME NEW t \in Terminal, Prompt(t) \/ CloseTerminal(t) PROVE Globals'
  BY <1>8 DEF Prompt, CloseTerminal, Goto, coreVars
<1>9. ASSUME NEW t \in Terminal, Hear(t) \/ ReleaseNext(t) \/ Shutdown(t) PROVE Globals'
  BY <1>9 DEF Hear, ReleaseNext, Shutdown, Goto, coreVars
<1>10. ASSUME NEW t \in Terminal, SidecarDies(t) PROVE Globals'
  <2>1. crashes' \in 0 .. MaxCrashes
    BY <1>10, TerminalsAssumption DEF SidecarDies
  <2>. QED
    BY <1>10, <2>1 DEF SidecarDies, Goto, coreVars
<1>11. CASE UNCHANGED vars
  BY <1>11 DEF vars, termVars, coreVars
<1>. QED
  BY <1>1, <1>2, <1>3, <1>4, <1>5, <1>6, <1>7, <1>8, <1>9, <1>10, <1>11
  DEF Next, CoreRuns, SidecarRuns

LEMMA InvHolds == Spec => []Inv
<1>1. Inv /\ [Next]_vars => Inv'
  BY NextShape, NextGlobals, NextTermInv DEF Inv
<1>. QED
  BY <1>1, InitInv, PTL DEF Spec

\* The sidecars, their connections and Core keep to their types, and nothing is
\* asked, known or released that was not prompted before.
THEOREM TerminalsTypes == Spec => []TypeOK
<1>1. Inv => TypeOK
  <2> SUFFICES ASSUME Inv PROVE TypeOK
    OBVIOUS
  <2>1. ToSet(backlog) \subseteq Terminal
    BY ElementOfSeq, LenProperties DEF Inv, Globals, ToSet
  <2>2. ASSUME NEW t \in Terminal
        PROVE  /\ ToSet(asked[t]) \cup ToSet(told[t]) \subseteq Requests
               /\ prompts[t] \in 0 .. Prompts
               /\ live[t] \cup late[t] \cup known[t] \subseteq 1 .. prompts[t]
               /\ asking[t] \subseteq known[t]
    <3>1. asked[t] \in Seq(Requests) /\ told[t] \in Seq(Requests)
      BY DEF Inv, Shape
    <3>2. ToSet(asked[t]) \subseteq Requests /\ ToSet(told[t]) \subseteq Requests
      BY <3>1, ElementOfSeq, LenProperties DEF ToSet
    <3>. QED
      BY <3>2 DEF Inv, TermInv, Bounds
  <2>. QED
    BY <2>1, <2>2 DEF Inv, Shape, Globals, TypeOK
<1>. QED
  BY <1>1, InvHolds, PTL

\* However many terminals share a Core, whatever they are asked and in whatever
\* order its answers arrive: once a sidecar has ended, no claim of its is live
\* but those its end may overlook.
THEOREM EndReleasesClaims == Spec => []OnlyLateClaimsSurvive
<1>1. Inv => OnlyLateClaimsSurvive
  BY DEF Inv, TermInv, GoneInv, OnlyLateClaimsSurvive
<1>. QED
  BY <1>1, InvHolds, PTL
=============================================================================
