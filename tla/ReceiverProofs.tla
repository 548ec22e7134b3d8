--------------------------- MODULE ReceiverProofs ---------------------------
(***************************************************************************)
(* Theorems about Receiver: type correctness, that no terminal report      *)
(* vanishes, and that a cache of nonces used by one goroutine is an exact  *)
(* window.                                                                 *)
(***************************************************************************)
EXTENDS Receiver, SequenceTheorems, WellFoundedInduction, TLAPS

(* Facts about sequences and minima. *)

\* A non-empty set of naturals has a least element, which is its Min.
LEMMA NatMin ==
  ASSUME NEW S \in SUBSET Nat, S # {}
  PROVE  /\ Min(S) \in S
         /\ \A k \in S : Min(S) <= k
<1> DEFINE Less == OpToRel(<, Nat)
<1>1. IsWellFoundedOn(Less, Nat)
  BY NatLessThanWellFounded, Zenon
<1>2. \A x, y \in Nat : <<x, y>> \in Less <=> x < y
  BY DEF OpToRel
<1> HIDE DEF Less
<1>3. PICK m \in S : \A y \in S : ~ (<<y, m>> \in Less)
  BY <1>1, WFMin, Zenon
<1>4. \A y \in S : m <= y
  <2> TAKE y \in S
  <2>1. y \in Nat /\ m \in Nat
    OBVIOUS
  <2>2. ~ (y < m)
    BY <1>2, <1>3, <2>1, Zenon
  <2> QED BY <2>1, <2>2
<1> QED BY <1>3, <1>4, Zenon DEF Min

\* Appending adds exactly the appended element to the range.
LEMMA RangeAppend ==
  ASSUME NEW S, NEW s \in Seq(S), NEW e \in S
  PROVE  Range(Append(s, e)) = Range(s) \cup {e}
<1>1. <<e>> \in Seq(S) /\ Range(<<e>>) = {e}
  BY DEF Range
<1>2. Append(s, e) = s \o <<e>>
  BY AppendIsConcat
<1>3. Range(s \o <<e>>) = Range(s) \cup Range(<<e>>)
  <2> HIDE DEF Range
  <2> QED BY <1>1, RangeConcatenation, ZenonT(60)
<1> QED BY <1>1, <1>2, <1>3, Zenon

\* The two parts of a cut sequence, put together again.
LEMMA CutConcat ==
  ASSUME NEW S, NEW s \in Seq(S), NEW n \in 0..Len(s)
  PROVE  s = SubSeq(s, 1, n) \o SubSeq(s, n + 1, Len(s))
<1>1. SubSeq(s, 1, n) \o SubSeq(s, n + 1, Len(s)) = SubSeq(s, 1, Len(s))
  <2>1. /\ 1 \in 1..Len(s)+1
        /\ n \in 1-1..Len(s)
        /\ Len(s) \in n..Len(s)
    BY LenProperties
  <2> QED BY <2>1, ConcatAdjacentSubSeq, Zenon
<1> QED BY <1>1, SubSeqFull, Zenon

\* Cutting a sequence in two loses and adds nothing.
LEMMA RangeCut ==
  ASSUME NEW S, NEW s \in Seq(S), NEW n \in 0..Len(s)
  PROVE  /\ SubSeq(s, 1, n) \in Seq(S)
         /\ SubSeq(s, n + 1, Len(s)) \in Seq(S)
         /\ Len(SubSeq(s, 1, n)) = n
         /\ Range(s) = Range(SubSeq(s, 1, n)) \cup Range(SubSeq(s, n + 1, Len(s)))
<1>1. Len(s) \in Nat /\ \A i \in 1..Len(s) : s[i] \in S
  BY LenProperties, ElementOfSeq
<1>2. /\ SubSeq(s, 1, n) \in Seq(S)
      /\ Len(SubSeq(s, 1, n)) = n
  <2>1. 1 \in Int /\ n \in Int /\ \A i \in 1..n : s[i] \in S
    BY <1>1
  <2> QED BY <2>1, <1>1, SubSeqProperties
<1>3. SubSeq(s, n + 1, Len(s)) \in Seq(S)
  <2>1. n + 1 \in Int /\ Len(s) \in Int /\ \A i \in (n + 1)..Len(s) : s[i] \in S
    BY <1>1
  <2> QED BY <2>1, SubSeqProperties
<1>4. s = SubSeq(s, 1, n) \o SubSeq(s, n + 1, Len(s))
  BY CutConcat, Zenon
<1>5. Range(s) = Range(SubSeq(s, 1, n)) \cup Range(SubSeq(s, n + 1, Len(s)))
  BY <1>2, <1>3, <1>4, RangeConcatenation, ZenonT(60)
<1> QED BY <1>2, <1>3, <1>5, Zenon

-----------------------------------------------------------------------------

\* The head and the tail of a non-empty sequence.
LEMMA HeadTail ==
  ASSUME NEW S, NEW s \in Seq(S), Len(s) > 0
  PROVE  /\ Head(s) \in S /\ Tail(s) \in Seq(S)
         /\ Len(Tail(s)) = Len(s) - 1
         /\ \A i \in 1..Len(s) - 1 : Tail(s)[i] = s[i + 1]
         /\ Head(s) = s[1]
         /\ Range(s) = {Head(s)} \cup Range(Tail(s))
<1>1. /\ Head(s) \in S /\ Tail(s) \in Seq(S) /\ Len(Tail(s)) = Len(s) - 1
      /\ Head(s) = s[1] /\ Len(s) \in Nat
      /\ \A i \in 1..Len(s) - 1 : Tail(s)[i] = s[i + 1]
  OBVIOUS
<1>2. ASSUME NEW i \in 1..Len(s)
      PROVE  s[i] = Head(s) \/ \E j \in 1..Len(Tail(s)) : s[i] = Tail(s)[j]
  <2>1. CASE i = 1
    BY <1>1, <2>1
  <2>2. CASE i > 1
    <3>1. i - 1 \in 1..Len(s) - 1 /\ s[i] = Tail(s)[i - 1]
      BY <1>1, <2>2
    <3> QED BY <1>1, <3>1
  <2> QED BY <1>1, <2>1, <2>2
<1>3. Range(s) \subseteq {Head(s)} \cup Range(Tail(s))
  <2>1. DOMAIN s = 1..Len(s) /\ DOMAIN Tail(s) = 1..Len(Tail(s))
    BY <1>1
  <2> QED BY <1>2, <2>1, Zenon DEF Range
<1>4. {Head(s)} \cup Range(Tail(s)) \subseteq Range(s)
  <2>1. DOMAIN s = 1..Len(s) /\ DOMAIN Tail(s) = 1..Len(s) - 1
    BY <1>1
  <2>2. \A i \in 1..Len(s) - 1 : i + 1 \in 1..Len(s)
    BY <1>1
  <2>3. 1 \in 1..Len(s)
    BY <1>1
  <2> QED BY <1>1, <2>1, <2>2, <2>3 DEF Range
<1> QED BY <1>1, <1>3, <1>4

\* enqueue keeps the queue within its limit and loses nothing but what it
\* pushes out.
LEMMA EnqueuedFacts ==
  ASSUME NEW q \in Seq(Report), Len(q) <= MaxQueued, NEW rep \in Report
  PROVE  /\ Enqueued(q, rep) \in Seq(Report)
         /\ Len(Enqueued(q, rep)) <= MaxQueued
         /\ PushedOut(q) \subseteq Report
         /\ Range(q) \cup {rep} \subseteq Range(Enqueued(q, rep)) \cup PushedOut(q)
<1> MaxQueued \in Nat \ {0} /\ Len(q) \in Nat
  BY ReceiverAssumption
<1>1. CASE Len(q) >= MaxQueued
  <2>1. /\ Tail(q) \in Seq(Report) /\ Head(q) \in Report
        /\ Len(Tail(q)) = Len(q) - 1
        /\ Range(q) = {Head(q)} \cup Range(Tail(q))
    BY <1>1, HeadTail
  <2>2. /\ Enqueued(q, rep) = Append(Tail(q), rep)
        /\ PushedOut(q) = {Head(q)}
    BY <1>1 DEF Enqueued, PushedOut
  <2>3. Range(Append(Tail(q), rep)) = Range(Tail(q)) \cup {rep}
    <3>1. \A s \in Seq(Report) : Range(Append(s, rep)) = Range(s) \cup {rep}
      BY RangeAppend
    <3> HIDE DEF Range
    <3> QED BY <2>1, <3>1, Zenon
  <2>4. /\ Append(Tail(q), rep) \in Seq(Report)
        /\ Len(Append(Tail(q), rep)) = Len(q)
    BY <2>1
  <2> HIDE DEF Range
  <2> QED BY <2>1, <2>2, <2>3, <2>4
<1>2. CASE ~(Len(q) >= MaxQueued)
  <2>1. Enqueued(q, rep) = Append(q, rep) /\ PushedOut(q) = {}
    BY <1>2 DEF Enqueued, PushedOut
  <2>2. Range(Append(q, rep)) = Range(q) \cup {rep}
    BY RangeAppend
  <2>3. /\ Append(q, rep) \in Seq(Report)
        /\ Len(Append(q, rep)) = Len(q) + 1
    OBVIOUS
  <2> HIDE DEF Range
  <2> QED BY <1>2, <2>1, <2>2, <2>3
<1> QED BY <1>1, <1>2

\* clearSent removes only reports that the request carried.
LEMMA ClearSentFacts ==
  ASSUME NEW q \in Seq(Report), NEW sent \in Seq(Report)
  PROVE  /\ ClearSent(q, sent) \in Seq(Report)
         /\ Len(ClearSent(q, sent)) <= Len(q)
         /\ Range(q) \subseteq Range(ClearSent(q, sent)) \cup Range(sent)
<1> DEFINE stop == {i \in 0..Len(q) : i = Len(q) \/ q[i + 1] \notin Range(sent)}
           n == Min(stop)
<1>1. stop \in SUBSET Nat /\ Len(q) \in stop /\ Len(q) \in Nat
  OBVIOUS
<1>2. n \in stop /\ \A k \in stop : n <= k
  <2> HIDE DEF Min, stop
  <2> QED BY <1>1, NatMin
<1>3. n \in 0..Len(q)
  BY <1>2
<1>4. ClearSent(q, sent) = SubSeq(q, n + 1, Len(q))
  BY DEF ClearSent
<1> HIDE DEF n
<1>5. /\ SubSeq(q, n + 1, Len(q)) \in Seq(Report)
      /\ SubSeq(q, 1, n) \in Seq(Report)
      /\ Len(SubSeq(q, 1, n)) = n
      /\ Range(q) = Range(SubSeq(q, 1, n)) \cup Range(SubSeq(q, n + 1, Len(q)))
  <2> HIDE DEF Range
  <2> QED BY <1>3, RangeCut
<1>6. \A i \in 1..n : q[i] \in Range(sent)
  <2> TAKE i \in 1..n
  <2>1. i - 1 \in 0..Len(q) /\ ~(n <= i - 1) /\ i - 1 # Len(q)
    BY <1>1, <1>3
  <2>2. i - 1 \notin stop
    BY <1>2, <2>1, Zenon
  <2> QED BY <2>1, <2>2
<1>7. Range(SubSeq(q, 1, n)) \subseteq Range(sent)
  <2>1. \A i \in 1..n : SubSeq(q, 1, n)[i] = q[i]
    BY <1>1, <1>3
  <2>2. DOMAIN SubSeq(q, 1, n) = 1..n
    BY <1>3, <1>5
  <2> DEFINE R == Range(sent)
  <2>3. \A i \in 1..n : SubSeq(q, 1, n)[i] \in R
    BY <1>6, <2>1, Zenon
  <2> HIDE DEF R
  <2>4. Range(SubSeq(q, 1, n)) \subseteq R
    BY <2>2, <2>3, Zenon DEF Range
  <2> QED BY <2>4 DEF R
<1>8. Len(SubSeq(q, n + 1, Len(q))) <= Len(q)
  BY <1>1, <1>3
<1> HIDE DEF Range
<1> QED BY <1>4, <1>5, <1>7, <1>8

\* An insertion keeps the type of a cache, with or without a race.
LEMMA InsertType ==
  ASSUME NEW S, NEW cache \in Cache(S), NEW key \in S, NEW cap \in Nat \ {0},
         NEW racing
  PROVE  InsertOutcomes(cache, key, cap, racing) \subseteq Cache(S)
<1>1. cache.m \in SUBSET S /\ cache.ll \in Seq(S)
  BY DEF Cache
<1> DEFINE ll == Append(cache.ll, key)
           m == cache.m \cup {key}
<1>2. /\ ll \in Seq(S) /\ Len(ll) > 0 /\ m \in SUBSET S
  BY <1>1
<1>3. Tail(ll) \in Seq(S) /\ m \ {Head(ll)} \in SUBSET S
  BY <1>2, HeadTail
<1> HIDE DEF ll, m
<1>4. Inserted(cache, key, cap) \in Cache(S)
  <2>1. Inserted(cache, key, cap) \in
          {[m |-> m \ {Head(ll)}, ll |-> Tail(ll)], [m |-> m, ll |-> ll]}
    BY Zenon DEF Inserted, ll, m
  <2>2. \A a \in SUBSET S, b \in Seq(S) : [m |-> a, ll |-> b] \in Cache(S)
    BY DEF Cache
  <2> QED BY <1>2, <1>3, <2>1, <2>2, Zenon
<1>5. [cache EXCEPT !.m = @ \cup {key}] \in Cache(S)
  BY <1>1, <1>2 DEF Cache, m
<1> QED BY <1>4, <1>5 DEF InsertOutcomes

\* What deliverReport leaves behind.
LEMMA DeliverReportType ==
  ASSUME TypeOK, NEW cmd \in Cmd, NEW status \in Status,
         DeliverReport(cmd, status)
  PROVE  /\ queue' \in Seq(Report) /\ Len(queue') <= MaxQueued
         /\ wire' \subseteq Report /\ terminals' \subseteq Report
         /\ dropped' \subseteq Report
         /\ made' \in Nat /\ wsFaults' \in Nat
<1> DEFINE rep == [cmd |-> cmd, status |-> status, n |-> made + 1]
<1>1. rep \in Report /\ made' \in Nat
  BY DEF TypeOK, Report, DeliverReport
<1>2. terminals' \subseteq terminals \cup {rep} /\ wire' \subseteq wire \cup {rep}
  BY Zenon DEF DeliverReport, TerminalOf
<1>3. \/ queue' = queue /\ dropped' = dropped
      \/ /\ queue' = Enqueued(queue, rep)
         /\ dropped' = dropped \cup TerminalOf(PushedOut(queue))
  BY Zenon DEF DeliverReport
<1>4. wsFaults' \in Nat
  <2>1. UNCHANGED wsFaults \/ WsFault
    BY Zenon DEF DeliverReport
  <2> QED BY <2>1 DEF WsFault, TypeOK
<1> HIDE DEF rep
<1>5. /\ queue' \in Seq(Report) /\ Len(queue') <= MaxQueued
      /\ dropped' \subseteq Report
  <2>1. TerminalOf(PushedOut(queue)) \subseteq PushedOut(queue)
    BY DEF TerminalOf
  <2> QED BY <1>1, <1>3, <2>1, EnqueuedFacts DEF TypeOK
<1> QED BY <1>1, <1>2, <1>4, <1>5 DEF TypeOK

\* A handler goes from one phase to another.
LEMMA PhaseMoves ==
  ASSUME NEW f \in [Phase -> Nat], NEW a \in Phase, NEW b \in Phase, a # b, f[a] > 0
  PROVE  [f EXCEPT ![a] = @ - 1, ![b] = @ + 1] \in [Phase -> Nat]
<1>1. f[a] - 1 \in Nat /\ f[b] + 1 \in Nat
  OBVIOUS
<1>2. [f EXCEPT ![a] = f[a] - 1] \in [Phase -> Nat]
  BY <1>1, Zenon
<1>3. [f EXCEPT ![a] = f[a] - 1, ![b] = f[b] + 1] \in [Phase -> Nat]
  BY <1>1, <1>2, Zenon
<1> QED BY <1>3

\* A receiver just built by New is well typed.
LEMMA TypeInit == Init => TypeOK
<1> SUFFICES ASSUME Init PROVE TypeOK
  OBVIOUS
<1>1. polling \in BOOLEAN /\ connected \in BOOLEAN
  BY Zenon DEF Init
<1>2. MaxQueued \in Nat
  BY ReceiverAssumption
<1>3. ids \in Cache(Cmd) /\ nonces \in Cache(Range(Nonce))
  <2> HIDE DEF Range
  <2> QED BY DEF Init, EmptyCache, Cache
<1>4. handlers \in [Cmd -> [Phase -> Nat]]
  BY DEF Init
<1>5. /\ req \in Seq(Report) /\ todo \in Seq(Cmd)
      /\ queue \in Seq(Report) /\ Len(queue) <= MaxQueued
      /\ accepted \in Seq(Range(Nonce))
  <2> HIDE DEF Range
  <2> QED BY <1>2 DEF Init
<1> QED BY <1>1, <1>3, <1>4, <1>5 DEF Init, TypeOK, Place

\* The cache that a new process starts with.
LEMMA EmptyCacheType == ASSUME NEW S PROVE EmptyCache \in Cache(S)
  BY DEF EmptyCache, Cache

\* The fields of a cache.
LEMMA CacheFields ==
    \A r, a, b : r = [m |-> a, ll |-> b] => r.m = a /\ r.ll = b
  OBVIOUS

\* A sequence without elements.
LEMMA EmptySequence == /\ Len(<< >>) = 0 /\ DOMAIN << >> = {}
                       /\ Range(<< >>) = {}
  BY DEF Range

\* Every step preserves the types, the limit of the queue included.
LEMMA TypeNext == TypeOK /\ [Next]_vars => TypeOK'
<1> SUFFICES ASSUME TypeOK, [Next]_vars PROVE TypeOK'
  OBVIOUS
<1> USE DEF TypeOK
<1>1. ASSUME NEW c \in Channels, NEW place \in Place \ {"idle"}, arg[c] \in Cmd,
             GoTo(c, place)
      PROVE  /\ at' \in [Channels -> Place] /\ arg' \in [Channels -> Cmd \cup {NoCmd}]
             /\ \A d \in Channels : at'[d] # "idle" => arg'[d] \in Cmd
  BY <1>1 DEF GoTo
<1>2. ASSUME NEW c \in Channels, Return(c)
      PROVE  /\ at' \in [Channels -> Place] /\ arg' \in [Channels -> Cmd \cup {NoCmd}]
             /\ \A d \in Channels : at'[d] # "idle" => arg'[d] \in Cmd
  BY <1>2 DEF Return, Place
<1>3. ASSUME NEW c \in Channels, NEW cmd \in Cmd, Call(c, cmd)
      PROVE  /\ at' \in [Channels -> Place] /\ arg' \in [Channels -> Cmd \cup {NoCmd}]
             /\ \A d \in Channels : at'[d] # "idle" => arg'[d] \in Cmd
  BY <1>3 DEF Call, Place
<1>4. ASSUME NEW c, LookupID(c) PROVE TypeOK'
  <2>1. c \in Channels /\ arg[c] \in Cmd
    BY <1>4, Zenon DEF LookupID, At
  <2>2. Return(c) \/ GoTo(c, "insertID")
    BY <1>4 DEF LookupID
  <2>3. /\ at' \in [Channels -> Place] /\ arg' \in [Channels -> Cmd \cup {NoCmd}]
        /\ \A d \in Channels : at'[d] # "idle" => arg'[d] \in Cmd
    BY <1>1, <1>2, <2>1, <2>2 DEF Place
  <2> QED BY <1>4, <2>3, Zenon DEF LookupID, cacheVars, pollVars, reportVars, serverVars,
                            execVars, faultVars
<1>5. ASSUME NEW c, InsertID(c) PROVE TypeOK'
  <2>1. c \in Channels /\ arg[c] \in Cmd
    BY <1>5 DEF InsertID, At
  <2>2. /\ at' \in [Channels -> Place] /\ arg' \in [Channels -> Cmd \cup {NoCmd}]
        /\ \A d \in Channels : at'[d] # "idle" => arg'[d] \in Cmd
    BY <1>1, <1>5, <2>1 DEF InsertID, Place
  <2>3. ids' \in Cache(Cmd)
    <3>1. MaxIDs \in Nat \ {0}
      BY ReceiverAssumption
    <3>2. InsertOutcomes(ids, arg[c], MaxIDs, Racing(c, "insertID")) \subseteq Cache(Cmd)
      BY <2>1, <3>1, InsertType
    <3> QED BY <1>5, <3>2 DEF InsertID
  <2> QED BY <1>5, <2>2, <2>3 DEF InsertID, pollVars, reportVars, serverVars,
                                  execVars, faultVars
<1>6. ASSUME NEW c, Validate(c) PROVE TypeOK'
  <2>1. c \in Channels /\ arg[c] \in Cmd
    BY <1>6 DEF Validate, At
  <2>2. /\ at' \in [Channels -> Place] /\ arg' \in [Channels -> Cmd \cup {NoCmd}]
        /\ \A d \in Channels : at'[d] # "idle" => arg'[d] \in Cmd
    <3>1. Return(c) \/ GoTo(c, "insertNonce")
      BY <1>6 DEF Validate
    <3> QED BY <1>1, <1>2, <2>1, <3>1 DEF Place
  <2>3. /\ queue' \in Seq(Report) /\ Len(queue') <= MaxQueued
        /\ wire' \subseteq Report /\ terminals' \subseteq Report
        /\ dropped' \subseteq Report
        /\ made' \in Nat /\ wsFaults' \in Nat
    <3>1. DeliverReport(arg[c], "refused") \/ UNCHANGED <<reportVars, wsFaults>>
      BY <1>6 DEF Validate
    <3>2. CASE DeliverReport(arg[c], "refused")
      BY <2>1, <3>2, DeliverReportType DEF Status, Terminal
    <3>3. CASE UNCHANGED <<reportVars, wsFaults>>
      BY <3>3 DEF reportVars
    <3> QED BY <3>1, <3>2, <3>3
  <2> QED BY <1>6, <2>2, <2>3, Zenon DEF Validate, cacheVars, pollVars, serverVars, execVars
<1>7. ASSUME NEW c, InsertNonce(c) PROVE TypeOK'
  <2>1. c \in Channels /\ arg[c] \in Cmd
    BY <1>7, Zenon DEF InsertNonce, At
  <2>2. /\ at' \in [Channels -> Place] /\ arg' \in [Channels -> Cmd \cup {NoCmd}]
        /\ \A d \in Channels : at'[d] # "idle" => arg'[d] \in Cmd
    BY <1>1, <1>7, <2>1, Zenon DEF InsertNonce, Place
  <2>3. Nonce[arg[c]] \in Range(Nonce)
    BY <2>1, NonceAssumption, Zenon DEF Range
  <2> HIDE DEF Range
  <2>4. nonces' \in Cache(Range(Nonce))
    <3>1. MaxNonces \in Nat \ {0}
      BY ReceiverAssumption
    <3>2. InsertOutcomes(nonces, Nonce[arg[c]], MaxNonces, Racing(c, "insertNonce"))
            \subseteq Cache(Range(Nonce))
      BY <2>3, <3>1, InsertType
    <3> QED BY <1>7, <3>2, Zenon DEF InsertNonce
  <2>5. accepted' \in Seq(Range(Nonce))
    BY <1>7, <2>3, SMTT(60) DEF InsertNonce
  <2> QED BY <1>7, <2>2, <2>4, <2>5, Zenon DEF InsertNonce, pollVars, reportVars,
                                        serverVars, faultVars
<1>8. ASSUME NEW c, Dispatch(c) PROVE TypeOK'
  <2>1. c \in Channels /\ arg[c] \in Cmd
    BY <1>8 DEF Dispatch, At
  <2>2. /\ at' \in [Channels -> Place] /\ arg' \in [Channels -> Cmd \cup {NoCmd}]
        /\ \A d \in Channels : at'[d] # "idle" => arg'[d] \in Cmd
    BY <1>2, <1>8, <2>1 DEF Dispatch
  <2>3. /\ queue' \in Seq(Report) /\ Len(queue') <= MaxQueued
        /\ wire' \subseteq Report /\ terminals' \subseteq Report
        /\ dropped' \subseteq Report
        /\ made' \in Nat /\ wsFaults' \in Nat
    BY <1>8, <2>1, DeliverReportType, Zenon DEF Dispatch, Status
  <2>4. handlers' \in [Cmd -> [Phase -> Nat]] /\ executions' \in [Cmd -> Nat]
    BY <1>8, <2>1, SMTT(60) DEF Dispatch, Phase
  <2> QED BY <1>8, <2>2, <2>3, <2>4, Zenon DEF Dispatch, cacheVars, pollVars, serverVars
<1>9. CASE PollBegin
  <2>1. polling' \in BOOLEAN
    BY <1>9, Zenon DEF PollBegin
  <2> QED BY <1>9, <2>1 DEF PollBegin, Snapshot, cacheVars, threadVars, reportVars, serverVars,
                            execVars, faultVars
<1>10. ASSUME NEW commands, HandOut(commands), Len(commands) \in Nat
       PROVE  handedOut' \in Nat
  BY <1>10 DEF HandOut
<1>11. ASSUME NEW reports \in SUBSET Report, Accept(reports)
       PROVE  received' \subseteq Report
  BY <1>11 DEF Accept, TerminalOf
<1>12. Range(req) \in SUBSET Report
  BY ElementOfSeq DEF Range
<1>13. ASSUME NEW ok \in BOOLEAN, NEW commands \in Responses, PollAnswer(ok, commands)
       PROVE  TypeOK'
  <2>1. polling' \in BOOLEAN
    BY <1>13, Zenon DEF PollAnswer
  <2>2. todo' \in Seq(Cmd) /\ handedOut' \in Nat
    BY <1>10, <1>13, ReceiverAssumption DEF PollAnswer
  <2>3. CASE ok
    <3>1. received' \subseteq Report
      BY <1>11, <1>12, <1>13, <2>3, Zenon DEF PollAnswer
    <3>2. /\ queue' \in Seq(Report) /\ Len(queue') <= MaxQueued
      <4>1. queue' = ClearSent(queue, req)
        BY <1>13, <2>3 DEF PollAnswer
      <4>2. MaxQueued \in Nat
        BY ReceiverAssumption
      <4> QED BY <4>1, <4>2, ClearSentFacts
    <3>3. pollFaults' \in Nat
      BY <1>13, <2>3 DEF PollAnswer
    <3> QED BY <1>13, <2>1, <2>2, <3>1, <3>2, <3>3, SMTT(60)
            DEF PollAnswer, cacheVars, threadVars, execVars
  <2>4. CASE ~ok
    <3>1. pollFaults' \in Nat /\ UNCHANGED <<received, queue>>
      BY <1>13, <2>4 DEF PollAnswer
    <3> QED BY <1>13, <2>1, <2>2, <3>1, SMTT(60) DEF PollAnswer, cacheVars, threadVars, execVars
  <2> QED BY <2>3, <2>4, Zenon
<1>14. ASSUME NEW commands \in Responses, PollErr(commands) PROVE TypeOK'
  <2>1. polling' \in BOOLEAN
    BY <1>14, Zenon DEF PollErr
  <2>2. handedOut' \in Nat /\ received' \subseteq Report
    <3>1. UNCHANGED serverVars \/ (HandOut(commands) /\ Accept(Range(req)))
      BY <1>14 DEF PollErr
    <3>2. Len(commands) \in Nat
      BY ReceiverAssumption
    <3>3. CASE UNCHANGED serverVars
      BY <3>3 DEF serverVars
    <3>4. CASE HandOut(commands) /\ Accept(Range(req))
      BY <1>10, <1>11, <1>12, <3>2, <3>4, Zenon
    <3> QED BY <3>1, <3>3, <3>4
  <2> QED BY <1>14, <2>1, <2>2, SMTT(60) DEF PollErr, cacheVars, threadVars, reportVars, execVars
<1>15. CASE PollProcess
  <2>1. Head(todo) \in Cmd /\ todo' \in Seq(Cmd) /\ "poll" \in Channels
    BY <1>15 DEF PollProcess, At
  <2>2. /\ at' \in [Channels -> Place] /\ arg' \in [Channels -> Cmd \cup {NoCmd}]
        /\ \A d \in Channels : at'[d] # "idle" => arg'[d] \in Cmd
    BY <1>3, <1>15, <2>1, Zenon DEF PollProcess
  <2> QED BY <1>15, <2>1, <2>2, Zenon DEF PollProcess, cacheVars, reportVars, serverVars,
                                   execVars, faultVars
<1>16. CASE WsConnect
  <2>1. connected' \in BOOLEAN
    BY <1>16, Zenon DEF WsConnect
  <2> QED BY <1>16, <2>1 DEF WsConnect, cacheVars, threadVars, pollVars, reportVars,
                             serverVars, execVars, faultVars
<1>17. CASE WsDrop
  <2>1. connected' \in BOOLEAN
    BY <1>17, Zenon DEF WsDrop
  <2> QED BY <1>17, <2>1 DEF WsDrop, WsFault, cacheVars, threadVars, pollVars,
                             serverVars, execVars
<1>18. ASSUME NEW cmd \in Cmd, WsPush(cmd) PROVE TypeOK'
  <2>1. "ws" \in Channels /\ handedOut' \in Nat
    BY <1>10, <1>18 DEF WsPush, At
  <2>2. /\ at' \in [Channels -> Place] /\ arg' \in [Channels -> Cmd \cup {NoCmd}]
        /\ \A d \in Channels : at'[d] # "idle" => arg'[d] \in Cmd
    BY <1>3, <1>18, <2>1, Zenon DEF WsPush
  <2> QED BY <1>18, <2>1, <2>2, Zenon DEF WsPush, cacheVars, pollVars, reportVars, execVars,
                                   faultVars
<1>19. ASSUME NEW rep \in wire, WsArrive(rep) PROVE TypeOK'
  <2>1. received' \subseteq Report
    BY <1>11, <1>19, Zenon DEF WsArrive
  <2> QED BY <1>19, <2>1, Zenon DEF WsArrive, cacheVars, threadVars, pollVars, execVars,
                             faultVars
<1>20. ASSUME NEW rep \in wire, WsLose(rep) PROVE TypeOK'
  BY <1>20, SMTT(60) DEF WsLose, WsFault, cacheVars, threadVars, pollVars, serverVars, execVars
<1>21. ASSUME NEW cmd \in Cmd, HandlerValidates(cmd) PROVE TypeOK'
  <2>1. /\ queue' \in Seq(Report) /\ Len(queue') <= MaxQueued
        /\ wire' \subseteq Report /\ terminals' \subseteq Report
        /\ dropped' \subseteq Report
        /\ made' \in Nat /\ wsFaults' \in Nat
    BY <1>21, DeliverReportType, Zenon DEF HandlerValidates, Status
  <2>2. handlers' \in [Cmd -> [Phase -> Nat]]
    <3>1. handlers[cmd] \in [Phase -> Nat] /\ handlers[cmd]["started"] > 0
      BY <1>21 DEF HandlerValidates, Phase
    <3>2. [handlers[cmd] EXCEPT !["started"] = @ - 1, !["running"] = @ + 1] \in [Phase -> Nat]
      <4>1. "started" \in Phase /\ "running" \in Phase /\ "started" # "running"
        BY DEF Phase
      <4> QED BY <3>1, <4>1, PhaseMoves, Zenon
    <3>3. handlers' = [handlers EXCEPT ![cmd] =
                          [handlers[cmd] EXCEPT !["started"] = @ - 1, !["running"] = @ + 1]]
      BY <1>21 DEF HandlerValidates
    <3> QED BY <3>2, <3>3
  <2> QED BY <1>21, <2>1, <2>2, Zenon DEF HandlerValidates, cacheVars, threadVars, pollVars,
                                   serverVars
<1>22. ASSUME NEW cmd \in Cmd, HandlerFinishes(cmd) PROVE TypeOK'
  <2>1. /\ queue' \in Seq(Report) /\ Len(queue') <= MaxQueued
        /\ wire' \subseteq Report /\ terminals' \subseteq Report
        /\ dropped' \subseteq Report
        /\ made' \in Nat /\ wsFaults' \in Nat
    BY <1>22, DeliverReportType, Zenon DEF HandlerFinishes, Status, Terminal
  <2>2. handlers' \in [Cmd -> [Phase -> Nat]]
    BY <1>22 DEF HandlerFinishes, Phase
  <2> QED BY <1>22, <2>1, <2>2, Zenon DEF HandlerFinishes, cacheVars, threadVars, pollVars,
                                   serverVars
<1>22a. ASSUME NEW cmd \in Cmd, HandlerStalls(cmd) PROVE TypeOK'
  <2>1. /\ queue' \in Seq(Report) /\ Len(queue') <= MaxQueued
        /\ wire' \subseteq Report /\ terminals' \subseteq Report
        /\ dropped' \subseteq Report
        /\ made' \in Nat /\ wsFaults' \in Nat
    BY <1>22a, DeliverReportType, Zenon DEF HandlerStalls, Status
  <2>2. handlers' \in [Cmd -> [Phase -> Nat]]
    <3>1. handlers[cmd] \in [Phase -> Nat] /\ handlers[cmd]["running"] > 0
      BY <1>22a DEF HandlerStalls, Phase
    <3>2. [handlers[cmd] EXCEPT !["running"] = @ - 1, !["stalled"] = @ + 1] \in [Phase -> Nat]
      <4>1. "running" \in Phase /\ "stalled" \in Phase /\ "running" # "stalled"
        BY DEF Phase
      <4> QED BY <3>1, <4>1, PhaseMoves, Zenon
    <3>3. handlers' = [handlers EXCEPT ![cmd] =
                          [handlers[cmd] EXCEPT !["running"] = @ - 1, !["stalled"] = @ + 1]]
      BY <1>22a DEF HandlerStalls
    <3> QED BY <3>2, <3>3
  <2> QED BY <1>22a, <2>1, <2>2, Zenon DEF HandlerStalls, cacheVars, threadVars, pollVars,
                                   serverVars
<1>23. ASSUME NEW cmd \in Cmd, Expire(cmd) PROVE TypeOK'
  BY <1>23, Zenon DEF Expire, cacheVars, threadVars, pollVars, reportVars, serverVars,
               execVars, faultVars
<1>24. CASE Restart
  <2>1. polling' \in BOOLEAN /\ connected' \in BOOLEAN
    BY <1>24, Zenon DEF Restart
  <2>2. ids' \in Cache(Cmd) /\ nonces' \in Cache(Range(Nonce))
    BY <1>24, EmptyCacheType, Zenon DEF Restart
  <2>3. MaxQueued \in Nat
    BY ReceiverAssumption
  <2>4. /\ req' \in Seq(Report) /\ todo' \in Seq(Cmd)
        /\ queue' \in Seq(Report) /\ Len(queue') <= MaxQueued
        /\ accepted' \in Seq(Range(Nonce))
    <3> HIDE DEF Range
    <3> QED BY <1>24, <2>3 DEF Restart
  <2>5. /\ at' \in [Channels -> Place] /\ arg' \in [Channels -> Cmd \cup {NoCmd}]
        /\ \A d \in Channels : at'[d] # "idle" => arg'[d] \in Cmd
        /\ handlers' \in [Cmd -> [Phase -> Nat]]
    BY <1>24 DEF Restart, Place
  <2>6. /\ wire' \subseteq Report /\ stale' \subseteq Cmd /\ received' \subseteq Report
        /\ terminals' \subseteq Report /\ dropped' \subseteq Report
    BY <1>24, Zenon DEF Restart, serverVars
  <2>7. /\ handedOut' = handedOut /\ executions' = executions /\ made' = made
        /\ pollFaults' = pollFaults /\ wsFaults' = wsFaults /\ restarts' = restarts + 1
    BY <1>24, Zenon DEF Restart, serverVars
  <2>8. restarts + 1 \in Nat
    OBVIOUS
  <2> QED BY <2>1, <2>2, <2>4, <2>5, <2>6, <2>7, <2>8, Zenon
<1>25. CASE UNCHANGED vars
  BY <1>25 DEF vars, cacheVars, threadVars, pollVars, reportVars, serverVars,
               execVars, faultVars
<1> QED
  BY <1>4, <1>5, <1>6, <1>7, <1>8, <1>9, <1>13, <1>14, <1>15, <1>16, <1>17, <1>18,
     <1>19, <1>20, <1>21, <1>22, <1>23, <1>24, <1>25, <1>22a, Zenon
  DEF Next, PollStep, WsStep, HandlerStep, Handle, Process

\* The receiver's state has its types in every behaviour; in particular the
\* queue of reports never exceeds maxQueuedReports.
THEOREM TypeCorrect == Spec => []TypeOK
<1> QED BY TypeInit, TypeNext, PTL DEF Spec

-----------------------------------------------------------------------------
(* No terminal report vanishes.                                            *)

\* The inductive form of TerminalKept.
KeptInv ==
    /\ TerminalKept
    /\ \A rep \in terminals : rep.status \in Terminal

\* A report that is delivered is queued if it is terminal, and what the queue
\* pushes out is remembered as dropped if it is terminal.
LEMMA DeliverReportKeeps ==
  ASSUME TypeOK, KeptInv, NEW cmd \in Cmd, NEW status \in Status,
         DeliverReport(cmd, status), UNCHANGED received
  PROVE  KeptInv'
<1> DEFINE rep == [cmd |-> cmd, status |-> status, n |-> made + 1]
<1>1. rep \in Report /\ rep.status = status
  BY DEF TypeOK, Report
<1>2. \/ queue' = queue /\ dropped' = dropped /\ terminals' = terminals
      \/ /\ queue' = Enqueued(queue, rep)
         /\ dropped' = dropped \cup TerminalOf(PushedOut(queue))
         /\ terminals' = terminals \cup (IF status \in Terminal THEN {rep} ELSE {})
  BY Zenon DEF DeliverReport, Queued
<1> HIDE DEF rep
<1>3. CASE queue' = queue /\ dropped' = dropped /\ terminals' = terminals
  BY <1>3 DEF KeptInv, TerminalKept
<1>4. CASE /\ queue' = Enqueued(queue, rep)
           /\ dropped' = dropped \cup TerminalOf(PushedOut(queue))
           /\ terminals' = terminals \cup (IF status \in Terminal THEN {rep} ELSE {})
  <2>1. Range(queue) \cup {rep} \subseteq Range(Enqueued(queue, rep)) \cup PushedOut(queue)
    BY <1>1, EnqueuedFacts DEF TypeOK
  <2>2. terminals' \subseteq terminals \cup {rep}
    BY <1>4
  <2>3. \A r \in terminals' : r.status \in Terminal
    BY <1>1, <1>4 DEF KeptInv
  <2> HIDE DEF Range
  <2>4. terminals' \subseteq Range(queue') \cup received' \cup dropped'
    BY <1>4, <2>1, <2>2, <2>3 DEF KeptInv, TerminalKept, TerminalOf
  <2> QED BY <2>3, <2>4 DEF KeptInv, TerminalKept
<1> QED BY <1>2, <1>3, <1>4

\* A report leaves the queue only by enqueue pushing it out or by clearSent
\* after the control plane accepted the request that carried it.
LEMMA KeptNext == TypeOK /\ KeptInv /\ [Next]_vars => KeptInv'
<1> SUFFICES ASSUME TypeOK, KeptInv, [Next]_vars PROVE KeptInv'
  OBVIOUS
<1>1. CASE /\ UNCHANGED <<queue, dropped, terminals>>
           /\ received \subseteq received'
  <2> HIDE DEF Range
  <2> QED BY <1>1 DEF KeptInv, TerminalKept
<1>2. ASSUME NEW c, Process(c) PROVE KeptInv'
  <2>1. c \in Channels /\ at[c] # "idle"
    BY <1>2, Zenon DEF Process, LookupID, InsertID, Validate, InsertNonce, Dispatch, At
  <2>2. arg[c] \in Cmd
    BY <2>1 DEF TypeOK
  <2>3. CASE LookupID(c) \/ InsertID(c) \/ InsertNonce(c)
    BY <1>1, <2>3, Zenon DEF LookupID, InsertID, InsertNonce, reportVars, serverVars
  <2>4. CASE Validate(c)
    <3>1. CASE DeliverReport(arg[c], "refused")
      BY <2>2, <2>4, <3>1, DeliverReportKeeps DEF Validate, serverVars, Status, Terminal
    <3>2. CASE UNCHANGED <<reportVars, wsFaults>>
      BY <1>1, <2>4, <3>2 DEF Validate, reportVars, serverVars
    <3> QED BY <2>4, <3>1, <3>2 DEF Validate
  <2>5. CASE Dispatch(c)
    BY <2>2, <2>5, DeliverReportKeeps DEF Dispatch, serverVars, Status
  <2> QED BY <1>2, <2>3, <2>4, <2>5 DEF Process
<1>3. CASE PollBegin \/ PollProcess
  BY <1>1, <1>3 DEF PollBegin, Snapshot, PollProcess, reportVars, serverVars
<1>4. ASSUME NEW ok \in BOOLEAN, NEW commands \in Responses, PollAnswer(ok, commands)
      PROVE  KeptInv'
  <2>1. CASE ok
    <3>1. /\ queue' = ClearSent(queue, req)
          /\ received' = received \cup {rep \in Range(req) : rep.status \in Terminal}
          /\ UNCHANGED <<terminals, dropped>>
      BY <1>4, <2>1 DEF PollAnswer, Accept, TerminalOf
    <3>2. Range(queue) \subseteq Range(ClearSent(queue, req)) \cup Range(req)
      BY ClearSentFacts DEF TypeOK
    <3> HIDE DEF Range
    <3> QED BY <3>1, <3>2 DEF KeptInv, TerminalKept
  <2>2. CASE ~ok
    BY <1>1, <1>4, <2>2 DEF PollAnswer
  <2> QED BY <2>1, <2>2
<1>5. ASSUME NEW commands, PollErr(commands) PROVE KeptInv'
  BY <1>1, <1>5 DEF PollErr, Accept, reportVars, serverVars
<1>6. CASE WsConnect \/ WsDrop \/ \E cmd \in Cmd : WsPush(cmd) \/ Expire(cmd)
  BY <1>1, <1>6, Zenon DEF WsConnect, WsDrop, WsPush, Expire, reportVars, serverVars
<1>7. ASSUME NEW rep \in wire, WsArrive(rep) \/ WsLose(rep) PROVE KeptInv'
  BY <1>1, <1>7 DEF WsArrive, WsLose, Accept, serverVars
<1>8. ASSUME NEW cmd \in Cmd, Handle(cmd) PROVE KeptInv'
  BY <1>8, DeliverReportKeeps
     DEF Handle, HandlerValidates, HandlerFinishes, HandlerStalls, serverVars, Status, Terminal
<1>9. CASE Restart
  BY <1>9 DEF Restart, KeptInv, TerminalKept
<1>10. CASE UNCHANGED vars
  BY <1>1, <1>10 DEF vars, reportVars, serverVars
<1> QED
  BY <1>2, <1>3, <1>4, <1>5, <1>6, <1>7, <1>8, <1>9, <1>10
  DEF Next, PollStep, WsStep, HandlerStep

\* Terminal reports survive lost frames, failed and refused polls, and reports
\* queued or pushed out while a poll is in flight.
THEOREM TerminalsAreKept == Spec => []TerminalKept
<1>1. Init => KeptInv
  BY DEF Init, KeptInv, TerminalKept
<1> QED BY <1>1, TypeCorrect, KeptNext, PTL DEF Spec, KeptInv

-----------------------------------------------------------------------------
(* The window of nonces, when polling is the only channel.                 *)

\* The list of the cache is the end of the history of accepted nonces, its
\* map has the same elements, and a nonce about to be inserted is not in it.
WindowInv ==
    LET n == Len(nonces.ll)
        h == Len(accepted)
    IN  /\ nonces.m = Range(nonces.ll)
        /\ n <= MaxNonces /\ n <= h
        /\ n < MaxNonces => n = h
        /\ \A k \in 1..n : nonces.ll[k] = accepted[h - n + k]
        /\ At("poll", "insertNonce") => Nonce[arg["poll"]] \notin nonces.m
        /\ ReplayWindow

\* The insertion of a new nonce moves the window by one.
LEMMA WindowMoves ==
  ASSUME TypeOK, WindowInv, NEW x \in Range(Nonce), x \notin nonces.m,
         nonces' = Inserted(nonces, x, MaxNonces),
         accepted' = Append(accepted, x),
         ~At("poll", "insertNonce")'
  PROVE  WindowInv'
<1> DEFINE S == Range(Nonce)
           l == nonces.ll
           n == Len(l)
           h == Len(accepted)
           ll == Append(l, x)
           m == nonces.m \cup {x}
<1>1. MaxNonces \in Nat \ {0}
  BY ReceiverAssumption
<1>2. l \in Seq(S) /\ accepted \in Seq(S) /\ x \in S
  BY DEF TypeOK, Cache
<1>3. /\ nonces.m = Range(l)
      /\ n <= MaxNonces /\ n <= h /\ (n < MaxNonces => n = h)
      /\ \A k \in 1..n : l[k] = accepted[h - n + k]
      /\ ReplayWindow
  BY Zenon DEF WindowInv
<1>4. nonces' = IF Len(ll) > MaxNonces
                THEN [m |-> m \ {Head(ll)}, ll |-> Tail(ll)]
                ELSE [m |-> m, ll |-> ll]
  BY ZenonT(60) DEF Inserted
<1> HIDE DEF S
<1>5. n \in Nat /\ h \in Nat
  BY <1>2, LenProperties, Zenon
<1>6. /\ accepted' \in Seq(S) /\ Len(accepted') = h + 1
      /\ accepted'[h + 1] = x /\ \A i \in 1..h : accepted'[i] = accepted[i]
      /\ DOMAIN accepted' = 1..h + 1 /\ DOMAIN accepted = 1..h
  <2> DEFINE acc == Append(accepted, x)
  <2>1. acc \in Seq(S) /\ Len(acc) = h + 1
    BY <1>2, AppendProperties
  <2>2. acc[h + 1] = x /\ \A i \in 1..h : acc[i] = accepted[i]
    BY <1>2, AppendProperties
  <2>3. DOMAIN acc = 1..h + 1 /\ DOMAIN accepted = 1..h
    BY <1>2, <2>1, LenProperties
  <2>4. accepted' = acc
    OBVIOUS
  <2> HIDE DEF acc
  <2> QED BY <2>1, <2>2, <2>3, <2>4, Zenon
<1>7. /\ ll \in Seq(S) /\ Len(ll) = n + 1
      /\ ll[n + 1] = x /\ \A k \in 1..n : ll[k] = l[k]
  BY <1>2
<1>8. \A k \in 1..n : l[k] # x
  <2>1. DOMAIN l = 1..n
    BY <1>2
  <2> QED BY <1>3, <2>1 DEF Range
<1>9. Range(ll) = m
  <2>1. Range(ll) = Range(l) \cup {x}
    BY <1>2, RangeAppend
  <2> QED BY <1>3, <2>1
<1> HIDE DEF ll, m, l
<1>10. \A i \in 1..h : accepted[i] = x => h + 1 - i > MaxNonces
  <2> SUFFICES ASSUME NEW i \in 1..h, accepted[i] = x
               PROVE  h + 1 - i > MaxNonces
    OBVIOUS
  <2>1. ~(i > h - n)
    <3> SUFFICES ASSUME i > h - n PROVE FALSE
      OBVIOUS
    <3>1. i - (h - n) \in 1..n /\ h - n + (i - (h - n)) = i
      BY <1>5
    <3> QED BY <1>3, <1>8, <3>1, Zenon
  <2> QED BY <1>1, <1>3, <1>5, <2>1, SMTT(60)
<1>11. ReplayWindow'
  <2> SUFFICES ASSUME NEW i \in 1..h + 1, NEW j \in 1..h + 1, i < j,
                      accepted'[i] = accepted'[j]
               PROVE  j - i > MaxNonces
    BY <1>6, Zenon DEF ReplayWindow
  <2>1. CASE j = h + 1
    <3>1. i \in 1..h /\ accepted[i] = x
      BY <1>5, <1>6, <2>1
    <3> QED BY <1>10, <2>1, <3>1
  <2>2. CASE j # h + 1
    <3>1. i \in 1..h /\ j \in 1..h
      BY <1>5, <2>2
    <3>2. accepted[i] = accepted[j]
      BY <1>6, <3>1, Zenon
    <3> QED BY <1>3, <1>6, <3>1, <3>2, Zenon DEF ReplayWindow
  <2> QED BY <2>1, <2>2
<1>12. \A k \in 1..n + 1 : ll[k] = accepted'[h - n + k]
  <2> TAKE k \in 1..n + 1
  <2>1. CASE k = n + 1
    BY <1>5, <1>6, <1>7, <2>1, SMTT(60)
  <2>2. CASE k # n + 1
    <3>1. k \in 1..n /\ h - n + k \in 1..h
      BY <1>3, <1>5, <2>2, SMTT(60)
    <3> QED BY <1>3, <1>6, <1>7, <3>1, Zenon
  <2> QED BY <2>1, <2>2, Zenon
<1>13. CASE Len(ll) > MaxNonces
  <2>1. n = MaxNonces
    BY <1>1, <1>3, <1>5, <1>7, <1>13, SMTT(60)
  <2>2. nonces'.m = m \ {Head(ll)} /\ nonces'.ll = Tail(ll)
    <3>1. nonces' = [m |-> m \ {Head(ll)}, ll |-> Tail(ll)]
      BY <1>4, <1>13, Zenon
    <3> QED BY <3>1, CacheFields, Zenon
  <2>3. /\ Tail(ll) \in Seq(S) /\ Len(Tail(ll)) = n
        /\ \A k \in 1..n : Tail(ll)[k] = ll[k + 1]
        /\ Head(ll) = ll[1]
        /\ Range(ll) = {Head(ll)} \cup Range(Tail(ll))
    <3>1. Len(ll) > 0 /\ Len(ll) - 1 = n
      BY <1>5, <1>7, SMTT(60)
    <3> HIDE DEF Range
    <3> QED BY <1>7, <3>1, HeadTail, ZenonT(60)
  <2>4. \A k \in 1..n : Tail(ll)[k] = accepted'[(h + 1) - n + k]
    <3> TAKE k \in 1..n
    <3>1. k + 1 \in 1..n + 1 /\ h - n + (k + 1) = (h + 1) - n + k
      BY <1>5
    <3> QED BY <1>12, <2>3, <3>1, Zenon
  <2>5. Head(ll) \notin Range(Tail(ll))
    <3> SUFFICES ASSUME NEW k \in 1..n, Tail(ll)[k] = Head(ll)
                 PROVE  FALSE
      <4>1. DOMAIN Tail(ll) = 1..n
        BY <2>3
      <4> QED BY <4>1 DEF Range
    <3>1. /\ h - n + 1 \in 1..h + 1 /\ (h + 1) - n + k \in 1..h + 1
          /\ h - n + 1 < (h + 1) - n + k
          /\ ((h + 1) - n + k) - (h - n + 1) <= MaxNonces
      BY <1>1, <1>3, <1>5, <2>1
    <3>2. accepted'[h - n + 1] = accepted'[(h + 1) - n + k]
      <4>1. 1 \in 1..n + 1
        BY <1>5
      <4> QED BY <1>12, <2>3, <2>4, <4>1, Zenon
    <3>3. ((h + 1) - n + k) - (h - n + 1) > MaxNonces
      BY <1>6, <1>11, <3>1, <3>2, Zenon DEF ReplayWindow
    <3> QED BY <1>1, <1>5, <3>1, <3>3
  <2>6. nonces'.m = Range(nonces'.ll)
    <3> HIDE DEF Range
    <3> QED BY <1>9, <2>2, <2>3, <2>5
  <2>7. Len(nonces'.ll) = n /\ Len(accepted') = h + 1
    BY <1>6, <2>2, <2>3, Zenon
  <2>8. \A k \in 1..Len(nonces'.ll) :
            nonces'.ll[k] = accepted'[Len(accepted') - Len(nonces'.ll) + k]
    BY <2>2, <2>4, <2>7, Zenon
  <2>9. /\ Len(nonces'.ll) <= MaxNonces /\ Len(nonces'.ll) <= Len(accepted')
        /\ Len(nonces'.ll) < MaxNonces => Len(nonces'.ll) = Len(accepted')
    BY <1>1, <1>3, <1>5, <2>1, <2>7
  <2> HIDE DEF Range
  <2> QED BY <1>11, <2>6, <2>8, <2>9, Zenon DEF WindowInv
<1>14. CASE ~(Len(ll) > MaxNonces)
  <2>0. nonces' = [m |-> m, ll |-> ll]
    BY <1>4, <1>14, Zenon
  <2>1. nonces'.m = m /\ nonces'.ll = ll
    BY <2>0, CacheFields, Zenon
  <2>2. n < MaxNonces /\ n = h
    BY <1>1, <1>3, <1>5, <1>7, <1>14
  <2>3. Len(nonces'.ll) = n + 1 /\ Len(accepted') = h + 1
    BY <1>6, <1>7, <2>1, Zenon
  <2>4. \A k \in 1..Len(nonces'.ll) :
            nonces'.ll[k] = accepted'[Len(accepted') - Len(nonces'.ll) + k]
    BY <1>5, <1>12, <2>1, <2>2, <2>3, SMTT(60)
  <2>5. nonces'.m = Range(nonces'.ll)
    BY <1>9, <2>1, Zenon
  <2>6. /\ Len(nonces'.ll) <= MaxNonces /\ Len(nonces'.ll) <= Len(accepted')
        /\ Len(nonces'.ll) < MaxNonces => Len(nonces'.ll) = Len(accepted')
    BY <1>1, <1>5, <2>2, <2>3
  <2> HIDE DEF Range
  <2> QED BY <1>11, <2>4, <2>5, <2>6, Zenon DEF WindowInv
<1> QED BY <1>13, <1>14

\* Only InsertNonce, after a lookup that found nothing, touches the cache.
LEMMA WindowNext ==
  ASSUME Channels = {"poll"}
  PROVE  TypeOK /\ WindowInv /\ [Next]_vars => WindowInv'
<1> SUFFICES ASSUME TypeOK, WindowInv, [Next]_vars PROVE WindowInv'
  OBVIOUS
<1>1. CASE /\ UNCHANGED <<nonces, accepted>>
           /\ \/ ~At("poll", "insertNonce")'
              \/ UNCHANGED threadVars
              \/ Nonce[arg'["poll"]] \notin nonces.m
  BY <1>1, Zenon DEF WindowInv, ReplayWindow, At, threadVars
<1>2. ASSUME NEW c, LookupID(c) \/ InsertID(c) \/ Dispatch(c) PROVE WindowInv'
  <2>1. c = "poll" /\ UNCHANGED <<nonces, accepted>>
    BY <1>2, Zenon DEF LookupID, InsertID, Dispatch, At, cacheVars, execVars
  <2>2. at'["poll"] # "insertNonce"
    BY <1>2, <2>1, Zenon DEF LookupID, InsertID, Dispatch, Return, GoTo, TypeOK
  <2> QED BY <1>1, <2>1, <2>2 DEF At
<1>3. ASSUME NEW c, Validate(c) PROVE WindowInv'
  <2>1. c = "poll" /\ UNCHANGED <<nonces, accepted>>
    BY <1>3 DEF Validate, At, cacheVars, execVars
  <2>2. CASE Refusal(arg[c])
    <3>1. at'["poll"] # "insertNonce"
      BY <1>3, <2>1, <2>2, Zenon DEF Validate, Return, TypeOK
    <3> QED BY <1>1, <2>1, <3>1 DEF At
  <2>3. CASE ~Refusal(arg[c])
    <3>1. arg' = arg /\ Nonce[arg["poll"]] \notin nonces.m
      BY <1>3, <2>1, <2>3, Zenon DEF Validate, Refusal, GoTo
    <3> QED BY <1>1, <2>1, <3>1
  <2> QED BY <2>2, <2>3
<1>4. ASSUME NEW c, InsertNonce(c) PROVE WindowInv'
  <2>1. c = "poll" /\ c \in Channels /\ at[c] = "insertNonce"
    BY <1>4 DEF InsertNonce, At
  <2>2. ~Racing(c, "insertNonce")
    BY <2>1 DEF Racing
  <2>3. /\ nonces' = Inserted(nonces, Nonce[arg["poll"]], MaxNonces)
        /\ accepted' = Append(accepted, Nonce[arg["poll"]])
    BY <1>4, <2>1, <2>2 DEF InsertNonce, InsertOutcomes
  <2>4. at'["poll"] # "insertNonce"
    BY <1>4, <2>1, Zenon DEF InsertNonce, GoTo, TypeOK
  <2>5. Nonce[arg["poll"]] \in Range(Nonce)
    BY <2>1, NonceAssumption, Zenon DEF Range, TypeOK
  <2>6. Nonce[arg["poll"]] \notin nonces.m
    BY <2>1 DEF WindowInv, At
  <2> HIDE DEF Range
  <2> QED BY <2>3, <2>4, <2>5, <2>6, WindowMoves DEF At
<1>5. CASE PollProcess
  <2>1. at'["poll"] # "insertNonce" /\ UNCHANGED <<nonces, accepted>>
    BY <1>5 DEF PollProcess, Call, TypeOK, cacheVars, execVars
  <2> QED BY <1>1, <2>1 DEF At
<1>6. CASE Restart
  <2>1. /\ nonces'.m = {} /\ nonces'.ll = << >> /\ accepted' = << >>
        /\ at'["poll"] # "insertNonce"
    BY <1>6 DEF Restart, EmptyCache
  <2>2. MaxNonces \in Nat \ {0}
    BY ReceiverAssumption
  <2>3. Range(nonces'.ll) = {}
    BY <2>1, EmptySequence, Zenon
  <2>4. Len(nonces'.ll) = 0 /\ Len(accepted') = 0
    BY <2>1, EmptySequence, Zenon
  <2>5. 1 .. 0 = {} /\ 0 <= MaxNonces /\ 0 <= 0
    BY <2>2
  <2>6. ReplayWindow'
    BY <2>1, EmptySequence, Zenon DEF ReplayWindow
  <2> QED BY <2>1, <2>3, <2>4, <2>5, <2>6, Zenon DEF WindowInv, At
<1>7. CASE PollBegin
  BY <1>1, <1>7 DEF PollBegin, Snapshot, cacheVars, execVars
<1>8. ASSUME NEW ok, NEW commands, PollAnswer(ok, commands) \/ PollErr(commands)
      PROVE  WindowInv'
  BY <1>1, <1>8, Zenon DEF PollAnswer, PollErr, cacheVars, execVars
<1>9. ASSUME NEW rep, WsArrive(rep) \/ WsLose(rep) PROVE WindowInv'
  BY <1>1, <1>9, Zenon DEF WsArrive, WsLose, cacheVars, execVars
<1>10. ASSUME NEW cmd, Handle(cmd) \/ Expire(cmd) PROVE WindowInv'
  BY <1>1, <1>10
     DEF Handle, HandlerValidates, HandlerFinishes, HandlerStalls, Expire, cacheVars, execVars
<1>11. ASSUME NEW cmd, WsConnect \/ WsDrop \/ WsPush(cmd) PROVE WindowInv'
  BY <1>11 DEF WsConnect, WsDrop, WsPush, At
<1>12. CASE UNCHANGED vars
  BY <1>1, <1>12, Zenon DEF vars, cacheVars, execVars
<1> QED
  BY <1>2, <1>3, <1>4, <1>5, <1>6, <1>7, <1>8, <1>9, <1>10, <1>11, <1>12
  DEF Next, PollStep, WsStep, HandlerStep, Process

\* Without the WebSocket channel, the cache of nonces refuses every nonce of
\* the last MaxNonces accepted ones, whatever the evictions.
THEOREM ReplayWindowExact ==
  ASSUME Channels = {"poll"}
  PROVE  Spec => []ReplayWindow
<1>1. Init => WindowInv
  <2> SUFFICES ASSUME Init PROVE WindowInv
    OBVIOUS
  <2>1. /\ nonces.m = {} /\ nonces.ll = << >> /\ accepted = << >>
        /\ at["poll"] # "insertNonce"
    BY DEF Init, EmptyCache
  <2>2. MaxNonces \in Nat \ {0}
    BY ReceiverAssumption
  <2>3. Len(<< >>) = 0 /\ DOMAIN << >> = {} /\ Range(<< >>) = {}
    BY EmptySequence DEF Range
  <2>4. 1..0 = {} /\ 0 <= MaxNonces /\ 0 <= 0
    BY <2>2
  <2> HIDE DEF Range
  <2> QED BY <2>1, <2>3, <2>4, ZenonT(60) DEF WindowInv, ReplayWindow, At
<1>2. TypeOK /\ WindowInv /\ [Next]_vars => WindowInv'
  BY WindowNext
<1>3. WindowInv => ReplayWindow
  BY DEF WindowInv
<1> QED BY <1>1, <1>2, <1>3, TypeCorrect, PTL DEF Spec
=============================================================================
