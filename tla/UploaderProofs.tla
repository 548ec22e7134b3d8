--------------------------- MODULE UploaderProofs ---------------------------
(***************************************************************************)
(* Proofs about Uploader, for every capacity, batch size, byte budget,     *)
(* set of events and number of faults.                                     *)
(***************************************************************************)
EXTENDS Uploader, SequenceTheorems, WellFoundedInduction, TLAPS

(* Facts about sequences and minima. *)

\* A non-empty set of naturals has a least element, which is its Min.
LEMMA NatMin ==
  ASSUME NEW S \in SUBSET Nat, S # {}
  PROVE  /\ Min(S) \in S
         /\ \A k \in S : Min(S) <= k
<1> DEFINE Less == OpToRel(<, Nat)
<1>1. IsWellFoundedOn(Less, Nat)
  BY NatLessThanWellFounded, Zenon
<1>2. \A x, y \in Nat : <<x, y>> \in Less <=> x < y
  BY DEF OpToRel
<1> HIDE DEF Less
<1>3. PICK m \in S : \A y \in S : ~ (<<y, m>> \in Less)
  BY <1>1, WFMin, Zenon
<1>4. \A y \in S : m <= y
  <2> TAKE y \in S
  <2>1. y \in Nat /\ m \in Nat
    OBVIOUS
  <2>2. ~ (y < m)
    BY <1>2, <1>3, <2>1, Zenon
  <2> QED BY <2>1, <2>2
<1> QED BY <1>3, <1>4, Zenon DEF Min

\* The minimum of two naturals, as the code's min(a, b).
LEMMA MinOfTwo ==
  ASSUME NEW a \in Nat, NEW b \in Nat
  PROVE  /\ Min({a, b}) \in {a, b}
         /\ Min({a, b}) <= a /\ Min({a, b}) <= b
<1>1. {a, b} \in SUBSET Nat /\ {a, b} # {}
  OBVIOUS
<1> HIDE DEF Min
<1> QED BY <1>1, NatMin

\* Appending adds exactly the appended element to the range.
LEMMA RangeAppend ==
  ASSUME NEW S, NEW s \in Seq(S), NEW e \in S
  PROVE  Range(Append(s, e)) = Range(s) \cup {e}
<1>1. <<e>> \in Seq(S) /\ Range(<<e>>) = {e}
  BY DEF Range
<1>2. Append(s, e) = s \o <<e>>
  BY AppendIsConcat
<1>3. Range(s \o <<e>>) = Range(s) \cup Range(<<e>>)
  <2> HIDE DEF Range
  <2> QED BY <1>1, RangeConcatenation, ZenonT(60)
<1> QED BY <1>1, <1>2, <1>3, Zenon

\* The two parts of a cut sequence, put together again.
LEMMA CutConcat ==
  ASSUME NEW S, NEW s \in Seq(S), NEW n \in 0..Len(s)
  PROVE  s = SubSeq(s, 1, n) \o SubSeq(s, n + 1, Len(s))
<1>1. SubSeq(s, 1, n) \o SubSeq(s, n + 1, Len(s)) = SubSeq(s, 1, Len(s))
  <2>1. /\ 1 \in 1..Len(s)+1
        /\ n \in 1-1..Len(s)
        /\ Len(s) \in n..Len(s)
    BY LenProperties
  <2> QED BY <2>1, ConcatAdjacentSubSeq, Zenon
<1> QED BY <1>1, SubSeqFull, Zenon

\* Cutting a sequence in two loses and adds nothing.
LEMMA RangeCut ==
  ASSUME NEW S, NEW s \in Seq(S), NEW n \in 0..Len(s)
  PROVE  /\ SubSeq(s, 1, n) \in Seq(S)
         /\ SubSeq(s, n + 1, Len(s)) \in Seq(S)
         /\ Len(SubSeq(s, 1, n)) = n
         /\ Range(s) = Range(SubSeq(s, 1, n)) \cup Range(SubSeq(s, n + 1, Len(s)))
<1>1. Len(s) \in Nat /\ \A i \in 1..Len(s) : s[i] \in S
  BY LenProperties, ElementOfSeq
<1>2. /\ SubSeq(s, 1, n) \in Seq(S)
      /\ Len(SubSeq(s, 1, n)) = n
  <2>1. 1 \in Int /\ n \in Int /\ \A i \in 1..n : s[i] \in S
    BY <1>1
  <2> QED BY <2>1, <1>1, SubSeqProperties
<1>3. SubSeq(s, n + 1, Len(s)) \in Seq(S)
  <2>1. n + 1 \in Int /\ Len(s) \in Int /\ \A i \in (n + 1)..Len(s) : s[i] \in S
    BY <1>1
  <2> QED BY <2>1, SubSeqProperties
<1>4. s = SubSeq(s, 1, n) \o SubSeq(s, n + 1, Len(s))
  BY CutConcat, Zenon
<1>5. Range(s) = Range(SubSeq(s, 1, n)) \cup Range(SubSeq(s, n + 1, Len(s)))
  BY <1>2, <1>3, <1>4, RangeConcatenation, ZenonT(60)
<1> QED BY <1>2, <1>3, <1>5, Zenon

-----------------------------------------------------------------------------

\* batchLen returns at least one event, and no more than there are or than
\* batchSize allows: take and sendSnapshot always make progress.  Any length it
\* went past had a successor within the byte budget.
LEMMA BatchLenBounds ==
  ASSUME NEW S, NEW s \in Seq(S), s # << >>
  PROVE  /\ BatchLen(s) \in 1..Len(s)
         /\ BatchLen(s) <= BatchSize
         /\ \A i \in 1..Len(s) :
               i < BatchLen(s) => PrefixBytes(s, i + 1) <= MaxBatchBytes
<1> DEFINE n == Min({BatchSize, Len(s)})
           Stops == {i \in 1..n : \/ i = n
                                  \/ ~(PrefixBytes(s, i + 1) <= MaxBatchBytes)}
<1>1. Len(s) \in Nat \ {0} /\ BatchSize \in Nat \ {0}
  BY EmptySeq, QueueAssumption
<1>2. n \in Nat \ {0} /\ n <= Len(s) /\ n <= BatchSize
  <2> HIDE DEF Min
  <2>1. n \in {BatchSize, Len(s)} /\ n <= BatchSize /\ n <= Len(s)
    BY <1>1, MinOfTwo
  <2> QED BY <1>1, <2>1
<1> HIDE DEF n
<1>3. Stops \in SUBSET Nat /\ Stops # {} /\ Stops \subseteq 1..n
  <2>1. n \in Stops
    BY <1>2
  <2> QED BY <1>2, <2>1, SMTT(60)
<1>4. BatchLen(s) = Min(Stops)
  BY DEF BatchLen, n
<1>a. \A i \in 1..n : i \notin Stops => PrefixBytes(s, i + 1) <= MaxBatchBytes
  OBVIOUS
<1> HIDE DEF Stops
<1>5. Min(Stops) \in Stops /\ \A i \in Stops : Min(Stops) <= i
  <2> HIDE DEF Min
  <2> QED BY <1>3, NatMin
<1>6. BatchLen(s) \in 1..n
  BY <1>3, <1>4, <1>5, Zenon
<1> HIDE DEF BatchLen
<1>7. \A i \in 1..Len(s) : i < BatchLen(s) => i \in 1..n /\ i \notin Stops
  <2>1. \A i \in Stops : BatchLen(s) <= i
    BY <1>4, <1>5, Zenon
  <2> QED BY <1>1, <1>2, <1>6, <2>1
<1>8. \A i \in 1..Len(s) : i < BatchLen(s) => PrefixBytes(s, i + 1) <= MaxBatchBytes
  BY <1>a, <1>7, Zenon
<1>9. BatchLen(s) \in 1..Len(s) /\ BatchLen(s) <= BatchSize
  BY <1>1, <1>2, <1>6
<1> QED BY <1>8, <1>9, Zenon

\* A batch and what stays behind make up the queue they were cut from.
LEMMA CutBatch ==
  ASSUME NEW S, NEW s \in Seq(S), s # << >>
  PROVE  /\ Front(s) \in Seq(S) /\ Front(s) # << >>
         /\ Back(s) \in Seq(S)
         /\ Range(s) = Range(Front(s)) \cup Range(Back(s))
<1>1. BatchLen(s) \in 1..Len(s)
  BY BatchLenBounds
<1>2. Len(s) \in Nat
  BY LenProperties
<1> DEFINE n == BatchLen(s)
<1>3. n \in 0..Len(s) /\ n # 0
  BY <1>1, <1>2
<1> HIDE DEF n
<1>4. /\ SubSeq(s, 1, n) \in Seq(S)
      /\ SubSeq(s, n + 1, Len(s)) \in Seq(S)
      /\ Len(SubSeq(s, 1, n)) = n
      /\ Range(s) = Range(SubSeq(s, 1, n)) \cup Range(SubSeq(s, n + 1, Len(s)))
  BY <1>3, RangeCut
<1>5. SubSeq(s, 1, n) # << >>
  BY <1>3, <1>4, EmptySeq
<1> QED BY <1>4, <1>5 DEF Front, Back, n

\* A batch as BatchFits asks for it.
Fits(events) ==
    /\ Len(events) \in 1..BatchSize
    /\ \/ Len(events) = 1
       \/ PrefixBytes(events, Len(events)) <= MaxBatchBytes

\* What batchLen cuts off fits: the estimate of its own events is the one the
\* loop made of the queue's first events.
LEMMA FrontFits ==
  ASSUME NEW S, NEW s \in Seq(S), s # << >>
  PROVE  Fits(Front(s))
<1> DEFINE n == BatchLen(s)
<1>1. /\ n \in 1..Len(s) /\ n <= BatchSize
      /\ \A i \in 1..Len(s) : i < n => PrefixBytes(s, i + 1) <= MaxBatchBytes
  BY BatchLenBounds
<1>2. Len(s) \in Nat /\ BatchSize \in Nat
  BY LenProperties, QueueAssumption
<1> HIDE DEF n
<1>3. /\ Len(SubSeq(s, 1, n)) = n
      /\ \A i \in 1..n : SubSeq(s, 1, n)[i] = s[i]
  <2>1. n \in 0..Len(s)
    BY <1>1, <1>2
  <2>2. Len(SubSeq(s, 1, n)) = n
    BY <2>1, RangeCut
  <2> QED BY <1>1, <1>2, <2>2
<1>4. [i \in 1..n |-> EventSize[SubSeq(s, 1, n)[i]]] = [i \in 1..n |-> EventSize[s[i]]]
  BY <1>3, Zenon
<1>5. PrefixBytes(SubSeq(s, 1, n), n) = PrefixBytes(s, n)
  BY <1>4, Zenon DEF PrefixBytes
<1>6. n = 1 \/ PrefixBytes(s, n) <= MaxBatchBytes
  <2>1. CASE n # 1
    <3>1. n - 1 \in 1..Len(s) /\ n - 1 < n /\ (n - 1) + 1 = n
      BY <1>1, <1>2, <2>1
    <3> QED BY <1>1, <3>1, Zenon
  <2> QED BY <2>1
<1>7. n \in 1..BatchSize
  BY <1>1, <1>2
<1> QED BY <1>3, <1>5, <1>6, <1>7, Zenon DEF Fits, Front, n

-----------------------------------------------------------------------------
\* Transmit hands over a well-formed batch.
LEMMA TransmitType ==
  ASSUME TypeOK, NEW events \in Seq(Event \cup SyncEvent), events # << >>,
         NEW full \in BOOLEAN, full \/ events \in Seq(Event),
         Transmit(events, full), seq' = seq
  PROVE  /\ cur' \in Batch /\ pc' = "sent"
         /\ cur'.seq = seq' + 1 /\ cur'.events # << >>
         /\ cur'.full \/ cur'.events \in Seq(Event)
BY DEF TypeOK, Transmit, Batch

\* An uploader just built by NewWithCapacity is well typed.
LEMMA TypeInit == Init => TypeOK
<1>1. InitialBackoff \in InitialBackoff..MaxBackoff
  BY BackoffAssumption
<1>2. << >> \in Seq(Event) /\ << >> \in Seq(SyncEvent)
      /\ << >> \in Seq(Event \cup SyncEvent)
  BY EmptySeq
<1>3. NoBatch \in Batch
  BY <1>2 DEF NoBatch, Batch
<1> SUFFICES ASSUME Init PROVE TypeOK
  OBVIOUS
<1>4. /\ torn \in BOOLEAN /\ notify \in BOOLEAN /\ needSnapshot \in BOOLEAN
  BY Zenon DEF Init
<1>5. pc = "loop" /\ pc # "sent" /\ pc # "snapshot"
  BY DEF Init
<1>6. /\ seq \in Nat /\ seqFile \in Nat \cup {Unreadable}
      /\ signalling \in Nat /\ produced \in Nat /\ netFaults \in Nat
      /\ diskFaults \in Nat /\ restarts \in Nat
  BY DEF Init
<1> QED BY <1>1, <1>2, <1>3, <1>4, <1>5, <1>6, Zenon DEF Init, TypeOK

\* The backoff stays between its initial value and its maximum.
LEMMA BackoffType ==
  ASSUME backoff \in InitialBackoff..MaxBackoff
  PROVE  /\ InitialBackoff \in InitialBackoff..MaxBackoff
         /\ Min({2 * backoff, MaxBackoff}) \in InitialBackoff..MaxBackoff
<1>1. /\ 2 * backoff \in Nat /\ MaxBackoff \in Nat
      /\ InitialBackoff \in Nat
      /\ InitialBackoff <= 2 * backoff /\ InitialBackoff <= MaxBackoff
  BY BackoffAssumption
<1> DEFINE m == Min({2 * backoff, MaxBackoff})
<1>2. m \in {2 * backoff, MaxBackoff} /\ m <= MaxBackoff
  <2> HIDE DEF Min
  <2> QED BY <1>1, MinOfTwo
<1> HIDE DEF m
<1>3. m \in InitialBackoff..MaxBackoff
  BY <1>1, <1>2
<1> QED BY <1>1, <1>3 DEF m

\* Every step of the informers, of Run and of the environment keeps the types.
LEMMA TypeNext == TypeOK /\ [Next]_vars => TypeOK'
<1> SUFFICES ASSUME TypeOK, [Next]_vars
             PROVE  TypeOK'
  OBVIOUS
<1> USE DEF TypeOK
<1>0. << >> \in Seq(Event) /\ << >> \in Seq(SyncEvent) /\ NoBatch \in Batch
  BY EmptySeq DEF Batch, NoBatch
<1>1. ASSUME NEW ev \in Event, Enqueue(ev) PROVE TypeOK'
  <2>1. Append(buf, ev) \in Seq(Event) /\ Append(spill, ev) \in Seq(Event)
    BY AppendProperties
  <2>2. diskFaults + 1 \in Nat
    OBVIOUS
  <2>3. ASSUME SpillLocked(ev)
        PROVE  /\ spill' \in Seq(Event)
               /\ torn' \in BOOLEAN
               /\ diskFaults' \in Nat
    BY <2>1, <2>2, <2>3, Zenon DEF SpillLocked, DiskFault
  <2>4. /\ buf' \in Seq(Event) /\ spill' \in Seq(Event)
        /\ torn' \in BOOLEAN /\ diskFaults' \in Nat
    BY <1>1, <2>1, <2>3, Zenon DEF Enqueue
  <2> QED BY <1>1, <2>4 DEF Enqueue, OwedSignals, seqVars, loopVars
<1>2. CASE Signal
  BY <1>2 DEF Signal, seqVars, loopVars, faultVars
<1>3. ASSUME NEW events \in Snapshots, BeginSnapshot(events) PROVE TypeOK'
  <2>1. CASE events = << >>
    BY <1>3, <2>1, BackoffType, Zenon
       DEF BeginSnapshot, queueVars, seqVars, faultVars
  <2>2. CASE events # << >>
    <3>1. events \in Seq(SyncEvent)
      BY QueueAssumption
    <3>2. /\ Front(events) \in Seq(SyncEvent) /\ Front(events) # << >>
          /\ Back(events) \in Seq(SyncEvent)
      BY <2>2, <3>1, CutBatch, Zenon
    <3>3. Front(events) \in Seq(Event \cup SyncEvent)
      BY <3>2, SeqMonotonic
    <3>4. Transmit(Front(events), TRUE) /\ seq' = seq
      BY <1>3, <2>2, Zenon DEF BeginSnapshot, seqVars
    <3>5. /\ cur' \in Batch /\ pc' = "sent"
          /\ cur'.seq = seq' + 1 /\ cur'.events # << >>
          /\ cur'.full \/ cur'.events \in Seq(Event)
      BY <3>2, <3>3, <3>4, TransmitType, Zenon
    <3> QED BY <1>3, <2>2, <3>2, <3>5
            DEF BeginSnapshot, queueVars, seqVars, faultVars
  <2> QED BY <2>1, <2>2
<1>4. CASE ContinueSnapshot
  <2>1. rest # << >>
    BY <1>4 DEF ContinueSnapshot
  <2>2. /\ Front(rest) \in Seq(SyncEvent) /\ Front(rest) # << >>
        /\ Back(rest) \in Seq(SyncEvent)
    BY <2>1, CutBatch
  <2>3. Front(rest) \in Seq(Event \cup SyncEvent)
    BY <2>2, SeqMonotonic
  <2>4. Transmit(Front(rest), TRUE) /\ seq' = seq
    BY <1>4, Zenon DEF ContinueSnapshot, seqVars
  <2>5. /\ cur' \in Batch /\ pc' = "sent"
        /\ cur'.seq = seq' + 1 /\ cur'.events # << >>
        /\ cur'.full \/ cur'.events \in Seq(Event)
    BY <2>2, <2>3, <2>4, TransmitType, Zenon
  <2> QED BY <1>4, <2>2, <2>5
          DEF ContinueSnapshot, queueVars, seqVars, faultVars
<1>5. ASSUME NEW queue \in Seq(Event), Dispatch(queue), seq' = seq
      PROVE  /\ buf' \in Seq(Event)
             /\ pc' \in {"sent", "idle"} /\ cur' \in Batch
             /\ pc' = "sent" => /\ cur'.seq = seq' + 1 /\ cur'.events # << >>
                                /\ cur'.full \/ cur'.events \in Seq(Event)
  <2>1. CASE queue = << >>
    BY <1>5, <1>0, <2>1 DEF Dispatch
  <2>2. CASE queue # << >>
    <3>1. /\ Front(queue) \in Seq(Event) /\ Front(queue) # << >>
          /\ Back(queue) \in Seq(Event)
      BY <2>2, CutBatch, Zenon
    <3>2. Front(queue) \in Seq(Event \cup SyncEvent)
      BY <3>1, SeqMonotonic
    <3>3. Transmit(Front(queue), FALSE) /\ buf' = Back(queue)
      BY <1>5, <2>2, Zenon DEF Dispatch
    <3> QED BY <1>5, <3>1, <3>2, <3>3, TransmitType, Zenon
  <2> QED BY <2>1, <2>2
<1>6. CASE Take
  <2>1. Dispatch(buf) /\ seq' = seq
    BY <1>6 DEF Take, seqVars
  <2>2. /\ buf' \in Seq(Event)
        /\ pc' \in {"sent", "idle"} /\ cur' \in Batch
        /\ pc' = "sent" => /\ cur'.seq = seq' + 1 /\ cur'.events # << >>
                           /\ cur'.full \/ cur'.events \in Seq(Event)
    BY <1>5, <2>1
  <2> QED BY <1>6, <2>2 DEF Take, seqVars, faultVars
<1>7. CASE TakeSpilled
  <2>1. PICK k \in 0..Len(spill), remove \in BOOLEAN :
            /\ \/ k = Len(spill) /\ remove /\ UNCHANGED diskFaults
               \/ (k < Len(spill) \/ ~remove) /\ DiskFault
            /\ Dispatch(SubSeq(spill, 1, k))
            /\ IF k > 0 /\ remove
               THEN spill' = << >> /\ torn' = FALSE
               ELSE UNCHANGED <<spill, torn>>
    BY <1>7 DEF TakeSpilled
  <2>2. SubSeq(spill, 1, k) \in Seq(Event)
    BY RangeCut
  <2>3. seq' = seq
    BY <1>7 DEF TakeSpilled, seqVars
  <2>4. /\ buf' \in Seq(Event)
        /\ pc' \in {"sent", "idle"} /\ cur' \in Batch
        /\ pc' = "sent" => /\ cur'.seq = seq' + 1 /\ cur'.events # << >>
                           /\ cur'.full \/ cur'.events \in Seq(Event)
    BY <1>5, <2>1, <2>2, <2>3, Zenon
  <2>5. diskFaults' \in Nat
    BY <2>1 DEF DiskFault
  <2>6. spill' \in Seq(Event) /\ torn' \in BOOLEAN
    BY <2>1, <1>0, Zenon
  <2> QED BY <1>7, <2>4, <2>5, <2>6 DEF TakeSpilled, seqVars
<1>8. CASE SendOK
  BY <1>8 DEF SendOK, queueVars, faultVars, Batch
<1>9. CASE SendErr
  <2>1. buf' \in Seq(Event)
    BY <1>9, ConcatProperties, Zenon DEF SendErr, RequeueFront
  <2>2. notify' \in BOOLEAN /\ needSnapshot' \in BOOLEAN
    BY <1>9, Zenon DEF SendErr
  <2> QED BY <1>0, <1>9, <2>1, <2>2 DEF SendErr, seqVars
<1>10. CASE Sleep
  BY <1>10, BackoffType DEF Sleep, NextBackoff, queueVars, seqVars, faultVars
<1>11. ASSUME AfterSend
       PROVE  /\ needSnapshot' \in BOOLEAN
              /\ backoff' \in InitialBackoff..MaxBackoff
              /\ pc' \in {"loop", "snapshot"}
              /\ cur' \in Batch /\ rest' \in Seq(SyncEvent)
              /\ pc' = "snapshot" => rest' # << >>
  BY <1>0, <1>11, BackoffType, Zenon DEF AfterSend, SnapshotPending
<1>12. CASE PersistTruncate
  BY <1>11, <1>12, SMTT(60) DEF PersistTruncate, DiskFault, queueVars, Unreadable
<1>13. CASE PersistWrite
  BY <1>11, <1>13, SMTT(60) DEF PersistWrite, Persisted, DiskFault, queueVars
<1>14. CASE Wake
  BY <1>14, Zenon DEF Wake, seqVars, faultVars
<1>15. CASE Restart
  <2>1. seq' \in Nat /\ restarts' \in Nat /\ signalling' \in Nat
    BY <1>15 DEF Restart, ReadSeq, Unreadable
  <2>2. notify' \in BOOLEAN /\ needSnapshot' \in BOOLEAN
    BY <1>15, Zenon DEF Restart
  <2> QED BY <1>0, <1>15, <2>1, <2>2, BackoffType DEF Restart
<1>16. CASE UNCHANGED vars
  BY <1>16 DEF vars, queueVars, seqVars, loopVars, faultVars
<1> QED
  BY <1>1, <1>2, <1>3, <1>4, <1>6, <1>7, <1>8, <1>9, <1>10, <1>12, <1>13,
     <1>14, <1>15, <1>16, Zenon
     DEF Next, Produce, RunStep, SendResult

-----------------------------------------------------------------------------
\* Types of the uploader's state, for every value of the constants.
THEOREM TypeCorrect == Spec => []TypeOK
BY TypeInit, TypeNext, PTL DEF Spec

\* Only persistSeq and a restart touch seq and its file, and a failed file
\* operation is remembered, so SeqDurable is inductive once types are known.
LEMMA SeqDurableNext == TypeOK /\ SeqDurable /\ [Next]_vars => SeqDurable'
<1> SUFFICES ASSUME TypeOK, SeqDurable, [Next]_vars
             PROVE  SeqDurable'
  OBVIOUS
<1> USE DEF SeqDurable
<1>0. diskFaults \in Nat /\ seq \in Nat /\ seqFile \in Nat \cup {Unreadable}
  BY DEF TypeOK
<1>1. ASSUME NEW ev \in Event, Enqueue(ev) PROVE SeqDurable'
  <2>1. seq' = seq /\ seqFile' = seqFile /\ pc' = pc
    BY <1>1 DEF Enqueue, seqVars, loopVars
  <2>2. diskFaults' = diskFaults \/ diskFaults' = diskFaults + 1
    BY <1>1, Zenon DEF Enqueue, SpillLocked, DiskFault
  <2> QED BY <1>0, <2>1, <2>2 DEF ReadSeq
<1>2. CASE Signal
  BY <1>2 DEF Signal, seqVars, loopVars, faultVars, ReadSeq
<1>3. ASSUME NEW events \in Snapshots, BeginSnapshot(events) PROVE SeqDurable'
  BY <1>3 DEF BeginSnapshot, Transmit, seqVars, faultVars, ReadSeq
<1>4. CASE ContinueSnapshot
  BY <1>4 DEF ContinueSnapshot, Transmit, seqVars, faultVars, ReadSeq
<1>5. CASE Take
  BY <1>5 DEF Take, Dispatch, Transmit, seqVars, faultVars, ReadSeq
<1>6. CASE TakeSpilled
  <2>1. seq' = seq /\ seqFile' = seqFile /\ pc = "loop"
    BY <1>6 DEF TakeSpilled, seqVars
  <2>2. diskFaults' = diskFaults \/ diskFaults' = diskFaults + 1
    BY <1>6, Zenon DEF TakeSpilled, DiskFault
  <2> QED BY <1>0, <2>1, <2>2 DEF ReadSeq
<1>7. CASE SendOK
  BY <1>7 DEF SendOK
<1>8. CASE SendErr
  BY <1>8 DEF SendErr, seqVars, ReadSeq
<1>9. CASE Sleep
  BY <1>9 DEF Sleep, seqVars, faultVars, ReadSeq
<1>10. CASE PersistTruncate
  BY <1>0, <1>10 DEF PersistTruncate, DiskFault
<1>11. CASE PersistWrite
  BY <1>0, <1>11 DEF PersistWrite, Persisted, DiskFault, ReadSeq
<1>12. CASE Wake
  BY <1>12 DEF Wake, seqVars, faultVars, ReadSeq
<1>13. CASE Restart
  BY <1>0, <1>13 DEF Restart, ReadSeq, Unreadable
<1>14. CASE UNCHANGED vars
  BY <1>14 DEF vars, seqVars, loopVars, faultVars, ReadSeq
<1> QED
  BY <1>1, <1>2, <1>3, <1>4, <1>5, <1>6, <1>7, <1>8, <1>9, <1>10, <1>11,
     <1>12, <1>13, <1>14
     DEF Next, Produce, RunStep, SendResult

\* Outside persistSeq, and while no file operation has failed, the seq file
\* holds the number of the last acknowledged batch: a restart resumes there.
THEOREM SeqIsDurable == Spec => []SeqDurable
<1>1. Init => SeqDurable
  BY DEF Init, SeqDurable, ReadSeq, Unreadable
<1> QED BY <1>1, TypeCorrect, SeqDurableNext, PTL DEF Spec

-----------------------------------------------------------------------------
\* Run goes idle only with an empty buffer and, if the file worked, an empty
\* spill file; what makes either non-empty afterwards owes a signal.
LEMMA NoLostWakeupNext == TypeOK /\ NoLostWakeup /\ [Next]_vars => NoLostWakeup'
<1> SUFFICES ASSUME TypeOK, NoLostWakeup, [Next]_vars
             PROVE  NoLostWakeup'
  OBVIOUS
<1> USE DEF NoLostWakeup
<1>0. signalling \in Nat /\ diskFaults \in Nat
  BY DEF TypeOK
<1>1. ASSUME NEW ev \in Event, Enqueue(ev) PROVE NoLostWakeup'
  <2>1. signalling' = signalling + 1
    BY <1>1 DEF Enqueue, OwedSignals
  <2> QED BY <1>0, <2>1
<1>2. CASE Signal
  BY <1>2 DEF Signal
<1>3. ASSUME NEW events \in Snapshots, BeginSnapshot(events)
      PROVE  NoLostWakeup'
  BY <1>3 DEF BeginSnapshot, Transmit
<1>4. CASE ContinueSnapshot
  BY <1>4 DEF ContinueSnapshot, Transmit
<1>5. CASE Take
  <2>1. pc' = "sent"
    BY <1>5 DEF Take, Dispatch, Transmit
  <2> QED BY <2>1
<1>6. CASE TakeSpilled
  <2>1. PICK k \in 0..Len(spill), remove \in BOOLEAN :
            /\ \/ k = Len(spill) /\ remove /\ UNCHANGED diskFaults
               \/ (k < Len(spill) \/ ~remove) /\ DiskFault
            /\ Dispatch(SubSeq(spill, 1, k))
            /\ IF k > 0 /\ remove
               THEN spill' = << >> /\ torn' = FALSE
               ELSE UNCHANGED <<spill, torn>>
    BY <1>6 DEF TakeSpilled
  <2>2. CASE DiskFault
    <3>1. diskFaults' # 0
      BY <1>0, <2>2 DEF DiskFault
    <3>2. pc' = "idle" => buf' = << >>
      BY <2>1 DEF Dispatch, Transmit
    <3> QED BY <3>1, <3>2
  <2>3. CASE k = Len(spill) /\ remove
    <3>1. SubSeq(spill, 1, k) = spill
      BY <2>3, SubSeqFull DEF TypeOK
    <3>2. pc' = "idle" => buf' = << >> /\ spill = << >>
      BY <2>1, <3>1 DEF Dispatch, Transmit
    <3>3. spill' = << >> \/ spill' = spill
      BY <2>1
    <3> QED BY <3>2, <3>3
  <2> QED BY <2>1, <2>2, <2>3
<1>7. CASE SendOK
  BY <1>7 DEF SendOK
<1>8. CASE SendErr
  BY <1>8 DEF SendErr
<1>9. CASE Sleep
  BY <1>9 DEF Sleep
<1>10. CASE PersistTruncate
  BY <1>10 DEF PersistTruncate, AfterSend
<1>11. CASE PersistWrite
  BY <1>11 DEF PersistWrite, AfterSend
<1>12. CASE Wake
  BY <1>12 DEF Wake
<1>13. CASE Restart
  BY <1>13 DEF Restart
<1>14. CASE UNCHANGED vars
  BY <1>14 DEF vars, queueVars, loopVars, faultVars
<1> QED
  BY <1>1, <1>2, <1>3, <1>4, <1>5, <1>6, <1>7, <1>8, <1>9, <1>10, <1>11,
     <1>12, <1>13, <1>14
     DEF Next, Produce, RunStep, SendResult

\* Run never waits beside work without a wake-up on its way.
THEOREM WakeupNeverLost == Spec => []NoLostWakeup
<1>1. Init => NoLostWakeup
  BY DEF Init, NoLostWakeup
<1> QED BY <1>1, TypeCorrect, NoLostWakeupNext, PTL DEF Spec

-----------------------------------------------------------------------------
\* No step takes an event out of the uploader's custody but the one that
\* acknowledges its batch, a failing file operation or a restart.
LEMMA CustodyNext == TypeOK /\ [Next]_vars => CustodyStep
<1> SUFFICES ASSUME TypeOK, [Next]_vars
             PROVE  CustodyStep
  OBVIOUS
<1>0. /\ signalling \in Nat /\ diskFaults \in Nat /\ restarts \in Nat
      /\ buf \in Seq(Event) /\ spill \in Seq(Event)
  BY DEF TypeOK
<1>a. Range(<< >>) = {}
  BY DEF Range
<1>b. ASSUME Held \subseteq Held', signalling' <= signalling, signalling' \in Nat
      PROVE  CustodyStep
  BY <1>0, <1>b DEF CustodyStep
<1>1. ASSUME NEW ev \in Event \ Held, Enqueue(ev) PROVE CustodyStep
  <2>1. pc' = pc /\ cur' = cur
    BY <1>1 DEF Enqueue, loopVars
  <2>2. InFlight' = InFlight
    BY <2>1 DEF InFlight
  <2>3. CASE buf' = Append(buf, ev) /\ spill' = spill
    <3>1. Range(buf') = Range(buf) \cup {ev}
      BY <1>0, <2>3, RangeAppend
    <3>2. Held' = Held \cup {ev}
      BY <2>2, <2>3, <3>1, Zenon DEF Held
    <3> QED BY <1>1, <3>2 DEF CustodyStep
  <2>4. CASE buf' = buf /\ spill' = Append(spill, ev)
    <3>1. Range(spill') = Range(spill) \cup {ev}
      BY <1>0, <2>4, RangeAppend
    <3>2. Held' = Held \cup {ev}
      BY <2>2, <2>4, <3>1, Zenon DEF Held
    <3> QED BY <1>1, <3>2 DEF CustodyStep
  <2>5. CASE buf' = buf /\ spill' = spill /\ (torn \/ diskFaults' = diskFaults + 1)
    <3>1. Held' = Held
      BY <2>2, <2>5 DEF Held
    <3>2. torn \/ diskFaults' > diskFaults
      BY <1>0, <2>5
    <3> QED BY <3>1, <3>2, Zenon DEF CustodyStep
  <2> QED
    BY <1>1, <2>3, <2>4, <2>5, Zenon DEF Enqueue, SpillLocked, DiskFault
<1>2. CASE Signal
  <2>1. Held' = Held
    BY <1>2 DEF Signal, loopVars, Held, InFlight
  <2>2. signalling' = signalling - 1 /\ signalling > 0
    BY <1>2 DEF Signal
  <2> QED BY <1>0, <1>b, <2>1, <2>2
<1>3. ASSUME NEW events \in Snapshots, BeginSnapshot(events) PROVE CustodyStep
  <2>1. buf' = buf /\ spill' = spill /\ signalling' = signalling
    BY <1>3 DEF BeginSnapshot, queueVars
  <2>2. InFlight = {}
    BY <1>3 DEF BeginSnapshot, InFlight
  <2> QED BY <1>0, <1>b, <2>1, <2>2 DEF Held
<1>4. CASE ContinueSnapshot
  <2>1. buf' = buf /\ spill' = spill /\ signalling' = signalling
    BY <1>4 DEF ContinueSnapshot, queueVars
  <2>2. InFlight = {}
    BY <1>4 DEF ContinueSnapshot, InFlight
  <2> QED BY <1>0, <1>b, <2>1, <2>2 DEF Held
<1>5. ASSUME NEW queue \in Seq(Event), Dispatch(queue)
      PROVE  Range(queue) \subseteq Range(buf') \cup InFlight'
  <2>1. CASE queue = << >>
    BY <1>a, <2>1
  <2>2. CASE queue # << >>
    <3>1. Range(queue) = Range(Front(queue)) \cup Range(Back(queue))
      BY <2>2, CutBatch
    <3>2. buf' = Back(queue) /\ pc' = "sent"
      BY <1>5, <2>2 DEF Dispatch, Transmit
    <3>3. cur'.full = FALSE /\ cur'.events = Front(queue)
      BY <1>5, <2>2 DEF Dispatch, Transmit
    <3>4. InFlight' = Range(Front(queue))
      BY <3>2, <3>3 DEF InFlight
    <3> QED BY <3>1, <3>2, <3>4
  <2> QED BY <2>1, <2>2
<1>6. CASE Take
  <2>1. /\ Dispatch(buf) /\ spill' = spill /\ signalling' = signalling
        /\ InFlight = {}
    BY <1>6 DEF Take, InFlight
  <2>2. Held \subseteq Held'
    BY <1>0, <1>5, <2>1 DEF Held
  <2> QED BY <1>0, <1>b, <2>1, <2>2
<1>7. CASE TakeSpilled
  <2>1. /\ buf = << >> /\ InFlight = {} /\ signalling' = signalling
    BY <1>7 DEF TakeSpilled, InFlight
  <2>2. PICK k \in 0..Len(spill), remove \in BOOLEAN :
            /\ \/ k = Len(spill) /\ remove /\ UNCHANGED diskFaults
               \/ (k < Len(spill) \/ ~remove) /\ DiskFault
            /\ Dispatch(SubSeq(spill, 1, k))
    BY <1>7 DEF TakeSpilled
  <2>3. CASE DiskFault
    <3>1. diskFaults' > diskFaults
      BY <1>0, <2>3 DEF DiskFault
    <3>2. ~ (signalling' > signalling)
      BY <1>0, <2>1
    <3> QED BY <3>1, <3>2, Zenon DEF CustodyStep
  <2>4. CASE k = Len(spill)
    <3>1. SubSeq(spill, 1, k) = spill
      BY <1>0, <2>4, SubSeqFull
    <3>2. Range(spill) \subseteq Range(buf') \cup InFlight'
      BY <1>0, <1>5, <2>2, <3>1, Zenon
    <3>3. Held \subseteq Held'
      BY <1>a, <2>1, <3>2 DEF Held
    <3> QED BY <1>0, <1>b, <2>1, <3>3
  <2> QED BY <2>2, <2>3, <2>4
<1>8. CASE SendOK
  <2>1. /\ buf' = buf /\ spill' = spill /\ signalling' = signalling
        /\ seq' = cur.seq
    BY <1>8 DEF SendOK, queueVars
  <2>2. \A ev \in Held \ Held' : ev \in InFlight
    BY <2>1 DEF Held
  <2>3. ~ (signalling' > signalling)
    BY <1>0, <2>1
  <2> QED BY <2>1, <2>2, <2>3, Zenon DEF CustodyStep
<1>9. CASE SendErr
  <2>1. spill' = spill /\ signalling' = signalling
    BY <1>9 DEF SendErr
  <2>2. CASE cur.full
    <3>1. buf' = buf /\ InFlight = {}
      BY <1>9, <2>2 DEF SendErr, InFlight
    <3> QED BY <1>0, <1>b, <2>1, <3>1 DEF Held
  <2>3. CASE ~cur.full
    <3>1. /\ cur.events \in Seq(Event) /\ buf' = cur.events \o buf
          /\ InFlight = Range(cur.events)
      BY <1>9, <2>3, Zenon DEF SendErr, RequeueFront, InFlight, TypeOK
    <3>2. Range(buf') = Range(cur.events) \cup Range(buf)
      <4> HIDE DEF Range
      <4> QED BY <1>0, <3>1, RangeConcatenation, ZenonT(60)
    <3>3. Held \subseteq Held'
      BY <2>1, <3>1, <3>2 DEF Held
    <3> QED BY <1>0, <1>b, <2>1, <3>3
  <2> QED BY <2>2, <2>3
<1>10. ASSUME buf' = buf, spill' = spill, signalling' = signalling, pc # "sent"
       PROVE  CustodyStep
  BY <1>0, <1>b, <1>10 DEF Held, InFlight
<1>11. CASE Sleep
  BY <1>10, <1>11 DEF Sleep, queueVars
<1>12. CASE PersistTruncate
  BY <1>10, <1>12 DEF PersistTruncate, queueVars
<1>13. CASE PersistWrite
  BY <1>10, <1>13 DEF PersistWrite, queueVars
<1>14. CASE Wake
  BY <1>10, <1>14 DEF Wake
<1>15. CASE Restart
  <2>1. restarts' > restarts /\ spill' = spill /\ ~ (signalling' > signalling)
    BY <1>0, <1>15 DEF Restart
  <2>2. \A ev \in Held \ Held' : ev \notin Range(spill)
    BY <2>1 DEF Held
  <2> QED BY <2>1, <2>2, Zenon DEF CustodyStep
<1>16. CASE UNCHANGED vars
  <2>1. Held' = Held /\ signalling' = signalling
    BY <1>16 DEF vars, queueVars, loopVars, Held, InFlight
  <2> QED BY <1>0, <1>b, <2>1
<1> QED
  BY <1>1, <1>2, <1>3, <1>4, <1>6, <1>7, <1>8, <1>9, <1>11, <1>12, <1>13,
     <1>14, <1>15, <1>16
     DEF Next, Produce, RunStep, SendResult

\* Custody holds of every behaviour: between Enqueue and the acknowledgement
\* of its batch an event is buffered, spilled or in flight, through any number
\* of failed sends, unless the disk fails or the process restarts.
THEOREM CustodyKept == Spec => Custody
BY TypeCorrect, CustodyNext, PTL DEF Spec, Custody

-----------------------------------------------------------------------------
\* Every batch is cut by batchLen, and stays as it is while it is being sent.
LEMMA BatchFitsNext == TypeOK /\ BatchFits /\ [Next]_vars => BatchFits'
<1> SUFFICES ASSUME TypeOK, BatchFits, [Next]_vars, pc' = "sent"
             PROVE  Fits(cur'.events)
  BY DEF BatchFits, Fits
<1>1. ASSUME pc' = pc, cur' = cur PROVE Fits(cur'.events)
  BY <1>1 DEF BatchFits, Fits
<1>2. ASSUME NEW S, NEW s \in Seq(S), s # << >>, NEW full, Transmit(Front(s), full)
      PROVE  Fits(cur'.events)
  <2>1. cur'.events = Front(s)
    BY <1>2 DEF Transmit
  <2> QED BY <1>2, <2>1, FrontFits
<1>3. ASSUME NEW ev \in Event, Enqueue(ev) PROVE Fits(cur'.events)
  BY <1>1, <1>3 DEF Enqueue, loopVars
<1>4. CASE Signal
  BY <1>1, <1>4 DEF Signal, loopVars
<1>5. ASSUME NEW events \in Snapshots, BeginSnapshot(events) PROVE Fits(cur'.events)
  <2>1. events \in Seq(SyncEvent)
    BY QueueAssumption
  <2> QED BY <1>2, <1>5, <2>1, Zenon DEF BeginSnapshot
<1>6. CASE ContinueSnapshot
  <2>1. rest \in Seq(SyncEvent) /\ rest # << >> /\ Transmit(Front(rest), TRUE)
    BY <1>6, Zenon DEF ContinueSnapshot, TypeOK
  <2> QED BY <1>2, <2>1, Zenon
<1>7. ASSUME NEW queue \in Seq(Event), Dispatch(queue) PROVE Fits(cur'.events)
  BY <1>2, <1>7, Zenon DEF Dispatch
<1>8. CASE Take
  <2>1. buf \in Seq(Event) /\ Dispatch(buf)
    BY <1>8 DEF Take, TypeOK
  <2> QED BY <1>7, <2>1
<1>9. CASE TakeSpilled
  <2>1. PICK k \in 0..Len(spill) : Dispatch(SubSeq(spill, 1, k))
    BY <1>9 DEF TakeSpilled
  <2>2. SubSeq(spill, 1, k) \in Seq(Event)
    BY RangeCut DEF TypeOK
  <2> QED BY <1>7, <2>1, <2>2, ZenonT(30)
<1>10. CASE SendResult \/ Sleep \/ PersistTruncate \/ PersistWrite \/ Wake \/ Restart
  BY <1>10 DEF SendResult, SendOK, SendErr, Sleep, PersistTruncate, PersistWrite,
     AfterSend, Wake, Restart
<1>11. CASE UNCHANGED vars
  BY <1>1, <1>11 DEF vars, loopVars
<1> QED
  BY <1>3, <1>4, <1>5, <1>6, <1>8, <1>9, <1>10, <1>11, Zenon DEF Next, Produce, RunStep

\* Whatever the sizes of the events and whatever was spilled, replayed or put
\* back, a batch on its way has at most batchSize events, and a byte estimate
\* above the budget only if it is a single event.
THEOREM BatchesFit == Spec => []BatchFits
<1>1. Init => BatchFits
  BY DEF Init, BatchFits
<1> QED BY <1>1, TypeCorrect, BatchFitsNext, PTL DEF Spec
=============================================================================
