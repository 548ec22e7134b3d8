--------------------------- MODULE InventoryProofs --------------------------
(***************************************************************************)
(* Proofs about InventorySync, for every set of objects, capacity, batch   *)
(* size and number of faults.                                              *)
(***************************************************************************)
EXTENDS InventorySync, SequenceTheorems, WellFoundedInduction, FiniteSetTheorems, TLAPS

(* Facts about sequences and minima. *)

\* A non-empty set of naturals has a least element, which is its Min.
LEMMA NatMin ==
  ASSUME NEW S \in SUBSET Nat, S # {}
  PROVE  /\ Min(S) \in S
         /\ \A k \in S : Min(S) <= k
<1> DEFINE Less == OpToRel(<, Nat)
<1>1. IsWellFoundedOn(Less, Nat)
  BY NatLessThanWellFounded, Zenon
<1>2. \A x, y \in Nat : <<x, y>> \in Less <=> x < y
  BY DEF OpToRel
<1> HIDE DEF Less
<1>3. PICK m \in S : \A y \in S : ~ (<<y, m>> \in Less)
  BY <1>1, WFMin, Zenon
<1>4. \A y \in S : m <= y
  <2> TAKE y \in S
  <2>1. y \in Nat /\ m \in Nat
    OBVIOUS
  <2>2. ~ (y < m)
    BY <1>2, <1>3, <2>1, Zenon
  <2> QED BY <2>1, <2>2
<1> QED BY <1>3, <1>4, Zenon DEF Min

\* A non-empty set of indices has a greatest element, which is its Max.
LEMMA BoundedMax ==
  ASSUME NEW n \in Nat, NEW S \in SUBSET (1..n), S # {}
  PROVE  Max(S) \in S /\ \A k \in S : Max(S) >= k
<1> DEFINE T == {n - i : i \in S}
<1>1. T \in SUBSET Nat /\ T # {}
  <2>1. \A i \in S : n - i \in Nat
    OBVIOUS
  <2> QED BY <2>1, Zenon
<1>2. PICK m \in T : \A k \in T : m <= k
  <2> HIDE DEF T, Min
  <2> QED BY <1>1, NatMin, Zenon
<1>3. PICK i \in S : m = n - i
  BY <1>2
<1>4. \A k \in S : i >= k
  <2> TAKE k \in S
  <2>1. n - i <= n - k
    BY <1>2, <1>3, Zenon
  <2>2. i \in Nat /\ k \in Nat
    OBVIOUS
  <2> QED BY <2>1, <2>2
<1> QED BY <1>3, <1>4, Zenon DEF Max

\* The minimum of two naturals, as the code's min(a, b).
LEMMA MinOfTwo ==
  ASSUME NEW a \in Nat, NEW b \in Nat
  PROVE  /\ Min({a, b}) \in {a, b}
         /\ Min({a, b}) <= a /\ Min({a, b}) <= b
<1>1. {a, b} \in SUBSET Nat /\ {a, b} # {}
  OBVIOUS
<1> HIDE DEF Min
<1> QED BY <1>1, NatMin

\* Where the elements of a concatenation come from.
LEMMA ConcatDomain ==
  ASSUME NEW S, NEW s \in Seq(S), NEW t \in Seq(S)
  PROVE  /\ s \o t \in Seq(S)
         /\ Len(s) \in Nat /\ Len(t) \in Nat
         /\ DOMAIN s = 1..Len(s) /\ DOMAIN t = 1..Len(t)
         /\ DOMAIN (s \o t) = 1..(Len(s) + Len(t))
         /\ Len(s \o t) = Len(s) + Len(t)
         /\ \A i \in 1..Len(s) : (s \o t)[i] = s[i]
         /\ \A i \in 1..Len(t) : (s \o t)[Len(s) + i] = t[i]
<1>1. /\ s \o t \in Seq(S)
      /\ Len(s \o t) = Len(s) + Len(t)
      /\ \A i \in 1..Len(s) + Len(t) :
            (s \o t)[i] = IF i <= Len(s) THEN s[i] ELSE t[i - Len(s)]
  BY ConcatProperties
<1>2. /\ Len(s) \in Nat /\ Len(t) \in Nat
      /\ DOMAIN s = 1..Len(s) /\ DOMAIN t = 1..Len(t)
      /\ DOMAIN (s \o t) = 1..Len(s \o t)
  BY <1>1, LenProperties, Zenon
<1>3. \A i \in 1..Len(s) : (s \o t)[i] = s[i]
  BY <1>1, <1>2
<1>4. \A i \in 1..Len(t) : (s \o t)[Len(s) + i] = t[i]
  BY <1>1, <1>2
<1> QED BY <1>1, <1>2, <1>3, <1>4

\* Appending to the second part of a sequence appends to the whole.
LEMMA ConcatAppend ==
  ASSUME NEW S, NEW s \in Seq(S), NEW t \in Seq(S), NEW e \in S
  PROVE  s \o Append(t, e) = Append(s \o t, e)
<1>1. <<e>> \in Seq(S) /\ s \o t \in Seq(S)
  BY ConcatProperties
<1>2. Append(t, e) = t \o <<e>> /\ Append(s \o t, e) = (s \o t) \o <<e>>
  BY <1>1, AppendIsConcat
<1>3. (s \o t) \o <<e>> = s \o (t \o <<e>>)
  BY <1>1, ConcatAssociative
<1> QED BY <1>2, <1>3, Zenon

\* The two parts of a cut sequence, put together again.
LEMMA CutConcat ==
  ASSUME NEW S, NEW s \in Seq(S), NEW n \in 0..Len(s)
  PROVE  s = SubSeq(s, 1, n) \o SubSeq(s, n + 1, Len(s))
<1>1. SubSeq(s, 1, n) \o SubSeq(s, n + 1, Len(s)) = SubSeq(s, 1, Len(s))
  <2>1. /\ 1 \in 1..Len(s)+1
        /\ n \in 1-1..Len(s)
        /\ Len(s) \in n..Len(s)
    BY LenProperties
  <2> QED BY <2>1, ConcatAdjacentSubSeq, Zenon
<1> QED BY <1>1, SubSeqFull, Zenon

\* Cutting a sequence in two loses and adds nothing.
LEMMA RangeCut ==
  ASSUME NEW S, NEW s \in Seq(S), NEW n \in 0..Len(s)
  PROVE  /\ SubSeq(s, 1, n) \in Seq(S)
         /\ SubSeq(s, n + 1, Len(s)) \in Seq(S)
         /\ Len(SubSeq(s, 1, n)) = n
         /\ Range(s) = Range(SubSeq(s, 1, n)) \cup Range(SubSeq(s, n + 1, Len(s)))
<1>1. Len(s) \in Nat /\ \A i \in 1..Len(s) : s[i] \in S
  BY LenProperties, ElementOfSeq
<1>2. /\ SubSeq(s, 1, n) \in Seq(S)
      /\ Len(SubSeq(s, 1, n)) = n
  <2>1. 1 \in Int /\ n \in Int /\ \A i \in 1..n : s[i] \in S
    BY <1>1
  <2> QED BY <2>1, <1>1, SubSeqProperties
<1>3. SubSeq(s, n + 1, Len(s)) \in Seq(S)
  <2>1. n + 1 \in Int /\ Len(s) \in Int /\ \A i \in (n + 1)..Len(s) : s[i] \in S
    BY <1>1
  <2> QED BY <2>1, SubSeqProperties
<1>4. s = SubSeq(s, 1, n) \o SubSeq(s, n + 1, Len(s))
  BY CutConcat, Zenon
<1>5. Range(s) = Range(SubSeq(s, 1, n)) \cup Range(SubSeq(s, n + 1, Len(s)))
  BY <1>2, <1>3, <1>4, RangeConcatenation, ZenonT(60)
<1> QED BY <1>2, <1>3, <1>5, Zenon

-----------------------------------------------------------------------------
(* Queues of events, each about the object its field ref names. *)

\* No event of a queue is about o.
Silent(q, o) == \A i \in DOMAIN q : q[i].ref # o

\* The last event of a queue about o is e.
LastAbout(q, o, e) ==
    \E i \in DOMAIN q :
        /\ q[i].ref = o /\ q[i] = e
        /\ \A j \in DOMAIN q : j > i => q[j].ref # o

\* A queue is silent about an object when both its parts are.
LEMMA SilentConcat ==
  ASSUME NEW S, NEW s \in Seq(S), NEW t \in Seq(S), NEW o
  PROVE  Silent(s \o t, o) <=> Silent(s, o) /\ Silent(t, o)
<1>1. /\ Len(s) \in Nat /\ Len(t) \in Nat
      /\ DOMAIN s = 1..Len(s) /\ DOMAIN t = 1..Len(t)
      /\ DOMAIN (s \o t) = 1..(Len(s) + Len(t))
      /\ \A i \in 1..Len(s) : (s \o t)[i] = s[i]
      /\ \A i \in 1..Len(t) : (s \o t)[Len(s) + i] = t[i]
  BY ConcatDomain
<1>2. ASSUME Silent(s \o t, o) PROVE Silent(s, o)
  BY <1>1, <1>2 DEF Silent
<1>3. ASSUME Silent(s \o t, o) PROVE Silent(t, o)
  <2> SUFFICES ASSUME NEW i \in 1..Len(t) PROVE t[i].ref # o
    BY <1>1, Zenon DEF Silent
  <2>1. Len(s) + i \in DOMAIN (s \o t)
    BY <1>1
  <2> QED BY <1>1, <1>3, <2>1, Zenon DEF Silent
<1>4. ASSUME Silent(s, o), Silent(t, o) PROVE Silent(s \o t, o)
  <2> SUFFICES ASSUME NEW i \in 1..(Len(s) + Len(t)) PROVE (s \o t)[i].ref # o
    BY <1>1, Zenon DEF Silent
  <2>1. CASE i \in 1..Len(s)
    BY <1>1, <1>4, <2>1, Zenon DEF Silent
  <2>2. CASE i \notin 1..Len(s)
    <3>1. i - Len(s) \in 1..Len(t) /\ Len(s) + (i - Len(s)) = i
      BY <1>1, <2>2
    <3> QED BY <1>1, <1>4, <3>1, Zenon DEF Silent
  <2> QED BY <2>1, <2>2
<1> QED BY <1>2, <1>3, <1>4

\* The last event about an object in a queue of two parts is that of the second
\* part, unless it is silent about the object.
LEMMA LastConcat ==
  ASSUME NEW S, NEW s \in Seq(S), NEW t \in Seq(S), NEW o, NEW e
  PROVE  /\ LastAbout(t, o, e) => LastAbout(s \o t, o, e)
         /\ LastAbout(s, o, e) /\ Silent(t, o) => LastAbout(s \o t, o, e)
         /\ LastAbout(s \o t, o, e) /\ Silent(t, o) => LastAbout(s, o, e)
         /\ LastAbout(s \o t, o, e) /\ ~Silent(t, o) => LastAbout(t, o, e)
<1> DEFINE n == Len(s)
           m == Len(t)
           q == s \o t
<1>1. /\ n \in Nat /\ m \in Nat
      /\ DOMAIN s = 1..n /\ DOMAIN t = 1..m /\ DOMAIN q = 1..(n + m)
      /\ \A i \in 1..n : q[i] = s[i]
      /\ \A i \in 1..m : q[n + i] = t[i]
  BY ConcatDomain
<1> HIDE DEF n, m, q
<1>2. \A i \in 1..(n + m) : i \in 1..n \/ (i - n \in 1..m /\ q[i] = t[i - n])
  <2> TAKE i \in 1..(n + m)
  <2>1. CASE i \notin 1..n
    <3>1. i - n \in 1..m /\ n + (i - n) = i
      BY <1>1, <2>1
    <3> QED BY <1>1, <3>1, Zenon
  <2> QED BY <2>1
<1>3. ASSUME LastAbout(t, o, e) PROVE LastAbout(q, o, e)
  <2>1. PICK i \in 1..m : /\ t[i].ref = o /\ t[i] = e
                          /\ \A j \in 1..m : j > i => t[j].ref # o
    BY <1>1, <1>3, Zenon DEF LastAbout
  <2>2. n + i \in DOMAIN q /\ q[n + i] = t[i]
    BY <1>1
  <2>3. ASSUME NEW j \in DOMAIN q, j > n + i PROVE q[j].ref # o
    <3>1. j \notin 1..n /\ j - n > i
      BY <1>1, <2>3
    <3>2. j - n \in 1..m /\ q[j] = t[j - n]
      BY <1>1, <1>2, <3>1, Zenon
    <3> QED BY <2>1, <3>1, <3>2, Zenon
  <2> QED BY <2>1, <2>2, <2>3, Zenon DEF LastAbout
<1>4. ASSUME LastAbout(s, o, e), Silent(t, o) PROVE LastAbout(q, o, e)
  <2>1. PICK i \in 1..n : /\ s[i].ref = o /\ s[i] = e
                          /\ \A j \in 1..n : j > i => s[j].ref # o
    BY <1>1, <1>4, Zenon DEF LastAbout
  <2>2. i \in DOMAIN q /\ q[i] = s[i]
    BY <1>1
  <2>3. ASSUME NEW j \in DOMAIN q, j > i PROVE q[j].ref # o
    <3>1. CASE j \in 1..n
      BY <1>1, <2>1, <2>3, <3>1, Zenon
    <3>2. CASE j \notin 1..n
      BY <1>1, <1>2, <1>4, <3>2, Zenon DEF Silent
    <3> QED BY <3>1, <3>2
  <2> QED BY <2>1, <2>2, <2>3, Zenon DEF LastAbout
<1>5. ASSUME LastAbout(q, o, e), Silent(t, o) PROVE LastAbout(s, o, e)
  <2>1. PICK i \in 1..(n + m) : /\ q[i].ref = o /\ q[i] = e
                                /\ \A j \in 1..(n + m) : j > i => q[j].ref # o
    BY <1>1, <1>5, Zenon DEF LastAbout
  <2>2. i \in 1..n
    BY <1>1, <1>2, <1>5, <2>1, Zenon DEF Silent
  <2>3. \A j \in 1..n : j \in 1..(n + m) /\ q[j] = s[j]
    BY <1>1
  <2> QED BY <1>1, <2>1, <2>2, <2>3, Zenon DEF LastAbout
<1>6. ASSUME LastAbout(q, o, e), ~Silent(t, o) PROVE LastAbout(t, o, e)
  <2>1. PICK i \in 1..(n + m) : /\ q[i].ref = o /\ q[i] = e
                                /\ \A j \in 1..(n + m) : j > i => q[j].ref # o
    BY <1>1, <1>6, Zenon DEF LastAbout
  <2>2. PICK k \in 1..m : t[k].ref = o
    BY <1>1, <1>6, Zenon DEF Silent
  <2>3. n + k \in 1..(n + m) /\ q[n + k] = t[k]
    BY <1>1
  <2>4. ~(n + k > i)
    BY <2>1, <2>2, <2>3, Zenon
  <2>5. i - n \in 1..m /\ q[i] = t[i - n]
    <3>1. i \notin 1..n
      BY <1>1, <2>2, <2>4
    <3> QED BY <1>2, <3>1, Zenon
  <2>6. ASSUME NEW j \in 1..m, j > i - n PROVE t[j].ref # o
    <3>1. n + j \in 1..(n + m) /\ n + j > i /\ q[n + j] = t[j]
      BY <1>1, <2>6
    <3> QED BY <2>1, <3>1, Zenon
  <2> QED BY <1>1, <2>1, <2>5, <2>6, Zenon DEF LastAbout
<1> QED BY <1>3, <1>4, <1>5, <1>6 DEF q

\* An appended event is the last about its object and changes nothing for the
\* others.
LEMMA AppendAbout ==
  ASSUME NEW S, NEW q \in Seq(S), NEW e \in S
  PROVE  /\ LastAbout(Append(q, e), e.ref, e)
         /\ ~Silent(Append(q, e), e.ref)
         /\ \A o : o # e.ref => (Silent(Append(q, e), o) <=> Silent(q, o))
         /\ \A o, f : o # e.ref /\ LastAbout(q, o, f) => LastAbout(Append(q, e), o, f)
<1>1. <<e>> \in Seq(S) /\ Append(q, e) = q \o <<e>>
  BY AppendIsConcat
<1>2. DOMAIN <<e>> = {1} /\ <<e>>[1] = e
  OBVIOUS
<1>3. ~(1 > 1)
  OBVIOUS
<1>4. /\ LastAbout(<<e>>, e.ref, e) /\ ~Silent(<<e>>, e.ref)
      /\ \A o : o # e.ref => Silent(<<e>>, o)
  BY <1>2, <1>3, Zenon DEF LastAbout, Silent
<1>5. \A o : Silent(q \o <<e>>, o) <=> Silent(q, o) /\ Silent(<<e>>, o)
  BY <1>1, SilentConcat, Zenon
<1>6. \A o, f : /\ LastAbout(<<e>>, o, f) => LastAbout(q \o <<e>>, o, f)
                /\ LastAbout(q, o, f) /\ Silent(<<e>>, o) => LastAbout(q \o <<e>>, o, f)
  BY <1>1, LastConcat, Zenon
<1> DEFINE r == q \o <<e>>
<1>7. /\ LastAbout(r, e.ref, e)
      /\ ~Silent(r, e.ref)
      /\ \A o : o # e.ref => (Silent(r, o) <=> Silent(q, o))
      /\ \A o, f : o # e.ref /\ LastAbout(q, o, f) => LastAbout(r, o, f)
  <2> HIDE DEF Silent, LastAbout
  <2> QED BY <1>4, <1>5, <1>6
<1> HIDE DEF r
<1> QED BY <1>1, <1>7 DEF r

-----------------------------------------------------------------------------

Events == I!Delta \cup I!Sync

\* The last event of a queue about o reports version v.
LastFor(q, o, v) == \E ev \in Events : LastAbout(q, o, ev) /\ Value(ev) = v

\* How the stages of the pipeline agree about o.  The informer's version c is
\* what the last pending notification of o says; else what the last queued
\* delta says; else, when no delta is on its way, what the control plane's row
\* r and every event of an unfinished snapshot say.  A restart may have lost the
\* delete of an object that is gone.
Agree(c, p, q, snaps, r, lost, o) ==
    /\ p # << >> => Value(p[Len(p)]) = c
    /\ p = << >> /\ ~Silent(q, o) => LastFor(q, o, c)
    /\ p = << >> /\ Silent(q, o) =>
          /\ r = c \/ (c = 0 /\ lost)
          /\ \A ev \in snaps : ev.ref = o => ev.ver = c

-----------------------------------------------------------------------------
(* What the control plane makes of a batch. *)

\* A batch that does not mention an object leaves its row alone.
LEMMA ApplySilent ==
  ASSUME NEW table, NEW q, NEW o \in Obj, Silent(q, o)
  PROVE  Apply(table, q)[o] = table[o]
BY DEF Apply, Silent

\* A row takes the version of the last event about it.
LEMMA ApplyLast ==
  ASSUME NEW table, NEW q \in Seq(Events), NEW o \in Obj, NEW v, LastFor(q, o, v)
  PROVE  Apply(table, q)[o] = v
<1> DEFINE about == {i \in DOMAIN q : q[i].ref = o}
<1>1. PICK i \in DOMAIN q :
          /\ q[i].ref = o /\ Value(q[i]) = v
          /\ \A j \in DOMAIN q : j > i => q[j].ref # o
  BY Zenon DEF LastFor, LastAbout
<1>2. DOMAIN q \subseteq Nat
  BY LenProperties
<1>3. i \in about /\ \A j \in about : i >= j
  <2>1. \A j \in about : ~(j > i) /\ j \in Nat /\ i \in Nat
    BY <1>1, <1>2, Zenon
  <2> QED BY <1>1, <2>1
<1>4. \A x \in about : (\A y \in about : x >= y) => x = i
  BY <1>2, <1>3
<1>5. Apply(table, q)[o] = IF about = {} THEN table[o] ELSE Value(q[Max(about)])
  BY Zenon DEF Apply
<1> HIDE DEF about
<1>6. Max(about) = i
  BY <1>3, <1>4, Zenon DEF Max
<1> QED BY <1>1, <1>3, <1>5, <1>6, Zenon

\* A batch in which every event about an object reports version c leaves the
\* row at c if there is such an event, and else alone.
LEMMA ApplyUniform ==
  ASSUME NEW table, NEW q \in Seq(Events), NEW o \in Obj, NEW c,
         \A i \in DOMAIN q : q[i].ref = o => Value(q[i]) = c
  PROVE  Apply(table, q)[o] \in {table[o], c}
<1> DEFINE about == {i \in DOMAIN q : q[i].ref = o}
<1>1. Apply(table, q)[o] = IF about = {} THEN table[o] ELSE Value(q[Max(about)])
  BY Zenon DEF Apply
<1>2. about \subseteq 1..Len(q) /\ Len(q) \in Nat
  BY LenProperties
<1>3. \A i \in about : Value(q[i]) = c
  OBVIOUS
<1> HIDE DEF about
<1>4. about # {} => Max(about) \in about
  BY <1>2, BoundedMax, Zenon
<1> QED BY <1>1, <1>3, <1>4, Zenon

-----------------------------------------------------------------------------
(* How Agree survives each change of its parts. *)

\* The informer changes its version and notifies.
LEMMA AgreeObserved ==
  ASSUME NEW c, NEW S, NEW p \in Seq(S), NEW e \in S, Value(e) = c,
         NEW q, NEW snaps, NEW r, NEW lost, NEW o
  PROVE  Agree(c, Append(p, e), q, snaps, r, lost, o)
<1>1. /\ Append(p, e) # << >>
      /\ Append(p, e)[Len(Append(p, e))] = e
  BY AppendProperties
<1> QED BY <1>1, Zenon DEF Agree

\* The handler turns the oldest notification of o into a queued delta.
LEMMA AgreeHandled ==
  ASSUME NEW o, NEW c, NEW S, NEW p \in Seq(S), p # << >>,
         NEW q \in Seq(Events), NEW ev \in Events,
         ev.ref = o, Value(ev) = Value(Head(p)),
         NEW snaps, NEW r, NEW lost, Agree(c, p, q, snaps, r, lost, o)
  PROVE  Agree(c, Tail(p), Append(q, ev), snaps, r, lost, o)
<1>1. LastAbout(Append(q, ev), o, ev) /\ ~Silent(Append(q, ev), o)
  BY AppendAbout, Zenon
<1>2. Value(p[Len(p)]) = c
  BY Zenon DEF Agree
<1>3. CASE Tail(p) = << >>
  <2>1. Len(p) = 1 /\ Head(p) = p[1]
    <3>1. Len(p) \in Nat \ {0} /\ Len(Tail(p)) = Len(p) - 1 /\ Head(p) = p[1]
      BY EmptySeq, HeadTailProperties
    <3>2. Len(Tail(p)) = 0
      <4>1. Tail(p) \in Seq(S)
        BY HeadTailProperties
      <4> QED BY <1>3, <4>1, EmptySeq, Zenon
    <3>3. Len(p) - 1 = 0
      BY <3>1, <3>2, Zenon
    <3>4. Len(p) = 1
      <4>1. \A n \in Nat : n - 1 = 0 => n = 1
        OBVIOUS
      <4> QED BY <3>1, <3>3, <4>1, Zenon
    <3> QED BY <3>1, <3>4, Zenon
  <2>2. Value(ev) = c
    BY <1>2, <2>1, Zenon
  <2>3. LastFor(Append(q, ev), o, c)
    BY <1>1, <2>2, Zenon DEF LastFor
  <2> QED BY <1>1, <1>3, <2>3, Zenon DEF Agree
<1>4. CASE Tail(p) # << >>
  <2>1. Tail(p)[Len(Tail(p))] = p[Len(p)]
    BY <1>4, EmptySeq, HeadTailProperties
  <2> QED BY <1>2, <1>4, <2>1, Zenon DEF Agree
<1> QED BY <1>3, <1>4

\* A delta of another object joins the queue.
LEMMA AgreeOther ==
  ASSUME NEW o, NEW c, NEW p, NEW q \in Seq(Events), NEW ev \in Events,
         ev.ref # o,
         NEW snaps, NEW r, NEW lost, Agree(c, p, q, snaps, r, lost, o)
  PROVE  Agree(c, p, Append(q, ev), snaps, r, lost, o)
<1>1. /\ Silent(Append(q, ev), o) <=> Silent(q, o)
      /\ \A f : LastAbout(q, o, f) => LastAbout(Append(q, ev), o, f)
  BY AppendAbout, Zenon
<1>2. LastFor(q, o, c) => LastFor(Append(q, ev), o, c)
  BY <1>1, Zenon DEF LastFor
<1> QED BY <1>1, <1>2, Zenon DEF Agree

\* The control plane applied the deltas d at the head of the queue, which leave
\* it or, if their answer was lost, are queued again.
LEMMA AgreeApplied ==
  ASSUME NEW o \in Obj, NEW c, NEW p, NEW d \in Seq(Events), NEW b \in Seq(Events),
         NEW table, NEW lost, Agree(c, p, d \o b, {}, table[o], lost, o)
  PROVE  /\ Agree(c, p, b, {}, Apply(table, d)[o], lost, o)
         /\ Agree(c, p, d \o b, {}, Apply(table, d)[o], lost, o)
<1>1. Silent(d \o b, o) <=> Silent(d, o) /\ Silent(b, o)
  BY SilentConcat, Zenon
<1>2. \A f : /\ LastAbout(d \o b, o, f) /\ Silent(b, o) => LastAbout(d, o, f)
             /\ LastAbout(d \o b, o, f) /\ ~Silent(b, o) => LastAbout(b, o, f)
  BY LastConcat, Zenon
<1>3. /\ LastFor(d \o b, o, c) /\ Silent(b, o) => LastFor(d, o, c)
      /\ LastFor(d \o b, o, c) /\ ~Silent(b, o) => LastFor(b, o, c)
  <2> HIDE DEF Silent, LastAbout
  <2> QED BY <1>2 DEF LastFor
<1>4. Silent(d, o) => Apply(table, d)[o] = table[o]
  BY ApplySilent, Zenon
<1>5. LastFor(d, o, c) => Apply(table, d)[o] = c
  BY ApplyLast, Zenon
<1> QED BY <1>1, <1>3, <1>4, <1>5, Zenon DEF Agree

\* The control plane may have applied a batch of a snapshot, and fewer events
\* of the snapshot remain.
LEMMA AgreeSnapshot ==
  ASSUME NEW o \in Obj, NEW c, NEW p, NEW q, NEW s \in Seq(Events),
         NEW snaps \in SUBSET I!Sync, Range(s) \subseteq snaps,
         NEW left \in SUBSET snaps, NEW table, NEW lost,
         Agree(c, p, q, snaps, table[o], lost, o)
  PROVE  /\ Agree(c, p, q, left, table[o], lost, o)
         /\ Agree(c, p, q, left, Apply(table, s)[o], lost, o)
<1>1. Agree(c, p, q, left, table[o], lost, o)
  BY Zenon DEF Agree
<1>2. CASE p = << >> /\ Silent(q, o)
  <2>1. \A ev \in snaps : ev.ref = o => ev.ver = c
    BY <1>2, Zenon DEF Agree
  <2>2. ASSUME NEW i \in DOMAIN s, s[i].ref = o PROVE Value(s[i]) = c
    <3>1. s[i] \in snaps /\ s[i] \in I!Sync
      BY Zenon DEF Range
    <3>2. s[i].op # "delete"
      BY <3>1 DEF I!Sync
    <3> QED BY <2>1, <2>2, <3>1, <3>2, Zenon DEF Value
  <2>3. Apply(table, s)[o] \in {table[o], c}
    BY <2>2, ApplyUniform, Zenon
  <2> QED BY <1>1, <1>2, <2>3, Zenon DEF Agree
<1>3. CASE ~(p = << >> /\ Silent(q, o))
  BY <1>1, <1>3, Zenon DEF Agree
<1> QED BY <1>1, <1>2, <1>3

\* The events that remain of a snapshot are as good as the informer's store.
LEMMA AgreeFresh ==
  ASSUME NEW o, NEW c, NEW p, NEW q, NEW snaps, NEW left, NEW r, NEW lost,
         \A ev \in left : ev.ref = o => ev \in snaps \/ ev.ver = c,
         Agree(c, p, q, snaps, r, lost, o)
  PROVE  Agree(c, p, q, left, r, lost, o)
BY Zenon DEF Agree

-----------------------------------------------------------------------------
(* The inductive invariant. *)

\* The deltas of the batch in flight, those still to be applied, and the events
\* of an unfinished snapshot.
InFlight == IF pc = "sent" /\ ~cur.full THEN cur.events ELSE << >>
Queue == InFlight \o buf
Snaps == (IF pc = "sent" /\ cur.full THEN Range(cur.events) ELSE {}) \cup Range(rest)

Note == [op : {"add", "update", "delete"}, ver : 1..MaxVersion]

\* The notification of a change that brings the store up to date.
Noted(o) ==
    CASE cluster[o] = 0 -> [op |-> "delete", ver |-> cache[o]]
      [] cache[o] = 0   -> [op |-> "add", ver |-> cluster[o]]
      [] OTHER          -> [op |-> "update", ver |-> cluster[o]]

InformerType ==
    /\ version \in 1..MaxVersion
    /\ cluster \in [Obj -> 0..MaxVersion] /\ cache \in [Obj -> 0..MaxVersion]
    /\ pending \in [Obj -> Seq(Note)]

\* The uploader's queues, nothing being spilled.  Only a snapshot leaves events
\* in rest, and only until one of its batches fails.
QueueType ==
    /\ buf \in Seq(I!Delta) /\ spill = << >> /\ rest \in Seq(I!Sync)
    /\ cur.full \in BOOLEAN
    /\ pc = "sent" /\ cur.full => cur.events \in Seq(I!Sync)
    /\ pc = "sent" /\ ~cur.full => cur.events \in Seq(I!Delta)
    /\ rest # << >> => \/ pc = "snapshot"
                       \/ pc \in {"sent", "persist", "write"} /\ cur.full
    /\ pc = "snapshot" => rest # << >>
    /\ restarts \in Nat

Agreement ==
    \A o \in Obj :
        Agree(cache[o], pending[o], Queue, Snaps, rows[o], restarts > 0, o)

SyncInv == InformerType /\ QueueType /\ Agreement /\ produced \in Nat

\* When nothing is on its way, agreement is what MirrorsCluster says.
LEMMA AgreementMirrors == SyncInv => MirrorsCluster
<1> SUFFICES ASSUME SyncInv, Quiet, NEW o \in Obj
             PROVE  rows[o] = cluster[o] \/ (cluster[o] = 0 /\ restarts > 0)
  BY Zenon DEF MirrorsCluster
<1>1. cache[o] = cluster[o] /\ pending[o] = << >> /\ buf = << >> /\ pc # "sent"
  BY DEF Quiet
<1>2. Queue = << >> \o << >>
  BY <1>1, Zenon DEF Queue, InFlight
<1>3. Silent(Queue, o)
  <2>1. Queue = << >>
    BY <1>2, EmptySeq, ConcatEmptySeq, Zenon
  <2> QED BY <2>1 DEF Silent
<1> QED BY <1>1, <1>3, Zenon DEF SyncInv, Agreement, Agree

\* The parts of a queue that batchLen cuts.
LEMMA Cut ==
  ASSUME NEW S, NEW s \in Seq(S), s # << >>
  PROVE  /\ U!Front(s) \in Seq(S) /\ U!Back(s) \in Seq(S)
         /\ s = U!Front(s) \o U!Back(s)
         /\ Range(s) = Range(U!Front(s)) \cup Range(U!Back(s))
<1> DEFINE m == Min({BatchSize, Len(s)})
           Stops == {i \in 1..m : \/ i = m
                                  \/ ~(U!PrefixBytes(s, i + 1) <= MaxBatchBytes)}
<1>0. \A T : U!Min(T) = Min(T)
  BY Zenon DEF U!Min, Min
<1>1. Len(s) \in Nat \ {0} /\ BatchSize \in Nat \ {0}
  BY EmptySeq, SyncAssumption
<1>2. m \in Nat \ {0} /\ m <= Len(s)
  <2> HIDE DEF Min
  <2>1. m \in {BatchSize, Len(s)} /\ m <= Len(s)
    BY <1>1, MinOfTwo
  <2> QED BY <1>1, <2>1
<1>3. U!BatchLen(s) = Min(Stops)
  BY <1>0, Zenon DEF U!BatchLen
<1> HIDE DEF m
<1>4. Stops \subseteq 1..m /\ m \in Stops
  <2>1. m \in 1..m
    BY <1>2
  <2> QED BY <2>1, Zenon
<1> HIDE DEF Stops
<1>5. Stops \in SUBSET Nat /\ Stops # {}
  BY <1>2, <1>4
<1>6. Min(Stops) \in Stops
  <2> HIDE DEF Min
  <2> QED BY <1>5, NatMin, Zenon
<1> DEFINE n == U!BatchLen(s)
<1>7. n \in 1..m
  BY <1>3, <1>4, <1>6, Zenon
<1> HIDE DEF n
<1>8. n \in 0..Len(s)
  BY <1>1, <1>2, <1>7
<1>9. /\ SubSeq(s, 1, n) \in Seq(S) /\ SubSeq(s, n + 1, Len(s)) \in Seq(S)
      /\ Range(s) = Range(SubSeq(s, 1, n)) \cup Range(SubSeq(s, n + 1, Len(s)))
      /\ s = SubSeq(s, 1, n) \o SubSeq(s, n + 1, Len(s))
  BY <1>8, RangeCut, CutConcat, Zenon
<1> QED BY <1>9, Zenon DEF U!Front, U!Back, n

\* A snapshot consists of sync events that report what the stores hold.
LEMMA SnapshotEvents ==
  ASSUME InformerType, NEW events \in I!Snapshot
  PROVE  /\ events \in Seq(I!Sync)
         /\ \A ev \in Range(events) : ev.ver = cache[ev.ref]
<1> DEFINE cached == {o \in Obj : cache[o] # 0}
           n == I!Cardinality(cached)
           Event(o) == [op |-> "sync", ref |-> o, ver |-> cache[o]]
<1>1. PICK order \in [1..n -> cached] : events = [i \in 1..n |-> Event(order[i])]
  BY Zenon DEF I!Snapshot, I!Bijection, I!Injection
<1>2. n \in Nat
  <2>1. n = Cardinality(cached)
    BY Zenon DEF Cardinality, I!Cardinality
  <2>2. IsFiniteSet(cached)
    BY SyncAssumption, FS_Subset, Zenon
  <2> QED BY <2>1, <2>2, FS_CardinalityType, Zenon
<1>3. \A o \in cached : Event(o) \in I!Sync /\ Event(o).ver = cache[Event(o).ref]
  <2>1. \A o \in cached : o \in Obj /\ cache[o] \in 1..MaxVersion
    BY SyncAssumption DEF InformerType
  <2> QED BY <2>1 DEF I!Sync
<1> HIDE DEF cached, n, Event
<1>4. DOMAIN events = 1..n /\ \A i \in 1..n : events[i] = Event(order[i]) /\ order[i] \in cached
  BY <1>1, Zenon
<1>5. \A i \in 1..n : events[i] \in I!Sync /\ events[i].ver = cache[events[i].ref]
  BY <1>3, <1>4, Zenon
<1>6. events \in Seq(I!Sync)
  <2>1. events \in [1..n -> I!Sync]
    BY <1>1, <1>4, <1>5, Zenon
  <2> QED BY <1>2, <2>1
<1> QED BY <1>4, <1>5, <1>6, Zenon DEF Range

-----------------------------------------------------------------------------
(* The informers' steps. *)

\* A notification says what the store holds from then on.
LEMMA NotedType ==
  ASSUME InformerType, NEW o \in Obj, cache[o] # cluster[o]
  PROVE  Noted(o) \in Note /\ Value(Noted(o)) = cluster[o]
<1>1. /\ cache[o] \in 0..MaxVersion /\ cluster[o] \in 0..MaxVersion
      /\ MaxVersion \in Nat
  BY SyncAssumption DEF InformerType
<1>2. /\ cluster[o] = 0 => cache[o] \in 1..MaxVersion
      /\ cluster[o] # 0 => cluster[o] \in 1..MaxVersion
  BY <1>1
<1> QED BY <1>2 DEF Noted, Note, Value

\* The API server and the informers keep their types.
LEMMA InformerTypeNext ==
  ASSUME InformerType, [Next]_vars
  PROVE  InformerType'
<1> USE SyncAssumption DEF InformerType
<1>1. ASSUME NEW o \in Obj, I!ClusterWrite(o) PROVE InformerType'
  BY <1>1 DEF I!ClusterWrite
<1>2. ASSUME NEW o \in Obj, I!ClusterDelete(o) PROVE InformerType'
  BY <1>2 DEF I!ClusterDelete
<1>3. ASSUME NEW o \in Obj, I!Observe(o) PROVE InformerType'
  <2>1. Noted(o) \in Note /\ cluster[o] \in 0..MaxVersion
    BY <1>3, NotedType, Zenon DEF I!Observe
  <2>2. pending' = [pending EXCEPT ![o] = Append(pending[o], Noted(o))]
    BY <1>3, Zenon DEF I!Observe, Noted
  <2>3. Append(pending[o], Noted(o)) \in Seq(Note)
    BY <2>1, AppendProperties, Zenon
  <2>4. pending' \in [Obj -> Seq(Note)]
    BY <2>2, <2>3, Zenon
  <2> QED BY <1>3, <2>1, <2>4, Zenon DEF I!Observe
<1>4. ASSUME NEW o \in Obj, I!Handle(o) PROVE InformerType'
  <2>1. pending[o] \in Seq(Note) /\ pending[o] # << >>
    BY <1>4, Zenon DEF I!Handle
  <2>2. Tail(pending[o]) \in Seq(Note)
    BY <2>1, HeadTailProperties, Zenon
  <2> QED BY <1>4, <2>2, Zenon DEF I!Handle
<1>5. CASE I!Restart
  <2>1. << >> \in Seq(Note) /\ 0 \in 0..MaxVersion
    BY EmptySeq
  <2> QED BY <1>5, <2>1, Zenon DEF I!Restart
<1>6. CASE UNCHANGED informerVars
  BY <1>6, Zenon DEF informerVars
<1>7. \/ \E o \in Obj : \/ I!ClusterWrite(o) \/ I!ClusterDelete(o)
                       \/ I!Observe(o) \/ I!Handle(o)
      \/ I!Restart
      \/ UNCHANGED informerVars
  BY Zenon DEF Next, vars, ClusterStep, Observe, Handle, Signal, RunStep,
               Snapshot, SendOK, SendErr, LocalStep, Restart
<1> QED BY <1>1, <1>2, <1>3, <1>4, <1>5, <1>6, <1>7, Zenon

-----------------------------------------------------------------------------
(* The uploader's steps. *)

\* What Queue and Snaps are made of.
LEMMA QueueParts ==
  ASSUME QueueType
  PROVE  /\ InFlight \in Seq(I!Delta) /\ Queue \in Seq(I!Delta)
         /\ InFlight \in Seq(Events) /\ buf \in Seq(Events) /\ Queue \in Seq(Events)
         /\ Snaps \subseteq I!Sync
         /\ pc # "sent" => Queue = buf /\ Snaps = Range(rest)
<1>1. InFlight \in Seq(I!Delta) /\ buf \in Seq(I!Delta)
  BY EmptySeq, Zenon DEF InFlight, QueueType
<1>2. Queue \in Seq(I!Delta)
  BY <1>1, ConcatProperties, Zenon DEF Queue
<1>3. \A q \in Seq(I!Delta) : q \in Seq(Events)
  <2>1. I!Delta \subseteq Events
    BY Zenon DEF Events
  <2> QED BY <2>1, SeqMonotonic, Zenon
<1>4. \A q \in Seq(I!Sync) : Range(q) \subseteq I!Sync
  <2> SUFFICES ASSUME NEW q \in Seq(I!Sync) PROVE Range(q) \subseteq I!Sync
    BY Zenon
  <2>1. DOMAIN q = 1..Len(q) /\ \A i \in 1..Len(q) : q[i] \in I!Sync
    BY LenProperties, ElementOfSeq, Zenon
  <2> QED BY <2>1, Zenon DEF Range
<1>5. Range(rest) \subseteq I!Sync
  BY <1>4, Zenon DEF QueueType
<1>6. Snaps \subseteq I!Sync
  BY <1>4, <1>5, Zenon DEF QueueType, Snaps
<1>7. pc # "sent" => Queue = buf /\ Snaps = Range(rest)
  BY <1>1, ConcatEmptySeq, Zenon DEF Queue, InFlight, Snaps
<1> QED BY <1>1, <1>2, <1>3, <1>6, <1>7, Zenon

\* A step that moves no event: the queue stays as it is, and nothing is added
\* to the snapshot that is being sent.
Calm == /\ QueueType' /\ Queue' = Queue /\ Snaps' \subseteq Snaps
        /\ restarts' = restarts

\* Run's variables that matter here are unchanged.
LEMMA CalmUnchanged ==
  ASSUME QueueType, UNCHANGED <<buf, spill, rest, cur, pc, restarts>>
  PROVE  Calm
<1>1. QueueType'
  BY Zenon DEF QueueType
<1> QED BY <1>1, Zenon DEF Calm, Queue, InFlight, Snaps

\* Run goes from one place to another where no batch is in flight.
LEMMA CalmMove ==
  ASSUME QueueType, UNCHANGED <<buf, spill, rest, restarts>>,
         pc # "sent", pc' # "sent", cur'.full \in BOOLEAN,
         pc' = "snapshot" => rest # << >>,
         rest # << >> => pc' = "snapshot" \/ (pc' = "write" /\ cur'.full)
  PROVE  Calm
<1>1. QueueType'
  BY Zenon DEF QueueType
<1>2. /\ Queue = buf /\ Snaps = Range(rest)
      /\ Queue' = buf' /\ Snaps' = Range(rest')
  <2>1. buf' \in Seq(I!Delta) /\ buf \in Seq(I!Delta)
    BY <1>1, Zenon DEF QueueType
  <2> QED BY <2>1, ConcatEmptySeq, Zenon DEF Queue, InFlight, Snaps
<1>3. buf' = buf /\ rest' = rest
  OBVIOUS
<1> QED BY <1>1, <1>2, <1>3, Zenon DEF Calm

\* What sendBatch puts in flight.
LEMMA Transmitted ==
  ASSUME NEW events, NEW full, U!Transmit(events, full)
  PROVE  cur'.events = events /\ cur'.full = full /\ pc' = "sent"
BY DEF U!Transmit

\* Every step of Run but the start of a snapshot and the answer to a request.
LEMMA CalmLocal ==
  ASSUME QueueType, LocalStep
  PROVE  Calm
<1>1. CASE U!ContinueSnapshot
  <2>1. /\ pc = "snapshot" /\ rest # << >> /\ rest \in Seq(I!Sync)
        /\ rest' = U!Back(rest) /\ U!Transmit(U!Front(rest), TRUE)
        /\ UNCHANGED <<buf, spill, restarts>>
    BY <1>1, Zenon DEF U!ContinueSnapshot, QueueType, U!queueVars, U!faultVars
  <2>2. cur'.events = U!Front(rest) /\ cur'.full /\ pc' = "sent"
    BY <2>1, Transmitted, ZenonT(30)
  <2>3. /\ U!Front(rest) \in Seq(I!Sync) /\ U!Back(rest) \in Seq(I!Sync)
        /\ Range(rest) = Range(U!Front(rest)) \cup Range(U!Back(rest))
    BY <2>1, Cut, Zenon
  <2>4. pc # "sent" /\ pc' # "snapshot"
    BY <2>1, <2>2
  <2>5. QueueType'
    BY <2>1, <2>2, <2>3, <2>4, Zenon DEF QueueType
  <2>6. Queue' = Queue
    BY <2>1, <2>2, <2>4, Zenon DEF Queue, InFlight
  <2>7. Snaps' \subseteq Snaps
    BY <2>1, <2>2, <2>3, Zenon DEF Snaps
  <2> QED BY <2>1, <2>5, <2>6, <2>7, Zenon DEF Calm
<1>2. CASE U!Take
  <2>1. /\ pc = "loop" /\ buf # << >> /\ U!Dispatch(buf)
        /\ UNCHANGED <<spill, rest, restarts>>
    BY <1>2, Zenon DEF U!Take, U!faultVars
  <2>2. buf' = U!Back(buf) /\ U!Transmit(U!Front(buf), FALSE)
    BY <2>1, Zenon DEF U!Dispatch
  <2>3. cur'.events = U!Front(buf) /\ ~cur'.full /\ cur'.full \in BOOLEAN /\ pc' = "sent"
    BY <2>2, Transmitted, ZenonT(30)
  <2>4. /\ U!Front(buf) \in Seq(I!Delta) /\ U!Back(buf) \in Seq(I!Delta)
        /\ buf = U!Front(buf) \o U!Back(buf)
    <3>1. buf \in Seq(I!Delta)
      BY Zenon DEF QueueType
    <3> QED BY <2>1, <3>1, Cut, Zenon
  <2>5. rest = << >> /\ pc # "sent" /\ pc' # "snapshot"
    BY <2>1, <2>3 DEF QueueType
  <2>6. QueueType'
    BY <2>1, <2>2, <2>3, <2>4, <2>5, Zenon DEF QueueType
  <2>7. Queue = buf
    BY <2>5, QueueParts, Zenon
  <2>8. Queue' = U!Front(buf) \o U!Back(buf)
    BY <2>2, <2>3, Zenon DEF Queue, InFlight
  <2>9. Snaps' \subseteq Snaps
    BY <2>1, <2>3, Zenon DEF Snaps
  <2> QED BY <2>1, <2>4, <2>6, <2>7, <2>8, <2>9, Zenon DEF Calm
<1>3. CASE U!TakeSpilled
  <2>1. PICK k \in 0..Len(spill) :
            /\ U!Dispatch(SubSeq(spill, 1, k))
            /\ spill' = << >> \/ spill' = spill
    BY <1>3, Zenon DEF U!TakeSpilled
  <2>2. /\ pc = "loop" /\ buf = << >>
        /\ UNCHANGED <<rest, restarts>>
    BY <1>3, Zenon DEF U!TakeSpilled
  <2>3. SubSeq(spill, 1, k) = << >> /\ spill' = spill
    <3>1. spill = << >>
      BY Zenon DEF QueueType
    <3>2. k = 0
      BY <3>1
    <3>3. SubSeq(<< >>, 1, 0) = << >>
      OBVIOUS
    <3> QED BY <2>1, <3>1, <3>2, <3>3, Zenon
  <2>4. buf' = << >> /\ pc' = "idle" /\ cur' = cur
    BY <2>1, <2>3, Zenon DEF U!Dispatch
  <2>5. /\ pc # "sent" /\ pc' # "sent" /\ pc' # "snapshot" /\ rest = << >>
        /\ cur'.full \in BOOLEAN
    BY <2>2, <2>4 DEF QueueType
  <2> QED BY <2>2, <2>3, <2>4, <2>5, CalmMove, Zenon
<1>4. CASE U!Sleep \/ U!Wake
  <2>1. /\ pc \in {"backoff", "idle"} /\ pc' = "loop" /\ cur' = cur
        /\ UNCHANGED <<buf, spill, rest, restarts>>
    BY <1>4, Zenon DEF U!Sleep, U!Wake, U!queueVars, U!faultVars
  <2>2. /\ pc # "sent" /\ pc' # "sent" /\ pc' # "snapshot" /\ rest = << >>
        /\ cur'.full \in BOOLEAN
    BY <2>1 DEF QueueType
  <2> QED BY <2>1, <2>2, CalmMove, Zenon
<1>5. CASE U!PersistTruncate \/ U!PersistWrite
  <2>1. /\ pc \in {"persist", "write"}
        /\ (pc' = "write" /\ UNCHANGED <<cur, rest>>) \/ U!AfterSend
        /\ UNCHANGED <<buf, spill, restarts>>
    BY <1>5, Zenon DEF U!PersistTruncate, U!PersistWrite, U!queueVars
  <2>2. rest # << >> => cur.full
    BY <2>1 DEF QueueType
  <2>3. CASE pc' = "write" /\ UNCHANGED <<cur, rest>>
    <3>1. /\ pc # "sent" /\ pc' # "sent" /\ pc' # "snapshot"
          /\ cur'.full \in BOOLEAN
          /\ rest # << >> => cur'.full
      BY <2>1, <2>2, <2>3 DEF QueueType
    <3> QED BY <2>1, <2>3, <3>1, CalmMove, Zenon
  <2>4. CASE U!AfterSend
    <3>1. cur' = U!NoBatch /\ rest' = rest
      BY <2>4, Zenon DEF U!AfterSend
    <3>2. cur'.full \in BOOLEAN
      BY <3>1 DEF U!NoBatch
    <3>3. /\ rest # << >> => pc' = "snapshot"
          /\ rest = << >> => pc' = "loop"
      BY <2>2, <2>4, Zenon DEF U!AfterSend
    <3>4. /\ pc # "sent" /\ pc' # "sent"
          /\ pc' = "snapshot" => rest # << >>
      BY <2>1, <3>3
    <3> QED BY <2>1, <3>1, <3>2, <3>3, <3>4, CalmMove, Zenon
  <2> QED BY <2>1, <2>3, <2>4
<1> QED BY <1>1, <1>2, <1>3, <1>4, <1>5, Zenon DEF LocalStep

\* An Enqueue that finds room, as a step of the queue.
LEMMA QueueEnqueue ==
  ASSUME QueueType, NEW ev \in I!Delta, U!Enqueue(ev), Len(buf) < Capacity
  PROVE  /\ QueueType' /\ Queue' = Append(Queue, ev) /\ Snaps' = Snaps
         /\ restarts' = restarts
<1>1. Capacity \in Nat /\ Len(buf) \in Nat
  BY SyncAssumption, LenProperties DEF QueueType
<1>2. ~(Len(buf) >= Capacity)
  BY <1>1
<1>3. /\ buf' = Append(buf, ev)
      /\ UNCHANGED <<spill, rest, cur, pc, restarts>>
  BY <1>2, Zenon DEF U!Enqueue, U!loopVars
<1>4. Append(buf, ev) \in Seq(I!Delta)
  BY AppendProperties, Zenon DEF QueueType
<1>5. QueueType'
  BY <1>3, <1>4, Zenon DEF QueueType
<1>6. InFlight' = InFlight /\ Snaps' = Snaps
  BY <1>3, Zenon DEF InFlight, Snaps
<1>7. Queue' = InFlight \o Append(buf, ev)
  BY <1>3, <1>6, Zenon DEF Queue
<1>8. InFlight \in Seq(I!Delta) /\ buf \in Seq(I!Delta) /\ Queue \in Seq(I!Delta)
  BY QueueParts, Zenon DEF QueueType
<1>9. InFlight \o Append(buf, ev) = Append(InFlight \o buf, ev)
  <2>1. \A s, t \in Seq(I!Delta) : s \o Append(t, ev) = Append(s \o t, ev)
    BY ConcatAppend
  <2> QED BY <1>8, <2>1, Zenon
<1> QED BY <1>3, <1>5, <1>6, <1>7, <1>9, Zenon DEF Queue

\* An answer to a request, whichever it is: the batch in flight is acknowledged
\* or put back, and a snapshot goes on with the rest of its events or is given
\* up.
LEMMA QueueAnswer ==
  ASSUME QueueType, U!SendOK \/ U!SendErr
  PROVE  /\ QueueType' /\ pc = "sent" /\ restarts' = restarts
         /\ Snaps' \subseteq Snaps
         /\ cur.full => Queue' = Queue
         /\ ~cur.full => /\ InFlight = cur.events /\ Snaps = {}
                         /\ pc' = "persist" => Queue' = buf
                         /\ pc' # "persist" => Queue' = Queue
<1>1. CASE U!SendOK
  <2>1. /\ pc = "sent" /\ pc' = "persist"
        /\ UNCHANGED <<buf, spill, cur, rest, restarts>>
    BY <1>1, Zenon DEF U!SendOK, U!queueVars, U!faultVars
  <2>2. pc' # "sent" /\ pc' # "snapshot" /\ (rest # << >> => cur.full)
    BY <2>1 DEF QueueType
  <2>3. QueueType'
    BY <2>1, <2>2, Zenon DEF QueueType
  <2>4. Queue' = << >> \o buf /\ Snaps' = Range(rest)
    BY <2>1, <2>2, Zenon DEF Queue, InFlight, Snaps
  <2>5. << >> \o buf = buf
    BY ConcatEmptySeq, Zenon DEF QueueType
  <2>6. Snaps' \subseteq Snaps
    BY <2>4, Zenon DEF Snaps
  <2>7. cur.full => Queue = << >> \o buf
    BY Zenon DEF Queue, InFlight
  <2>8. ~cur.full => InFlight = cur.events
    BY <2>1, Zenon DEF InFlight
  <2>9. ~cur.full => Snaps = {}
    <3>1. Range(<< >>) = {}
      BY DEF Range
    <3> QED BY <2>2, <3>1, Zenon DEF Snaps
  <2> QED BY <2>1, <2>3, <2>4, <2>5, <2>6, <2>7, <2>8, <2>9, Zenon
<1>2. CASE U!SendErr
  <2>1. /\ pc = "sent" /\ pc' = "backoff" /\ rest' = << >> /\ cur' = cur
        /\ UNCHANGED <<spill, restarts>>
        /\ cur.full => buf' = buf
        /\ ~cur.full => buf' = cur.events \o buf
    BY <1>2, Zenon DEF U!SendErr, U!RequeueFront
  <2>2. /\ pc' # "sent" /\ pc' # "snapshot" /\ pc' # "persist"
        /\ rest # << >> => cur.full
    BY <2>1 DEF QueueType
  <2>3. << >> \in Seq(I!Sync)
    BY EmptySeq, Zenon
  <2>4. ~cur.full => InFlight = cur.events /\ Queue = cur.events \o buf
    BY <2>1, Zenon DEF Queue, InFlight
  <2>5. buf' \in Seq(I!Delta)
    <3>1. Queue \in Seq(I!Delta) /\ buf \in Seq(I!Delta)
      BY QueueParts, Zenon DEF QueueType
    <3> QED BY <2>1, <2>4, <3>1, Zenon
  <2>6. QueueType'
    BY <2>1, <2>2, <2>3, <2>5, Zenon DEF QueueType
  <2>7. Queue' = << >> \o buf' /\ Snaps' = Range(<< >>)
    BY <2>1, <2>2, Zenon DEF Queue, InFlight, Snaps
  <2>8. << >> \o buf' = buf'
    BY <2>5, ConcatEmptySeq, Zenon
  <2>9. Range(<< >>) = {}
    BY DEF Range
  <2>10. cur.full => Queue = << >> \o buf
    BY Zenon DEF Queue, InFlight
  <2>11. << >> \o buf = buf
    BY ConcatEmptySeq, Zenon DEF QueueType
  <2>12. ~cur.full => Snaps = {}
    BY <2>2, <2>9, Zenon DEF Snaps
  <2> QED BY <2>1, <2>2, <2>4, <2>6, <2>7, <2>8, <2>9, <2>10, <2>11, <2>12, Zenon
<1> QED BY <1>1, <1>2

-----------------------------------------------------------------------------
(* Every step keeps the agreement. *)

\* The state of each part when the agent is first started.
LEMMA SyncInit == Init => SyncInv
<1> SUFFICES ASSUME Init PROVE SyncInv
  OBVIOUS
<1>0. << >> \in Seq(Note) /\ << >> \in Seq(I!Delta) /\ << >> \in Seq(I!Sync)
  BY EmptySeq, Zenon
<1>1. InformerType
  <2>1. 1 \in 1..MaxVersion /\ 0 \in 0..MaxVersion /\ 1 \in 0..MaxVersion
    BY SyncAssumption
  <2> QED BY <1>0, <2>1, Zenon DEF Init, I!Init, InformerType
<1>2. /\ buf = << >> /\ spill = << >> /\ rest = << >> /\ restarts = 0
      /\ pc = "loop" /\ cur = U!NoBatch
  BY Zenon DEF Init, U!Init
<1>3. cur.full \in BOOLEAN /\ pc # "sent" /\ pc # "snapshot" /\ restarts \in Nat
  BY <1>2 DEF U!NoBatch
<1>4. QueueType
  BY <1>0, <1>2, <1>3, Zenon DEF QueueType
<1>5. Queue = << >> /\ Snaps = Range(<< >>)
  BY <1>2, <1>3, <1>4, QueueParts, Zenon
<1>6. Range(<< >>) = {} /\ \A o : Silent(<< >>, o)
  BY DEF Range, Silent
<1>7. ASSUME NEW o \in Obj
      PROVE  cache[o] = 0 /\ pending[o] = << >> /\ rows[o] = 0
  BY Zenon DEF Init, I!Init
<1>8. Agreement
  BY <1>5, <1>6, <1>7, Zenon DEF Agreement, Agree
<1>9. produced \in Nat
  BY DEF Init, U!Init
<1> QED BY <1>1, <1>4, <1>8, <1>9, Zenon DEF SyncInv

\* Steps that move no event.
LEMMA AgreementCalm ==
  ASSUME SyncInv, Calm, UNCHANGED <<cache, pending, rows>>
  PROVE  QueueType' /\ Agreement'
<1> SUFFICES ASSUME NEW o \in Obj
             PROVE  Agree(cache[o], pending[o], Queue, Snaps', rows[o], restarts > 0, o)
  BY Zenon DEF Calm, Agreement
<1>1. Agree(cache[o], pending[o], Queue, Snaps, rows[o], restarts > 0, o)
  BY Zenon DEF SyncInv, Agreement
<1>2. Snaps' \subseteq Snaps
  BY Zenon DEF Calm
<1> HIDE DEF Snaps, Queue
<1> QED BY <1>1, <1>2, AgreeFresh, Zenon

\* The store of an informer changes and a notification is queued.
LEMMA AgreementObserve ==
  ASSUME SyncInv, NEW x \in Obj, Observe(x)
  PROVE  QueueType' /\ Agreement'
<1>1. /\ cache[x] # cluster[x]
      /\ cache' = [cache EXCEPT ![x] = cluster[x]]
      /\ pending' = [pending EXCEPT ![x] = Append(pending[x], Noted(x))]
      /\ rows' = rows
  BY Zenon DEF Observe, I!Observe, Noted
<1>2. UNCHANGED <<buf, spill, rest, cur, pc, restarts>>
  BY Zenon DEF Observe, uploaderVars
<1>3. QueueType' /\ Queue' = Queue /\ Snaps' = Snaps /\ restarts' = restarts
  BY <1>2, Zenon DEF SyncInv, QueueType, Queue, InFlight, Snaps
<1>4. InformerType
  BY Zenon DEF SyncInv
<1>5. Noted(x) \in Note /\ Value(Noted(x)) = cluster[x]
  BY <1>1, <1>4, NotedType, Zenon
<1>6. ASSUME NEW o \in Obj
      PROVE  Agree(cache'[o], pending'[o], Queue, Snaps, rows[o], restarts > 0, o)
  <2>1. CASE o = x
    <3>1. cache'[x] = cluster[x] /\ pending'[x] = Append(pending[x], Noted(x))
      BY <1>1, <1>4, Zenon DEF InformerType
    <3>2. pending[x] \in Seq(Note)
      BY <1>4, Zenon DEF InformerType
    <3> QED BY <1>5, <2>1, <3>1, <3>2, AgreeObserved, Zenon
  <2>2. CASE o # x
    <3>1. cache'[o] = cache[o] /\ pending'[o] = pending[o]
      BY <1>1, <1>4, <2>2, Zenon DEF InformerType
    <3> QED BY <3>1, Zenon DEF SyncInv, Agreement
  <2> QED BY <2>1, <2>2
<1> QED BY <1>1, <1>3, <1>6, Zenon DEF Agreement

\* toEvent keeps what the notification says.
LEMMA EventType ==
  ASSUME NEW x \in Obj, pending[x] \in Seq(Note), pending[x] # << >>
  PROVE  /\ I!ToEvent(x) \in I!Delta /\ I!ToEvent(x) \in Events
         /\ I!ToEvent(x).ref = x
         /\ Value(I!ToEvent(x)) = Value(Head(pending[x]))
<1>1. Head(pending[x]) \in Note
  BY HeadTailProperties, Zenon
<1>2. /\ Head(pending[x]).op \in {"add", "update", "delete"}
      /\ Head(pending[x]).ver \in 1..MaxVersion
  BY <1>1 DEF Note
<1> QED BY <1>2 DEF I!ToEvent, I!Delta, Events, Value

\* The handler passes the oldest notification to an uploader that has room.
LEMMA AgreementHandle ==
  ASSUME SyncInv, NEW x \in Obj, Handle(x), Len(buf) < Capacity
  PROVE  QueueType' /\ Agreement'
<1> DEFINE ev == I!ToEvent(x)
<1>1. /\ pending[x] # << >>
      /\ pending' = [pending EXCEPT ![x] = Tail(pending[x])]
      /\ cache' = cache /\ rows' = rows /\ U!Enqueue(ev)
  BY Zenon DEF Handle, I!Handle
<1>2. pending \in [Obj -> Seq(Note)] /\ pending[x] \in Seq(Note)
  BY Zenon DEF SyncInv, InformerType
<1>3. ev \in I!Delta /\ ev \in Events /\ ev.ref = x /\ Value(ev) = Value(Head(pending[x]))
  BY <1>1, <1>2, EventType, Zenon
<1> HIDE DEF ev
<1>4. /\ QueueType' /\ Queue' = Append(Queue, ev) /\ Snaps' = Snaps
      /\ restarts' = restarts
  BY <1>1, <1>3, QueueEnqueue, Zenon DEF SyncInv
<1>5. Queue \in Seq(Events)
  BY QueueParts, Zenon DEF SyncInv
<1>6. ASSUME NEW o \in Obj
      PROVE  Agree(cache[o], pending'[o], Append(Queue, ev), Snaps, rows[o], restarts > 0, o)
  <2>1. Agree(cache[o], pending[o], Queue, Snaps, rows[o], restarts > 0, o)
    BY Zenon DEF SyncInv, Agreement
  <2> HIDE DEF Queue, Snaps
  <2>2. CASE o = x
    <3>1. pending'[x] = Tail(pending[x])
      BY <1>1, <1>2, Zenon
    <3> QED BY <1>1, <1>2, <1>3, <1>5, <2>1, <2>2, <3>1, AgreeHandled, Zenon
  <2>3. CASE o # x
    <3>1. pending'[o] = pending[o]
      BY <1>1, <1>2, <2>3, Zenon
    <3> QED BY <1>3, <1>5, <2>1, <2>3, <3>1, AgreeOther, Zenon
  <2> QED BY <2>2, <2>3
<1>7. Agreement'
  <2> SUFFICES ASSUME NEW o \in Obj
               PROVE  Agree(cache'[o], pending'[o], Queue', Snaps', rows'[o], restarts' > 0, o)
    BY Zenon DEF Agreement
  <2>1. cache' = cache /\ rows' = rows /\ Queue' = Append(Queue, ev) /\ Snaps' = Snaps
    BY <1>1, <1>4, Zenon
  <2> QED BY <1>4, <1>6, <2>1, Zenon
<1> QED BY <1>4, <1>7

\* A snapshot starts.
LEMMA AgreementSnapshot ==
  ASSUME SyncInv, Snapshot
  PROVE  QueueType' /\ Agreement'
<1>1. PICK events \in I!Snapshot : U!BeginSnapshot(events)
  BY Zenon DEF Snapshot
<1>2. cache' = cache /\ pending' = pending /\ rows' = rows
  BY Zenon DEF Snapshot, informerVars
<1>3. /\ pc = "loop" /\ UNCHANGED <<buf, spill, restarts>>
  BY <1>1, Zenon DEF U!BeginSnapshot, U!queueVars, U!faultVars
<1>4. InformerType /\ QueueType
  BY Zenon DEF SyncInv
<1>5. CASE events = << >>
  <2>1. UNCHANGED <<pc, cur, rest>>
    BY <1>1, <1>5, Zenon DEF U!BeginSnapshot
  <2>2. Calm
    BY <1>3, <1>4, <2>1, CalmUnchanged, Zenon
  <2> QED BY <1>2, <2>2, AgreementCalm, Zenon
<1>6. CASE events # << >>
  <2>1. rest' = U!Back(events) /\ U!Transmit(U!Front(events), TRUE)
    BY <1>1, <1>6, Zenon DEF U!BeginSnapshot
  <2>2. cur'.events = U!Front(events) /\ cur'.full /\ pc' = "sent"
    BY <2>1, Transmitted, ZenonT(30)
  <2>3. /\ events \in Seq(I!Sync)
        /\ \A ev \in Range(events) : ev.ver = cache[ev.ref]
    BY <1>4, SnapshotEvents, Zenon
  <2>4. /\ U!Front(events) \in Seq(I!Sync) /\ U!Back(events) \in Seq(I!Sync)
        /\ Range(events) = Range(U!Front(events)) \cup Range(U!Back(events))
    BY <1>6, <2>3, Cut, Zenon
  <2>5. pc # "sent" /\ pc' # "snapshot" /\ pc' \in {"sent", "persist", "write"}
    BY <1>3, <2>2
  <2>6. QueueType'
    BY <1>3, <1>4, <2>1, <2>2, <2>4, <2>5, Zenon DEF QueueType
  <2>7. Queue' = Queue
    BY <1>3, <2>2, <2>5, Zenon DEF Queue, InFlight
  <2>8. Snaps' = Range(events)
    BY <2>1, <2>2, <2>4, Zenon DEF Snaps
  <2>9. ASSUME NEW o \in Obj
        PROVE  Agree(cache[o], pending[o], Queue, Range(events), rows[o], restarts > 0, o)
    <3>1. Agree(cache[o], pending[o], Queue, Snaps, rows[o], restarts > 0, o)
      BY Zenon DEF SyncInv, Agreement
    <3> HIDE DEF Queue, Snaps
    <3>2. \A ev \in Range(events) : ev.ref = o => ev.ver = cache[o]
      BY <2>3, Zenon
    <3> QED BY <3>1, <3>2, AgreeFresh, Zenon
  <2> QED BY <1>2, <1>3, <2>6, <2>7, <2>8, <2>9, Zenon DEF Agreement
<1> QED BY <1>5, <1>6

\* A request is answered, or its answer is lost.
LEMMA AgreementAnswer ==
  ASSUME SyncInv, SendOK \/ SendErr
  PROVE  QueueType' /\ Agreement'
<1>1. /\ U!SendOK \/ U!SendErr
      /\ rows' \in {rows, Apply(rows, cur.events)}
      /\ cache' = cache /\ pending' = pending
  BY Zenon DEF SendOK, SendErr, informerVars
<1>2. QueueType
  BY Zenon DEF SyncInv
<1>3. /\ QueueType' /\ pc = "sent" /\ restarts' = restarts
      /\ Snaps' \subseteq Snaps
      /\ cur.full => Queue' = Queue
      /\ ~cur.full => /\ InFlight = cur.events /\ Snaps = {}
                      /\ pc' = "persist" => Queue' = buf
                      /\ pc' # "persist" => Queue' = Queue
  BY <1>1, <1>2, QueueAnswer, Zenon
<1>4. \A o \in Obj : Agree(cache[o], pending[o], Queue, Snaps, rows[o], restarts > 0, o)
  BY Zenon DEF SyncInv, Agreement
<1>5. InFlight \in Seq(Events) /\ buf \in Seq(Events) /\ Snaps \subseteq I!Sync
  BY <1>2, QueueParts, Zenon
<1>6. CASE cur.full
  <2>1. cur.events \in Seq(I!Sync) /\ Range(cur.events) \subseteq Snaps
    BY <1>2, <1>3, <1>6, Zenon DEF QueueType, Snaps
  <2>2. cur.events \in Seq(Events)
    <3>1. I!Sync \subseteq Events
      BY Zenon DEF Events
    <3> QED BY <2>1, <3>1, SeqMonotonic, Zenon
  <2>3. ASSUME NEW o \in Obj
        PROVE  Agree(cache[o], pending[o], Queue, Snaps', rows'[o], restarts > 0, o)
    <3> HIDE DEF Queue, Snaps
    <3>1. /\ Agree(cache[o], pending[o], Queue, Snaps', rows[o], restarts > 0, o)
          /\ Agree(cache[o], pending[o], Queue, Snaps', Apply(rows, cur.events)[o], restarts > 0, o)
      BY <1>3, <1>4, <1>5, <2>1, <2>2, AgreeSnapshot, Zenon
    <3> QED BY <1>1, <3>1, Zenon
  <2> QED BY <1>1, <1>3, <1>6, <2>3, Zenon DEF Agreement
<1>7. CASE ~cur.full
  <2>1. Snaps = {} /\ Snaps' = {} /\ cur.events \in Seq(Events)
    BY <1>3, <1>5, <1>7, Zenon
  <2>2. Queue = cur.events \o buf
    BY <1>3, <1>7, Zenon DEF Queue
  <2>3. \/ Queue' = buf /\ rows' = Apply(rows, cur.events)
        \/ Queue' = Queue
    <3>1. SendOK => pc' = "persist" /\ rows' = Apply(rows, cur.events)
      BY Zenon DEF SendOK, U!SendOK
    <3>2. SendErr => pc' # "persist"
      <4>1. SendErr => pc' = "backoff"
        BY Zenon DEF SendErr, U!SendErr
      <4> QED BY <4>1
    <3> QED BY <1>3, <1>7, <3>1, <3>2, Zenon
  <2>4. ASSUME NEW o \in Obj
        PROVE  Agree(cache[o], pending[o], Queue', {}, rows'[o], restarts > 0, o)
    <3> HIDE DEF Queue, Snaps
    <3>1. Agree(cache[o], pending[o], cur.events \o buf, {}, rows[o], restarts > 0, o)
      BY <1>4, <2>1, <2>2, Zenon
    <3>2. /\ Agree(cache[o], pending[o], buf, {}, Apply(rows, cur.events)[o], restarts > 0, o)
          /\ Agree(cache[o], pending[o], cur.events \o buf, {},
                   Apply(rows, cur.events)[o], restarts > 0, o)
      BY <1>5, <2>1, <3>1, AgreeApplied, Zenon
    <3>3. CASE Queue' = buf /\ rows' = Apply(rows, cur.events)
      BY <3>2, <3>3, Zenon
    <3>4. CASE Queue' = Queue
      BY <1>1, <2>2, <3>1, <3>2, <3>4, Zenon
    <3> QED BY <2>3, <3>3, <3>4, Zenon
  <2> QED BY <1>1, <1>3, <2>1, <2>4, Zenon DEF Agreement
<1> QED BY <1>2, <1>6, <1>7, Zenon DEF QueueType

\* A new process knows nothing; the control plane keeps its rows.
LEMMA AgreementRestart ==
  ASSUME SyncInv, Restart
  PROVE  QueueType' /\ Agreement'
<1>1. /\ restarts' = restarts + 1 /\ buf' = << >> /\ rest' = << >>
      /\ pc' = "loop" /\ cur' = U!NoBatch /\ spill' = spill
  BY Zenon DEF Restart, U!Restart
<1>2. /\ cache' = [o \in Obj |-> 0] /\ pending' = [o \in Obj |-> << >>]
  BY Zenon DEF Restart, I!Restart
<1>3. << >> \in Seq(I!Delta) /\ << >> \in Seq(I!Sync)
  BY EmptySeq, Zenon
<1>4. /\ restarts' \in Nat /\ restarts' > 0
      /\ cur'.full \in BOOLEAN /\ pc' # "sent" /\ pc' # "snapshot"
  BY <1>1 DEF SyncInv, QueueType, U!NoBatch
<1>5. QueueType'
  BY <1>1, <1>3, <1>4, Zenon DEF SyncInv, QueueType
<1>6. Queue' = << >> \o << >> /\ Snaps' = Range(<< >>)
  BY <1>1, <1>4, Zenon DEF Queue, InFlight, Snaps
<1>7. << >> \o << >> = << >>
  BY <1>3, ConcatEmptySeq, Zenon
<1>8. Range(<< >>) = {} /\ \A o : Silent(<< >>, o)
  BY DEF Range, Silent
<1>9. \A o \in Obj : cache'[o] = 0 /\ pending'[o] = << >>
  BY <1>2, Zenon
<1> QED BY <1>4, <1>5, <1>6, <1>7, <1>8, <1>9, Zenon DEF Agreement, Agree

\* Enqueue finds room, if it is called.
Room == produced' > produced => Len(buf) < Capacity

\* Only the handler calls Enqueue.
LEMMA ProducedNext ==
  ASSUME [Next]_vars
  PROVE  \/ \E o \in Obj : Handle(o) /\ produced < MaxEvents /\ produced' = produced + 1
         \/ produced' = produced
<1> USE DEF U!queueVars, U!seqVars, U!loopVars, U!faultVars
<1>1. ASSUME NEW o \in Obj, Handle(o)
      PROVE  produced < MaxEvents /\ produced' = produced + 1
  BY <1>1, Zenon DEF Handle, U!Enqueue
<1>2. CASE ClusterStep \/ \E o \in Obj : Observe(o)
  BY <1>2, Zenon DEF ClusterStep, Observe, uploaderVars
<1>3. CASE Signal \/ Snapshot \/ SendOK \/ SendErr
  BY <1>3, Zenon DEF Signal, U!Signal, Snapshot, U!BeginSnapshot,
                     SendOK, U!SendOK, SendErr, U!SendErr
<1>4. CASE LocalStep
  BY <1>4, Zenon DEF LocalStep, U!ContinueSnapshot, U!Take, U!TakeSpilled,
                     U!Sleep, U!PersistTruncate, U!PersistWrite, U!Wake
<1>5. CASE Restart
  BY <1>5, Zenon DEF Restart, U!Restart
<1>6. CASE UNCHANGED vars
  BY <1>6, Zenon DEF vars, uploaderVars
<1> QED BY <1>1, <1>2, <1>3, <1>4, <1>5, <1>6, Zenon DEF Next, RunStep

\* The invariant is inductive as long as nothing is spilled.
LEMMA SyncNext == SyncInv /\ [Next]_vars /\ [Room]_vars => SyncInv'
<1> SUFFICES ASSUME SyncInv, [Next]_vars, [Room]_vars
             PROVE  SyncInv'
  OBVIOUS
<1>10. InformerType'
  BY InformerTypeNext, Zenon DEF SyncInv
<1>11. produced' \in Nat
  <2>1. produced \in Nat /\ (produced' = produced + 1 \/ produced' = produced)
    BY ProducedNext, Zenon DEF SyncInv
  <2> QED BY <2>1
<1> SUFFICES QueueType' /\ Agreement'
  BY <1>10, <1>11, Zenon DEF SyncInv
<1>0. QueueType
  BY Zenon DEF SyncInv
<1>1. CASE ClusterStep
  <2>1. /\ UNCHANGED <<buf, spill, rest, cur, pc, restarts>>
        /\ UNCHANGED <<cache, pending, rows>>
    BY <1>1, Zenon DEF ClusterStep, I!ClusterWrite, I!ClusterDelete, uploaderVars
  <2> QED BY <1>0, <2>1, CalmUnchanged, AgreementCalm, Zenon
<1>2. ASSUME NEW o \in Obj, Observe(o) PROVE QueueType' /\ Agreement'
  BY <1>2, AgreementObserve, Zenon
<1>3. ASSUME NEW o \in Obj, Handle(o) PROVE QueueType' /\ Agreement'
  <2>1. produced' = produced + 1 /\ produced \in Nat
    BY <1>3, Zenon DEF Handle, U!Enqueue, SyncInv
  <2>2. produced' > produced /\ produced' # produced
    BY <2>1
  <2>3. Len(buf) < Capacity
    BY <2>2, Zenon DEF Room, vars, uploaderVars
  <2> QED BY <1>3, <2>3, AgreementHandle, Zenon
<1>4. CASE Signal
  <2>1. /\ UNCHANGED <<buf, spill, rest, cur, pc, restarts>>
        /\ UNCHANGED <<cache, pending, rows>>
    BY <1>4, Zenon DEF Signal, U!Signal, U!loopVars, U!faultVars, informerVars
  <2> QED BY <1>0, <2>1, CalmUnchanged, AgreementCalm, Zenon
<1>5. CASE Snapshot
  BY <1>5, AgreementSnapshot, Zenon
<1>6. CASE SendOK \/ SendErr
  BY <1>6, AgreementAnswer, Zenon
<1>7. CASE LocalStep
  <2>1. UNCHANGED <<cache, pending, rows>>
    BY <1>7, Zenon DEF LocalStep, informerVars
  <2> QED BY <1>0, <1>7, <2>1, CalmLocal, AgreementCalm, Zenon
<1>8. CASE Restart
  BY <1>8, AgreementRestart, Zenon
<1>9. CASE UNCHANGED vars
  <2>1. /\ UNCHANGED <<buf, spill, rest, cur, pc, restarts>>
        /\ UNCHANGED <<cache, pending, rows>>
    BY <1>9, Zenon DEF vars, informerVars, uploaderVars
  <2> QED BY <1>0, <2>1, CalmUnchanged, AgreementCalm, Zenon
<1> QED
  BY <1>1, <1>2, <1>3, <1>4, <1>5, <1>6, <1>7, <1>8, <1>9, Zenon DEF Next, RunStep

\* A snapshot, when it starts, does not touch the deltas.
LEMMA SnapshotQueue ==
  ASSUME Snapshot
  PROVE  Queue' = Queue
<1>1. PICK events \in I!Snapshot : U!BeginSnapshot(events)
  BY Zenon DEF Snapshot
<1>2. pc = "loop" /\ buf' = buf
  BY <1>1, Zenon DEF U!BeginSnapshot, U!queueVars
<1>3. CASE events = << >>
  <2>1. pc' = pc /\ cur' = cur
    BY <1>1, <1>3, Zenon DEF U!BeginSnapshot
  <2> QED BY <1>2, <2>1, Zenon DEF Queue, InFlight
<1>4. CASE events # << >>
  <2>1. U!Transmit(U!Front(events), TRUE)
    BY <1>1, <1>4, Zenon DEF U!BeginSnapshot
  <2>2. cur'.full /\ pc # "sent"
    BY <1>2, <2>1, Transmitted, ZenonT(30)
  <2> QED BY <1>2, <2>2, Zenon DEF Queue, InFlight
<1> QED BY <1>3, <1>4

\* The queue is no longer than the number of events ever enqueued.
Short == Len(Queue) <= produced

\* A buffer with room for every event there may be never overflows.
LEMMA ShortNext ==
  ASSUME MaxEvents \in Nat, MaxEvents <= Capacity,
         SyncInv, Short, [Next]_vars
  PROVE  Short' /\ [Room]_vars
<1>1. /\ QueueType /\ InformerType
      /\ produced \in Nat /\ Len(Queue) <= produced
  BY Zenon DEF SyncInv, Short
<1>2. /\ Len(Queue) \in Nat /\ Len(buf) \in Nat /\ Len(buf) <= Len(Queue)
  <2>1. InFlight \in Seq(I!Delta) /\ buf \in Seq(I!Delta)
    BY <1>1, QueueParts, Zenon DEF QueueType
  <2>2. /\ Len(InFlight) \in Nat /\ Len(buf) \in Nat
        /\ Len(InFlight \o buf) = Len(InFlight) + Len(buf)
    BY <2>1, ConcatDomain, Zenon
  <2> HIDE DEF InFlight
  <2> QED BY <2>2 DEF Queue
<1>3. ASSUME NEW o \in Obj, Handle(o), produced < MaxEvents
      PROVE  Len(buf) < Capacity /\ Len(Queue') = Len(Queue) + 1
  <2>1. Len(buf) < Capacity
    BY <1>1, <1>2, <1>3, SyncAssumption
  <2>2. pending[o] # << >> /\ pending[o] \in Seq(Note) /\ U!Enqueue(I!ToEvent(o))
    BY <1>1, <1>3, Zenon DEF Handle, I!Handle, InformerType
  <2>3. I!ToEvent(o) \in I!Delta
    BY <2>2, EventType, Zenon
  <2>4. Queue' = Append(Queue, I!ToEvent(o))
    BY <1>1, <2>1, <2>2, <2>3, QueueEnqueue, Zenon
  <2>5. Queue \in Seq(I!Delta)
    BY <1>1, QueueParts, Zenon
  <2>6. Len(Append(Queue, I!ToEvent(o))) = Len(Queue) + 1
    BY <2>3, <2>5, AppendProperties, Zenon
  <2> QED BY <2>1, <2>4, <2>6, Zenon
<1>4. ASSUME ~(\E o \in Obj : Handle(o)) PROVE Queue' \in {Queue, buf, << >>}
  <2>1. CASE UNCHANGED <<buf, spill, rest, cur, pc, restarts>>
    BY <1>1, <2>1, CalmUnchanged, Zenon DEF Calm
  <2>2. CASE SendOK \/ SendErr
    <3>1. U!SendOK \/ U!SendErr
      BY <2>2, Zenon DEF SendOK, SendErr
    <3> QED BY <1>1, <3>1, QueueAnswer, Zenon
  <2>3. CASE Snapshot
    BY <2>3, SnapshotQueue, Zenon
  <2>4. CASE LocalStep
    BY <1>1, <2>4, CalmLocal, Zenon DEF Calm
  <2>5. CASE Restart
    <3>1. pc' = "loop" /\ buf' = << >>
      BY <2>5, Zenon DEF Restart, U!Restart
    <3>2. pc' # "sent"
      BY <3>1
    <3>3. Queue' = << >> \o << >>
      BY <3>1, <3>2, Zenon DEF Queue, InFlight
    <3> QED BY <3>3, EmptySeq, ConcatEmptySeq, Zenon
  <2>6. CASE ClusterStep \/ (\E o \in Obj : Observe(o)) \/ Signal \/ UNCHANGED vars
    <3>1. UNCHANGED <<buf, spill, rest, cur, pc, restarts>>
      BY <2>6, Zenon DEF ClusterStep, Observe, Signal, U!Signal, U!loopVars,
                         U!faultVars, vars, uploaderVars
    <3> QED BY <2>1, <3>1
  <2> QED BY <1>4, <2>2, <2>3, <2>4, <2>5, <2>6, Zenon DEF Next, RunStep
<1>5. CASE \E o \in Obj : Handle(o)
  <2>1. PICK o \in Obj : Handle(o)
    BY <1>5
  <2>2. produced < MaxEvents /\ produced' = produced + 1
    BY <2>1, Zenon DEF Handle, U!Enqueue
  <2>3. Len(buf) < Capacity /\ Len(Queue') = Len(Queue) + 1
    BY <1>3, <2>1, <2>2, Zenon
  <2>4. Len(Queue') <= produced'
    BY <1>1, <1>2, <2>2, <2>3
  <2> QED BY <2>3, <2>4, Zenon DEF Short, Room
<1>6. CASE ~\E o \in Obj : Handle(o)
  <2>1. produced' = produced
    BY <1>6, ProducedNext, Zenon
  <2>2. Queue' \in {Queue, buf, << >>}
    BY <1>4, <1>6, Zenon
  <2>3. Len(<< >>) = 0
    OBVIOUS
  <2>4. Len(Queue') \in {Len(Queue), Len(buf), 0}
    BY <2>2, <2>3, Zenon
  <2>5. Len(Queue') <= produced' /\ ~(produced' > produced)
    BY <1>1, <1>2, <2>1, <2>4
  <2> QED BY <2>5, Zenon DEF Short, Room
<1> QED BY <1>5, <1>6

-----------------------------------------------------------------------------
\* As long as Enqueue finds room in the buffer, the control plane mirrors the
\* cluster whenever nothing is on its way, for every number of objects, failed
\* and half-failed sends, file faults and restarts.
THEOREM NoOverflowMirrors == Spec /\ NoOverflow => []MirrorsCluster
<1>1. NoOverflow <=> [][Room]_vars
  BY DEF NoOverflow, Room
<1> QED BY <1>1, SyncInit, SyncNext, AgreementMirrors, PTL DEF Spec

\* A buffer that can hold every event never overflows, so the control plane
\* mirrors the cluster whenever nothing is on its way.
THEOREM LargeBufferMirrors ==
  ASSUME MaxEvents \in Nat, MaxEvents <= Capacity
  PROVE  Spec => []MirrorsCluster
<1>1. Init => Short
  <2> SUFFICES ASSUME Init PROVE Short
    OBVIOUS
  <2>1. QueueType /\ buf = << >> /\ pc = "loop" /\ produced = 0
    BY SyncInit, Zenon DEF SyncInv, Init, U!Init
  <2>2. pc # "sent"
    BY <2>1
  <2>3. Queue = << >>
    BY <2>1, <2>2, QueueParts, Zenon
  <2>4. Len(<< >>) <= 0
    OBVIOUS
  <2> QED BY <2>1, <2>3, <2>4, Zenon DEF Short
<1>2. SyncInv /\ Short /\ [Next]_vars => SyncInv' /\ Short'
  BY SyncNext, ShortNext, Zenon
<1> QED BY <1>1, <1>2, SyncInit, AgreementMirrors, PTL DEF Spec
=============================================================================
