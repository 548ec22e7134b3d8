---------------------------- MODULE DrainProofs -----------------------------
(***************************************************************************)
(* Proofs about Drain: type correctness, that a successful drain has had   *)
(* every pod of its node deleted, and how handlers report their outcome.   *)
(***************************************************************************)
EXTENDS Drain, TLAPS

Status == Terminal \cup {"validating", "progress"}

\* The last element of a sequence of reports after one or two more.
LEMMA LastReport ==
  ASSUME NEW s \in Seq(Status), NEW a \in Status, NEW b \in Status
  PROVE  /\ s \o <<a>> \in Seq(Status) /\ s \o <<a>> # << >> /\ Last(s \o <<a>>) = a
         /\ s \o <<a, b>> \in Seq(Status) /\ s \o <<a, b>> # << >>
         /\ Last(s \o <<a, b>>) = b
  BY DEF Last

\* The initial states are well typed.
LEMMA TypeInit == Init => TypeOK
<1> SUFFICES ASSUME Init PROVE TypeOK
  OBVIOUS
<1> USE DrainAssumption
<1>1. reports \in [Handler -> Seq(Terminal \cup {"validating", "progress"})]
  BY DEF Init
<1>2. cancelled \in BOOLEAN /\ reopened \in [Drains -> BOOLEAN]
  BY Zenon DEF Init
<1>3. waited \in [Handler -> 0..StallRetries] /\ cordoned \in SUBSET Node
  BY DEF Init
<1>4. /\ pc \in [Handler -> {"queued", "list", "evict", "done"}]
      /\ todo \in [Handler -> SUBSET Evictable]
      /\ current \in [Handler -> Evictable \cup {Nowhere}]
      /\ \A h \in Handler : pc[h] # "evict"
  BY DEF Init
<1>5. leaving \in SUBSET Pod /\ \A p \in leaving : where[p] # Nowhere
  BY DEF Init
<1> QED BY <1>1, <1>2, <1>3, <1>4, <1>5 DEF Init, TypeOK

\* Every step preserves the types.
LEMMA TypeNext == TypeOK /\ [Next]_vars => TypeOK'
<1> SUFFICES ASSUME TypeOK, [Next]_vars PROVE TypeOK'
  OBVIOUS
<1> USE DrainAssumption
<1>0. \A s \in Seq(Status), a, b \in Status :
          s \o <<a>> \in Seq(Status) /\ s \o <<a, b>> \in Seq(Status)
  BY LastReport, Zenon
<1>0a. reports \in [Handler -> Seq(Status)] /\ pc \in [Handler -> {"queued", "list", "evict", "done"}]
  BY DEF TypeOK, Status
<1>0b. {"validating", "progress", "succeeded", "failed"} \subseteq Status
  BY DEF Status, Terminal
<1>s. ASSUME NEW h \in Handler, NEW a \in Status, Say(h, <<a>>)
      PROVE  reports' \in [Handler -> Seq(Status)]
  BY <1>0, <1>0a, <1>s DEF Say
<1>t. ASSUME NEW h \in Handler, NEW a \in Status, NEW b \in Status, Say(h, <<a, b>>)
      PROVE  reports' \in [Handler -> Seq(Status)]
  BY <1>0, <1>0a, <1>t DEF Say
<1>f. ApiFault => faults' \in Nat
  BY DEF ApiFault, TypeOK
<1>r. ASSUME NEW n \in Node, Reopen(n)
      PROVE  cordoned' \in SUBSET Node /\ reopened' \in [Drains -> BOOLEAN]
  BY <1>r DEF Reopen, TypeOK
<1>1. ASSUME NEW h \in Drains, Cordon(h) PROVE TypeOK'
  <2>1. h \in Handler /\ NodeOf[h] \in Node
    BY DEF Handler
  <2>2. reports' \in [Handler -> Seq(Status)]
    BY <1>1, <1>s, <1>t, <1>0b, <2>1 DEF Cordon, Finish
  <2>3. pc' \in [Handler -> {"queued", "list", "done"} \cup {"evict"}]
        /\ \A g \in Handler : pc'[g] = "evict" => pc[g] = "evict"
    BY <1>1, <1>0a, <2>1, ZenonT(60) DEF Cordon, Finish, GoTo
  <2>4. reopened' \in [Drains -> BOOLEAN]
    BY <1>1, Zenon DEF Cordon, TypeOK
  <2>5. cordoned' \in SUBSET Node /\ faults' \in Nat
    BY <1>1, <1>f, <2>1 DEF Cordon, ApiAnswers, TypeOK
  <2> QED BY <1>1, <2>2, <2>3, <2>4, <2>5 DEF Cordon, TypeOK, Status
<1>2. ASSUME NEW h \in Drains, ListPods(h) PROVE TypeOK'
  <2>1. h \in Handler /\ NodeOf[h] \in Node
    BY DEF Handler
  <2>2. reports' \in [Handler -> Seq(Status)]
    BY <1>2, <1>s, <1>0a, <1>0b, <2>1 DEF ListPods, Finish
  <2>3. faults' \in Nat
    BY <1>2, <1>f DEF ListPods, ApiAnswers, TypeOK
  <2>4. /\ pc' \in [Handler -> {"queued", "list", "evict", "done"}]
        /\ todo' \in [Handler -> SUBSET Evictable]
        /\ current' \in [Handler -> Evictable \cup {Nowhere}]
        /\ \A g \in Handler : pc'[g] = "evict" => current'[g] \in todo'[g]
    <3>1. CASE UNCHANGED <<todo, current>> /\ GoTo(h, "done")
      BY <2>1, <3>1 DEF GoTo, TypeOK
    <3>2. ASSUME NEW listed \in SUBSET Evictable, NEW p \in listed, GoTo(h, "evict"),
                 todo' = [todo EXCEPT ![h] = listed], current' = [current EXCEPT ![h] = p]
          PROVE  /\ pc' \in [Handler -> {"queued", "list", "evict", "done"}]
                 /\ todo' \in [Handler -> SUBSET Evictable]
                 /\ current' \in [Handler -> Evictable \cup {Nowhere}]
                 /\ \A g \in Handler : pc'[g] = "evict" => current'[g] \in todo'[g]
      BY <2>1, <3>2 DEF GoTo, TypeOK
    <3>3. {p \in Evictable : where[p] = NodeOf[h]} \in SUBSET Evictable
      OBVIOUS
    <3> QED BY <1>2, <3>1, <3>2, <3>3, Zenon DEF ListPods, Finish
  <2> QED BY <1>2, <2>2, <2>3, <2>4 DEF ListPods, TypeOK, Status
<1>3. ASSUME NEW h \in Drains, Evict(h) PROVE TypeOK'
  <2>1. h \in Handler /\ current[h] \in Evictable
    BY <1>3 DEF Handler, Evict, TypeOK
  <2>2. reports' \in [Handler -> Seq(Status)]
    BY <1>3, <1>s, <1>t, <1>0a, <1>0b, <2>1 DEF Evict, Evicted, Refused, Finish
  <2>3. faults' \in Nat
    BY <1>3, <1>f DEF Evict, ApiAnswers, TypeOK
  <2>4. /\ pc' \in [Handler -> {"queued", "list", "evict", "done"}]
        /\ todo' \in [Handler -> SUBSET Evictable]
        /\ current' \in [Handler -> Evictable \cup {Nowhere}]
        /\ \A g \in Handler : pc'[g] = "evict" => current'[g] \in todo'[g]
    <3>1. CASE Refused(h)
      BY <2>1, <3>1, Zenon DEF Refused, Finish, GoTo, TypeOK
    <3>2. CASE Evicted(h)
      <4>1. CASE GoTo(h, "done") /\ UNCHANGED current
        BY <2>1, <3>2, <4>1 DEF Evicted, GoTo, TypeOK
      <4>2. CASE UNCHANGED pc /\ \E p \in todo[h] \ {current[h]} : current' = [current EXCEPT ![h] = p]
        BY <2>1, <3>2, <4>2 DEF Evicted, TypeOK
      <4> QED BY <3>2, <4>1, <4>2 DEF Evicted, Finish
    <3> QED BY <1>3, <3>1, <3>2 DEF Evict
  <2>5. waited' \in [Handler -> 0..StallRetries]
    <3>1. /\ waited \in [Handler -> 0..StallRetries]
          /\ 0 \in 0..StallRetries
          /\ ~ (waited[h] >= StallRetries) => waited[h] + 1 \in 0..StallRetries
      BY <2>1 DEF TypeOK
    <3>2. CASE Refused(h)
      BY <3>1, <3>2 DEF Refused, Stalled, Paused
    <3>3. CASE Evicted(h)
      BY <3>1, <3>3, Zenon DEF Evicted
    <3> QED BY <1>3, <3>2, <3>3 DEF Evict
  <2>6. /\ where' \in [Pod -> Node \cup {Nowhere}]
        /\ leaving' \in SUBSET Pod /\ \A p \in leaving' : where'[p] # Nowhere
    <3>1. \/ leaving' = leaving
          \/ leaving' = leaving \cup {current[h]} /\ where[current[h]] # Nowhere
      BY <1>3, Zenon DEF Evict, NotFound
    <3>2. UNCHANGED where
      BY <1>3, Zenon DEF Evict
    <3> QED BY <2>1, <3>1, <3>2, Zenon DEF TypeOK
  <2> QED BY <1>3, <2>2, <2>3, <2>4, <2>5, <2>6, Zenon DEF Evict, TypeOK, Status
<1>4. ASSUME NEW h \in Uncordons, Uncordon(h) PROVE TypeOK'
  <2>1. h \in Handler /\ NodeOf[h] \in Node
    BY DEF Handler
  <2>2. reports' \in [Handler -> Seq(Status)]
    BY <1>4, <1>t, <1>0b, <2>1 DEF Uncordon, Finish
  <2>3. pc' \in [Handler -> {"queued", "list", "evict", "done"}]
        /\ \A g \in Handler : pc'[g] = "evict" => pc[g] = "evict"
    BY <1>4, <1>0a, <2>1, Zenon DEF Uncordon, Finish, GoTo
  <2>4. cordoned' \in SUBSET Node /\ reopened' \in [Drains -> BOOLEAN]
    BY <1>4, <1>r, <2>1 DEF Uncordon, TypeOK
  <2>5. faults' \in Nat
    BY <1>4, <1>f DEF Uncordon, ApiAnswers, TypeOK
  <2> QED BY <1>4, <2>2, <2>3, <2>4, <2>5, Zenon DEF Uncordon, TypeOK, Status
<1>5. ASSUME ClusterStep PROVE TypeOK'
  <2>1. where' \in [Pod -> Node \cup {Nowhere}] /\ blocked' \in SUBSET Evictable
    BY <1>5, ZenonT(60) DEF ClusterStep, TypeOK
  <2>4. leaving' \in SUBSET Pod /\ \A p \in leaving' : where'[p] # Nowhere
    BY <1>5 DEF ClusterStep, TypeOK
  <2>2. cordoned' \in SUBSET Node /\ reopened' \in [Drains -> BOOLEAN]
    BY <1>5, <1>r DEF ClusterStep, TypeOK
  <2>3. cancelled' \in BOOLEAN
    BY <1>5, Zenon DEF ClusterStep, TypeOK
  <2> QED BY <1>5, <2>1, <2>2, <2>3, <2>4 DEF ClusterStep, TypeOK
<1>6. ASSUME UNCHANGED vars PROVE TypeOK'
  BY <1>6 DEF vars, TypeOK
<1> QED BY <1>1, <1>2, <1>3, <1>4, <1>5, <1>6 DEF Next, DrainNode

\* Drain keeps its types, so the wait for a blocked pod never exceeds the stall
\* timeout and a drain at work always has a listed pod in hand.
THEOREM TypeCorrect == Spec => []TypeOK
  BY TypeInit, TypeNext, PTL DEF Spec

-----------------------------------------------------------------------------
\* Once a drain has cordoned its node and while nobody reopens it, the node stays
\* cordoned; from the listing on, only listed pods and such as are being deleted
\* can be on it.
Relies(h) == pc[h] \in {"list", "evict"} \/ Reported(h, "succeeded")
DrainInv ==
    \A h \in Drains :
        /\ Reported(h, "succeeded") => pc[h] = "done"
        /\ Relies(h) /\ ~reopened[h] => NodeOf[h] \in cordoned
        /\ pc[h] = "evict" /\ ~reopened[h]
           => \A p \in Evictable : where[p] = NodeOf[h] => p \in todo[h] \cup leaving
        /\ Reported(h, "succeeded") /\ ~reopened[h]
           => \A p \in Evictable : where[p] = NodeOf[h] => p \in leaving

\* Every step preserves DrainInv.
LEMMA DrainInvNext == TypeOK /\ DrainInv /\ [Next]_vars => DrainInv'
<1> SUFFICES ASSUME TypeOK, DrainInv, [Next]_vars PROVE DrainInv'
  OBVIOUS
<1> USE DrainAssumption
<1>0a. reports \in [Handler -> Seq(Status)] /\ pc \in [Handler -> {"queued", "list", "evict", "done"}]
  BY DEF TypeOK, Status
<1>0b. /\ "validating" \in Status /\ "progress" \in Status
       /\ "succeeded" \in Status /\ "failed" \in Status
       /\ Drains \subseteq Handler
  BY DEF Status, Terminal, Handler
\* A step of another handler, or of the cluster.
<1>o. ASSUME NEW g \in Drains, pc'[g] = pc[g], reports'[g] = reports[g], todo'[g] = todo[g],
             ~reopened'[g] => ~reopened[g] /\ (NodeOf[g] \in cordoned => NodeOf[g] \in cordoned'),
             \A p \in Evictable :
                NodeOf[g] \in cordoned /\ where'[p] = NodeOf[g]
                    => where[p] = NodeOf[g] /\ (p \in leaving => p \in leaving')
      PROVE  /\ Reported(g, "succeeded")' => pc'[g] = "done"
             /\ Relies(g)' /\ ~reopened'[g] => NodeOf[g] \in cordoned'
             /\ pc'[g] = "evict" /\ ~reopened'[g]
                => \A p \in Evictable : where'[p] = NodeOf[g] => p \in todo'[g] \cup leaving'
             /\ Reported(g, "succeeded")' /\ ~reopened'[g]
                => \A p \in Evictable : where'[p] = NodeOf[g] => p \in leaving'
  BY <1>o DEF DrainInv, Relies, Reported
<1>q. ASSUME NEW h \in Handler, NEW a \in Status, Say(h, <<a>>)
      PROVE  Reported(h, "succeeded")' <=> a = "succeeded"
  <2>1. reports'[h] = reports[h] \o <<a>> /\ reports[h] \in Seq(Status)
    BY <1>q, <1>0a DEF Say
  <2> QED BY <2>1, LastReport, ZenonT(60) DEF Reported
<1>w. ASSUME NEW h \in Handler, NEW a \in Status, NEW b \in Status, Say(h, <<a, b>>)
      PROVE  Reported(h, "succeeded")' <=> b = "succeeded"
  <2>1. reports'[h] = reports[h] \o <<a, b>> /\ reports[h] \in Seq(Status)
    BY <1>w, <1>0a DEF Say
  <2>2. reports[h] \o <<a, b>> # << >> /\ Last(reports[h] \o <<a, b>>) = b
    <3>1. \A s \in Seq(Status) : s \o <<a, b>> # << >> /\ Last(s \o <<a, b>>) = b
      BY DEF Last
    <3> QED BY <2>1, <3>1
  <2> QED BY <2>1, <2>2 DEF Reported
<1>1. ASSUME NEW h \in Drains, Cordon(h) PROVE DrainInv'
  <2>1. \A g \in Drains : g # h =>
            /\ pc'[g] = pc[g] /\ reports'[g] = reports[g] /\ todo'[g] = todo[g]
            /\ ~reopened'[g] => ~reopened[g] /\ (NodeOf[g] \in cordoned => NodeOf[g] \in cordoned')
            /\ leaving' = leaving /\ \A p \in Evictable : where'[p] = where[p]
    BY <1>1, <1>0b DEF Cordon, Finish, Say, GoTo, TypeOK
  <2>2. ~ Reported(h, "succeeded")' /\ pc'[h] \in {"list", "done"}
    BY <1>1, <1>q, <1>w, <1>0a, <1>0b DEF Cordon, Finish, GoTo
  <2>3. pc'[h] = "list" => NodeOf[h] \in cordoned'
    BY <1>1, <1>0a, <1>0b DEF Cordon, Finish, GoTo
  <2> SUFFICES ASSUME NEW g \in Drains
               PROVE  DrainInv!(g)'
    BY DEF DrainInv
  <2>4. CASE g # h
    BY <2>1, <2>4, <1>o DEF DrainInv
  <2>5. CASE g = h
    BY <2>2, <2>3, <2>5 DEF DrainInv, Relies
  <2> QED BY <2>4, <2>5
<1>2. ASSUME NEW h \in Drains, ListPods(h) PROVE DrainInv'
  <2>1. \A g \in Drains : g # h =>
            /\ pc'[g] = pc[g] /\ reports'[g] = reports[g] /\ todo'[g] = todo[g]
            /\ ~reopened'[g] => ~reopened[g] /\ (NodeOf[g] \in cordoned => NodeOf[g] \in cordoned')
            /\ leaving' = leaving /\ \A p \in Evictable : where'[p] = where[p]
    BY <1>2, <1>0b DEF ListPods, Finish, Say, GoTo, TypeOK
  <2>2. ~ reopened'[h] => NodeOf[h] \in cordoned'
    BY <1>2, <1>0b DEF ListPods, DrainInv, Relies
  <2>3. ~ Reported(h, "succeeded")
    BY <1>2 DEF ListPods, DrainInv
  <2>4. /\ Reported(h, "succeeded")' => pc'[h] = "done"
        /\ Reported(h, "succeeded")'
           => \A p \in Evictable : where'[p] = NodeOf[h] => p \in leaving'
    BY <1>2, <2>3, <1>q, <1>0a, <1>0b DEF ListPods, Finish, GoTo, Reported
  <2>5. pc'[h] = "evict"
        => \A p \in Evictable : where'[p] = NodeOf[h] => p \in todo'[h] \cup leaving'
    BY <1>2, <1>0a, <1>0b DEF ListPods, Finish, GoTo, TypeOK
  <2> SUFFICES ASSUME NEW g \in Drains
               PROVE  DrainInv!(g)'
    BY DEF DrainInv
  <2>6. CASE g # h
    BY <2>1, <2>6, <1>o DEF DrainInv
  <2>7. CASE g = h
    BY <2>2, <2>4, <2>5, <2>7 DEF DrainInv
  <2> QED BY <2>6, <2>7
<1>3. ASSUME NEW h \in Drains, Evict(h) PROVE DrainInv'
  <2>0. current[h] \in Evictable /\ h \in Handler
    BY <1>3, <1>0b DEF Evict, TypeOK
  <2>1. where' = where /\ leaving \subseteq leaving'
    BY <1>3, Zenon DEF Evict
  <2>2. \A g \in Drains : g # h =>
            /\ pc'[g] = pc[g] /\ reports'[g] = reports[g] /\ todo'[g] = todo[g]
            /\ ~reopened'[g] => ~reopened[g] /\ (NodeOf[g] \in cordoned => NodeOf[g] \in cordoned')
    BY <1>3, <1>0b, Zenon DEF Evict, Evicted, Refused, Finish, Say, GoTo, TypeOK
  <2>3. ~ reopened'[h] => ~ reopened[h] /\ NodeOf[h] \in cordoned'
    BY <1>3, <1>0b DEF Evict, DrainInv, Relies
  <2>4. ~ Reported(h, "succeeded") /\ NodeOf[h] # Nowhere
    BY <1>3, <2>0 DEF Evict, DrainInv
  <2>5. ~ reopened'[h]
        => \A p \in Evictable : where[p] = NodeOf[h] => p \in todo[h] \cup leaving
    BY <1>3, <2>3, Zenon DEF Evict, DrainInv
  <2>6. ASSUME NEW g \in Drains, g # h PROVE DrainInv!(g)'
    BY <2>1, <2>2, <2>6, <1>o, Zenon DEF DrainInv
  <2>7. CASE Evicted(h)
    <3>1. todo'[h] = todo[h] \ {current[h]}
      BY <2>0, <2>7 DEF Evicted, TypeOK
    <3>2. ~ Refused(h)
      BY <1>3, <2>0, <3>1 DEF Refused, Evict, TypeOK
    <3>3. where[current[h]] = Nowhere \/ current[h] \in leaving'
      BY <1>3, <3>2 DEF Evict, NotFound
    <3>4. ~ reopened'[h]
          => \A p \in Evictable : where'[p] = NodeOf[h] => p \in todo'[h] \cup leaving'
      BY <2>1, <2>4, <2>5, <3>1, <3>3
    <3>5. Reported(h, "succeeded")' => pc'[h] = "done" /\ todo'[h] = {}
      BY <2>0, <2>7, <3>1, <1>q, <1>0a, <1>0b DEF Evicted, Finish, GoTo
    <3>6. DrainInv!(h)'
      BY <3>4, <3>5, <2>3 DEF DrainInv
    <3> QED BY <2>6, <3>6 DEF DrainInv
  <2>8. CASE Refused(h)
    <3>1. ~ Reported(h, "succeeded")'
      BY <2>0, <2>4, <2>8, <1>q, <1>0b, Zenon DEF Refused, Finish, Reported
    <3>2. todo'[h] = todo[h]
      BY <2>8 DEF Refused
    <3>3. ~ reopened'[h]
          => \A p \in Evictable : where'[p] = NodeOf[h] => p \in todo'[h] \cup leaving'
      BY <2>1, <2>5, <3>2
    <3>4. DrainInv!(h)'
      BY <3>1, <3>3, <2>3 DEF DrainInv
    <3> QED BY <2>6, <3>4 DEF DrainInv
  <2> QED BY <1>3, <2>7, <2>8 DEF Evict
<1>4. ASSUME NEW h \in Uncordons, Uncordon(h) PROVE DrainInv'
  <2>1. \A g \in Drains : g # h /\ g \in Handler
    BY <1>0b
  <2>2. \A g \in Drains :
            /\ pc'[g] = pc[g] /\ reports'[g] = reports[g] /\ todo'[g] = todo[g]
            /\ leaving' = leaving /\ \A p \in Evictable : where'[p] = where[p]
    BY <1>4, <2>1, <1>0a, Zenon DEF Uncordon, Finish, Say, GoTo
  <2>3. \A g \in Drains : ~reopened'[g] =>
            ~reopened[g] /\ (NodeOf[g] \in cordoned => NodeOf[g] \in cordoned')
    BY <1>4, <2>1, Zenon DEF Uncordon, Reopen
  <2> QED BY <2>2, <2>3, <1>o, Zenon DEF DrainInv
<1>5. ASSUME ClusterStep PROVE DrainInv'
  <2>1. \A g \in Drains :
            /\ pc'[g] = pc[g] /\ reports'[g] = reports[g] /\ todo'[g] = todo[g]
            /\ NodeOf[g] # Nowhere
    BY <1>5, <1>0b, Zenon DEF ClusterStep
  <2>2. \A g \in Drains : ~reopened'[g] =>
            ~reopened[g] /\ (NodeOf[g] \in cordoned => NodeOf[g] \in cordoned')
    BY <1>5, Zenon DEF ClusterStep, Reopen
  <2>3. \A n \in cordoned, p \in Pod :
            n # Nowhere /\ where'[p] = n => where[p] = n /\ (p \in leaving => p \in leaving')
    BY <1>5 DEF ClusterStep, TypeOK
  <2> QED BY <2>1, <2>2, <2>3, <1>o, ZenonT(60) DEF DrainInv
<1>6. ASSUME UNCHANGED vars PROVE DrainInv'
  BY <1>6, Zenon DEF vars, DrainInv, Relies, Reported
<1> QED BY <1>1, <1>2, <1>3, <1>4, <1>5, <1>6 DEF Next, DrainNode

\* For any nodes, pods, drains and uncordons: once a drain has reported success,
\* every evictable pod on its node is being deleted, and none comes until it is
\* reopened.
THEOREM DrainEvictsAll == Spec => []DrainedNode
<1>1. Init => DrainInv
  BY DrainAssumption DEF Init, DrainInv, Relies, Reported, Handler
<1>2. DrainInv => DrainedNode
  BY DEF DrainInv, DrainedNode
<1> QED BY <1>1, <1>2, TypeCorrect, DrainInvNext, PTL DEF Spec

-----------------------------------------------------------------------------
Passing == {"validating", "progress"}

\* The reports of a handler at work, of one that has told its outcome, and those
\* of a drain that has given up.
Pending(s) == \A i \in 1..Len(s) : s[i] \notin Terminal
Closed(s) ==
    /\ s # << >> /\ Last(s) \in Terminal
    /\ \A i \in 1..Len(s) : s[i] \in Terminal => i = Len(s)
GaveUp(h) ==
    /\ Pending(reports[h]) /\ Reported(h, "progress")
    /\ todo[h] # {} /\ waited[h] >= StallRetries

OutcomeOf(h) ==
    \/ pc[h] # "done" /\ Pending(reports[h])
    \/ pc[h] = "done" /\ (Closed(reports[h]) \/ GaveUp(h))
OutcomeInv == \A h \in Handler : OutcomeOf(h)

\* What a further report makes of the reports so far.
LEMMA ReportsGrow ==
  ASSUME NEW s \in Seq(Status), Pending(s)
  PROVE  /\ \A a \in Passing : Pending(s \o <<a>>)
         /\ \A t \in Terminal : Closed(s \o <<t>>)
         /\ \A a \in Passing, t \in Terminal : Closed(s \o <<a, t>>)
<1>1. \A a \in Passing : Pending(s \o <<a>>)
  BY DEF Pending, Passing, Terminal
<1>2. ASSUME NEW t \in Terminal PROVE Closed(s \o <<t>>)
  <2>1. Len(s \o <<t>>) = Len(s) + 1 /\ (s \o <<t>>)[Len(s) + 1] = t
    OBVIOUS
  <2>2. \A i \in 1..Len(s) : (s \o <<t>>)[i] = s[i]
    OBVIOUS
  <2> QED BY <2>1, <2>2 DEF Pending, Closed, Last
<1>3. ASSUME NEW a \in Passing, NEW t \in Terminal PROVE Closed(s \o <<a, t>>)
  <2>1. Len(s \o <<a, t>>) = Len(s) + 2 /\ (s \o <<a, t>>)[Len(s) + 2] = t
    OBVIOUS
  <2>2. \A i \in 1..Len(s) : (s \o <<a, t>>)[i] = s[i]
    OBVIOUS
  <2>3. (s \o <<a, t>>)[Len(s) + 1] \notin Terminal
    BY DEF Passing, Terminal
  <2> QED BY <2>1, <2>2, <2>3 DEF Pending, Closed, Last
<1> QED BY <1>1, <1>2, <1>3

\* The ways a handler takes a step.
Moves(h) ==
    /\ UNCHANGED pc \/ \E p \in {"list", "evict"} : GoTo(h, p)
    /\ UNCHANGED reports \/ \E a \in Passing : Say(h, <<a>>)
Ends(h) ==
    \E t \in Terminal : Finish(h, <<t>>) \/ \E a \in Passing : Finish(h, <<a, t>>)
GivesUp(h) ==
    /\ Finish(h, <<"progress">>)
    /\ todo'[h] # {} /\ waited'[h] >= StallRetries

\* Every step of a drain or uncordon that has not returned is one of them.
LEMMA HandlerStep ==
  ASSUME TypeOK, NEW h \in Handler,
         (h \in Drains /\ DrainNode(h)) \/ (h \in Uncordons /\ Uncordon(h))
  PROVE  /\ pc[h] # "done" /\ (Moves(h) \/ Ends(h) \/ GivesUp(h))
         /\ \A g \in Handler : g # h =>
               /\ pc'[g] = pc[g] /\ reports'[g] = reports[g]
               /\ todo'[g] = todo[g] /\ waited'[g] = waited[g]
<1>1. {"succeeded", "failed"} \subseteq Terminal /\ {"validating", "progress"} \subseteq Passing
  BY DEF Terminal, Passing
<1>2. /\ \A s, g : g \in Handler /\ g # h /\ Say(h, s) => reports'[g] = reports[g]
      /\ \A p, g : g \in Handler /\ g # h /\ GoTo(h, p) => pc'[g] = pc[g]
  BY Zenon DEF Say, GoTo, TypeOK
<1>3. CASE Cordon(h)
  BY <1>1, <1>2, <1>3, Zenon DEF Cordon, Moves, Ends, Finish
<1>4. CASE ListPods(h)
  <2>1. Moves(h) \/ Ends(h)
    BY <1>1, <1>4, Zenon DEF ListPods, Moves, Ends
  <2>2. \A g \in Handler : g # h => todo'[g] = todo[g]
    BY <1>4, Zenon DEF ListPods, TypeOK
  <2> QED BY <1>2, <1>4, <2>1, <2>2, Zenon DEF ListPods, Finish
<1>5. CASE Evict(h)
  <2>1. Evicted(h) => /\ Moves(h) \/ Ends(h)
                      /\ \A g \in Handler : g # h => todo'[g] = todo[g] /\ waited'[g] = waited[g]
                      /\ \A g \in Handler : g # h => pc'[g] = pc[g] /\ reports'[g] = reports[g]
    <3>1. Evicted(h) => Moves(h) \/ Ends(h)
      BY <1>1, Zenon DEF Evicted, Moves, Ends
    <3>2. Evicted(h) => \A g \in Handler : g # h => todo'[g] = todo[g] /\ waited'[g] = waited[g]
      BY Zenon DEF Evicted, TypeOK
    <3>3. Evicted(h) => \A g \in Handler : g # h => pc'[g] = pc[g] /\ reports'[g] = reports[g]
      BY <1>2, Zenon DEF Evicted, Finish
    <3> QED BY <3>1, <3>2, <3>3
  <2>2. Refused(h) => /\ Moves(h) \/ Ends(h) \/ GivesUp(h)
                      /\ \A g \in Handler : g # h => todo'[g] = todo[g] /\ waited'[g] = waited[g]
                      /\ \A g \in Handler : g # h => pc'[g] = pc[g] /\ reports'[g] = reports[g]
    <3>1. Refused(h) => Moves(h) \/ Ends(h) \/ GivesUp(h)
      <4>1. todo[h] # {}
        BY <1>5 DEF Evict, TypeOK
      <4>2. Stalled(h) /\ UNCHANGED <<waited, todo>> => todo'[h] # {} /\ waited'[h] >= StallRetries
        BY <4>1 DEF Stalled
      <4> QED BY <1>1, <4>2, Zenon DEF Refused, Moves, Ends, GivesUp
    <3>2. Refused(h) => \A g \in Handler : g # h => todo'[g] = todo[g] /\ waited'[g] = waited[g]
      BY Zenon DEF Refused, Paused, TypeOK
    <3>3. Refused(h) => \A g \in Handler : g # h => pc'[g] = pc[g] /\ reports'[g] = reports[g]
      BY <1>2, Zenon DEF Refused, Finish
    <3> QED BY <3>1, <3>2, <3>3
  <2>3. pc[h] = "evict" /\ (Evicted(h) \/ Refused(h))
    BY <1>5, Zenon DEF Evict
  <2> QED BY <2>1, <2>2, <2>3
<1>6. CASE Uncordon(h)
  BY <1>1, <1>2, <1>6, Zenon DEF Uncordon, Ends, Finish
<1> QED BY <1>3, <1>4, <1>5, <1>6 DEF DrainNode

\* The step keeps what OutcomeInv says of its own handler.
LEMMA OwnOutcome ==
  ASSUME TypeOK, NEW h \in Handler, Pending(reports[h]), pc[h] # "done",
         Moves(h) \/ Ends(h) \/ GivesUp(h)
  PROVE  OutcomeOf(h)'
<1>1. reports \in [Handler -> Seq(Status)] /\ reports[h] \in Seq(Status)
  BY DEF TypeOK, Status
<1>2. /\ \A s : Say(h, s) => reports'[h] = reports[h] \o s
      /\ \A p : GoTo(h, p) => pc'[h] = p
  BY <1>1, Zenon DEF Say, GoTo, TypeOK
<1>3. CASE Moves(h)
  <2>1. pc'[h] # "done"
    BY <1>2, <1>3 DEF Moves
  <2>2. Pending(reports'[h])
    BY <1>1, <1>2, <1>3, ReportsGrow, Zenon DEF Moves
  <2> QED BY <2>1, <2>2 DEF OutcomeOf, Pending
<1>4. CASE Ends(h)
  <2>1. ASSUME NEW t \in Terminal, Finish(h, <<t>>)
        PROVE  pc'[h] = "done" /\ Closed(reports'[h])
    BY <1>1, <1>2, <2>1, ReportsGrow, Zenon DEF Finish
  <2>2. ASSUME NEW t \in Terminal, NEW a \in Passing, Finish(h, <<a, t>>)
        PROVE  pc'[h] = "done" /\ Closed(reports'[h])
    <3>1. pc'[h] = "done" /\ reports'[h] = reports[h] \o <<a, t>>
      BY <1>2, <2>2, Zenon DEF Finish
    <3>2. Closed(reports[h] \o <<a, t>>)
      BY <1>1, ReportsGrow, Zenon
    <3> QED BY <3>1, <3>2, Zenon
  <2>3. pc'[h] = "done" /\ Closed(reports'[h])
    BY <1>4, <2>1, <2>2, Zenon DEF Ends
  <2> QED BY <2>3 DEF OutcomeOf, Closed
<1>5. CASE GivesUp(h)
  <2>1. pc'[h] = "done" /\ reports'[h] = reports[h] \o <<"progress">>
    BY <1>2, <1>5, Zenon DEF GivesUp, Finish
  <2>2. "progress" \in Passing /\ "progress" \in Status
    BY DEF Passing, Status
  <2>3. Pending(reports[h] \o <<"progress">>)
    BY <1>1, <2>2, ReportsGrow, Zenon
  <2>4. reports[h] \o <<"progress">> # << >> /\ Last(reports[h] \o <<"progress">>) = "progress"
    BY <1>1, <2>2, LastReport, Zenon
  <2>5. GaveUp(h)'
    BY <1>5, <2>1, <2>3, <2>4 DEF GivesUp, GaveUp, Reported, Pending
  <2> QED BY <2>1, <2>5 DEF OutcomeOf
<1> QED BY <1>3, <1>4, <1>5

\* Every step preserves OutcomeInv.
LEMMA OutcomeNext == TypeOK /\ OutcomeInv /\ [Next]_vars => OutcomeInv'
<1> SUFFICES ASSUME TypeOK, OutcomeInv, [Next]_vars PROVE OutcomeInv'
  OBVIOUS
<1>0. ASSUME NEW g \in Handler, pc'[g] = pc[g], reports'[g] = reports[g],
             todo'[g] = todo[g], waited'[g] = waited[g]
      PROVE  OutcomeOf(g)'
  BY <1>0 DEF OutcomeInv, OutcomeOf, GaveUp, Reported, Pending, Closed
<1>1. ASSUME NEW h \in Handler,
             (h \in Drains /\ DrainNode(h)) \/ (h \in Uncordons /\ Uncordon(h))
      PROVE  OutcomeInv'
  <2>1. pc[h] # "done" /\ Pending(reports[h]) /\ (Moves(h) \/ Ends(h) \/ GivesUp(h))
    BY <1>1, HandlerStep DEF OutcomeInv, OutcomeOf
  <2>2. OutcomeOf(h)'
    BY <2>1, OwnOutcome
  <2>3. ASSUME NEW g \in Handler, g # h PROVE OutcomeOf(g)'
    BY <1>0, <1>1, <2>3, HandlerStep, Zenon
  <2> QED BY <2>2, <2>3 DEF OutcomeInv
<1>2. ASSUME ClusterStep \/ UNCHANGED vars PROVE OutcomeInv'
  <2>1. UNCHANGED <<pc, reports, todo, waited>>
    BY <1>2 DEF ClusterStep, vars
  <2> QED BY <1>0, <2>1 DEF OutcomeInv
<1> QED BY <1>1, <1>2 DEF Next, Handler

\* For any number of drains and uncordons, and any faults: a handler that returns
\* has reported one outcome, last, or is a drain that waited out its timeout.
THEOREM OutcomesReported == Spec => []OutcomeReported
<1>1. Init => OutcomeInv
  BY DEF Init, OutcomeInv, OutcomeOf, Pending
<1>2. OutcomeInv => OutcomeReported
  BY DEF OutcomeInv, OutcomeOf, GaveUp, OutcomeReported, Closed, Pending
<1> QED BY <1>1, <1>2, TypeCorrect, OutcomeNext, PTL DEF Spec
=============================================================================
