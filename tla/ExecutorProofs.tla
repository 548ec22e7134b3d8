--------------------------- MODULE ExecutorProofs ---------------------------
(***************************************************************************)
(* Proofs about Executor: type correctness, that an apply overwrites only  *)
(* what its drift check has passed, what a patch or delete may overwrite,  *)
(* and what the handlers report.                                           *)
(***************************************************************************)
EXTENDS Executor, TLAPS

Status == Terminal \cup {"validating", "dry-run", "applying"}
Place == {"none", "queued", "fetch", "dryrun", "write", "restamp", "stamp", "done"}

\* What a handler addresses is an object of the cluster.
LEMMA TargetType ==
  ASSUME TypeOK, NEW c \in Command
  PROVE  /\ Target(c) \in Obj
         /\ c.verb = "cert-rotate" => c.subject \in Obj
         /\ Subject(c) \in Obj
         /\ c.own \in Value
<1>1. c.targets \in Seq(Obj) /\ c.own \in Value
  BY ExecutorAssumption DEF CommandType
<1>2. idx[c] \in 1..Len(c.targets)
  BY <1>1 DEF TypeOK
<1> QED BY <1>1, <1>2, ExecutorAssumption DEF Target, Subject

\* What a handler sends, and what the server makes of it, is well typed whenever
\* the server accepts it.
LEMMA BodyType ==
  ASSUME TypeOK, NEW c \in Command, Admits(c), ~Removes(c)
  PROVE  /\ Body(c) \in Sent
         /\ Stamp(c) \in Sent \cup {None}
         /\ \A default \in Value : Stored(Body(c), default) \in Content
<1>1. Target(c) \in Obj /\ c.own \in Value
  BY TargetType
<1>2. /\ store[Target(c)] \in Object \cup {Absent}
      /\ live[c] \in Object \cup {Absent}
  BY <1>1 DEF TypeOK
<1>3. \A k \in Content : [k EXCEPT !.own = c.own] \in Sent
  BY <1>1 DEF Content, Sent
<1>4. \A r \in Object : r.content \in Content /\ r.stamp \in Sent \cup {None}
  BY DEF Object
<1>5. c.verb \in {"patch", "helm-upgrade"} => store[Target(c)] \in Object
  BY <1>2 DEF Admits, PatchAdmitted, UpgradeAdmitted
<1>6. [own |-> c.own, rest |-> None] \in Sent
  BY <1>1 DEF Sent
<1>7. Body(c) \in Sent
  BY <1>2, <1>3, <1>4, <1>5, <1>6 DEF Body
<1>8. Stamp(c) \in Sent \cup {None}
  BY <1>4, <1>5, <1>7 DEF Stamp
<1>9. \A b \in Sent, default \in Value : Stored(b, default) \in Content
  BY DEF Stored, Sent, Content
<1> QED BY <1>7, <1>8, <1>9

\* A write leaves the store well typed.
LEMMA CommitType ==
  ASSUME TypeOK, NEW c \in Command, Admits(c), Commit(c)
  PROVE  /\ store' \in [Obj -> Object \cup {Absent}] /\ clock' \in Nat
         /\ written' \in [Command -> SUBSET Obj]
<1>1. Target(c) \in Obj
  BY TargetType
<1>2. written' \in [Command -> SUBSET Obj] /\ clock' \in Nat /\ clock' = clock + 1
  BY <1>1 DEF Commit, TypeOK
<1>3. CASE Removes(c)
  BY <1>1, <1>2, <1>3, Zenon DEF Commit, TypeOK
<1>4. CASE ~Removes(c)
  <2>1. PICK default \in Value :
            store' = [store EXCEPT ![Target(c)] =
                        [rv |-> clock + 1, stamp |-> Stamp(c),
                         content |-> Stored(Body(c), default)]]
    BY <1>4 DEF Commit
  <2>2. /\ Body(c) \in Sent /\ Stamp(c) \in Sent \cup {None}
        /\ Stored(Body(c), default) \in Content
    BY <1>4, BodyType
  <2>3. \A n \in Nat, s \in Sent \cup {None}, k \in Content :
            [rv |-> n, stamp |-> s, content |-> k] \in Object
    BY DEF Object
  <2>4. [rv |-> clock + 1, stamp |-> Stamp(c), content |-> Stored(Body(c), default)] \in Object
    BY <1>2, <2>2, <2>3
  <2>5. store' \in [Obj -> Object \cup {Absent}]
    BY <2>1, <2>4, Zenon DEF TypeOK
  <2> QED BY <1>2, <2>5
<1> QED BY <1>3, <1>4

\* The initial states are well typed.
LEMMA TypeInit == Init => TypeOK
<1> SUFFICES ASSUME Init PROVE TypeOK
  OBVIOUS
<1>1. PICK present \in SUBSET Obj, content \in Content :
          store = [o \in Obj |-> IF o \in present
                                 THEN [rv |-> 0, content |-> content, stamp |-> None]
                                 ELSE Absent]
  BY Zenon DEF Init
<1>2. [rv |-> 0, content |-> content, stamp |-> None] \in Object
  BY DEF Object
<1>3. store \in [Obj -> Object \cup {Absent}]
  BY <1>1, <1>2
<1>4. \A c \in Command : 1 <= Len(c.targets)
  <2> TAKE c \in Command
  <2>1. c.targets \in Seq(Obj) /\ c.targets # << >>
    BY ExecutorAssumption DEF CommandType
  <2> QED BY <2>1
<1>5. idx \in [Command -> Nat \ {0}] /\ \A c \in Command : idx[c] <= Len(c.targets)
  BY <1>4 DEF Init
<1>6. pc \in [Command -> {"none", "queued"}]
  BY DEF Init
<1> QED BY <1>3, <1>5, <1>6 DEF Init, TypeOK

\* Every step preserves the types.
LEMMA TypeNext == TypeOK /\ [Next]_vars => TypeOK'
<1> SUFFICES ASSUME TypeOK, [Next]_vars PROVE TypeOK'
  OBVIOUS
<1>a. /\ reports \in [Command -> Seq(Status)] /\ pc \in [Command -> Place]
      /\ {"validating", "dry-run", "applying", "succeeded", "failed", "refused"} \subseteq Status
  BY DEF TypeOK, Status, Place, Terminal
<1>b. ASSUME NEW c \in Command, NEW s \in Seq(Status), Say(c, s)
      PROVE  reports' \in [Command -> Seq(Status)]
  BY <1>a, <1>b DEF Say
<1>c. ASSUME NEW c \in Command, NEW p \in Place, GoTo(c, p)
      PROVE  pc' \in [Command -> Place]
  BY <1>a, <1>c DEF GoTo
<1>d. ASSUME NEW c \in Command, NEW s \in Seq(Status), Finish(c, s)
      PROVE  reports' \in [Command -> Seq(Status)] /\ pc' \in [Command -> Place]
  BY <1>b, <1>c, <1>d DEF Finish, Place
<1>e. ApiFault => faults' \in Nat
  BY DEF ApiFault, TypeOK
<1>n. {"queued", "fetch", "dryrun", "write", "restamp", "stamp", "done"} \subseteq Place
  BY DEF Place
<1>l. /\ <<"validating">> \in Seq(Status) /\ <<"refused">> \in Seq(Status)
      /\ <<"failed">> \in Seq(Status) /\ <<"succeeded">> \in Seq(Status)
      /\ <<"dry-run">> \in Seq(Status) /\ <<"applying">> \in Seq(Status)
      /\ <<"validating", "refused">> \in Seq(Status)
      /\ <<"validating", "failed">> \in Seq(Status)
      /\ <<"applying", "failed">> \in Seq(Status)
      /\ <<"applying", "succeeded">> \in Seq(Status)
  BY <1>a
\* A handler that is not about to re-stamp does not disturb one that is.
<1>m. ASSUME NEW c \in Command, pc[c] # "stamp" \/ UNCHANGED live, pc'[c] # "stamp",
             \A d \in Command : d # c => pc'[d] = pc[d] /\ live'[d] = live[d]
      PROVE  \A d \in Command : pc'[d] = "stamp" => live'[d] # Absent
  BY <1>m DEF TypeOK
<1>g. ASSUME NEW c \in Command, NEW p \in Place, GoTo(c, p)
      PROVE  pc'[c] = p /\ \A d \in Command : d # c => pc'[d] = pc[d]
  BY <1>a, <1>g DEF GoTo
<1>h. ASSUME NEW c \in Command, NEW s, Finish(c, s)
      PROVE  pc'[c] = "done" /\ \A d \in Command : d # c => pc'[d] = pc[d]
  BY <1>g, <1>h DEF Finish, Place
<1>k. NoCommit => store' = store /\ clock' = clock /\ written' = written
  BY DEF NoCommit
<1>1. ASSUME NEW c \in Command, Begin(c) PROVE TypeOK'
  <2>1. reports' \in [Command -> Seq(Status)] /\ pc' \in [Command -> Place]
    BY <1>1, <1>b, <1>c, <1>d, <1>l, <1>n, Zenon DEF Begin
  <2>2. pc'[c] # "stamp" /\ \A d \in Command : d # c => pc'[d] = pc[d]
    BY <1>1, <1>g, <1>h, <1>n DEF Begin
  <2>3. \A d \in Command : pc'[d] = "stamp" => live'[d] # Absent
    BY <1>1, <1>m, <2>2 DEF Begin
  <2> QED BY <1>1, <1>k, <2>1, <2>3, ZenonT(60) DEF Begin, TypeOK, Status, Place
<1>2. ASSUME NEW c \in Command, Fetch(c) PROVE TypeOK'
  <2>1. store[Subject(c)] \in Object \cup {Absent}
    BY TargetType DEF TypeOK
  <2>2. ASSUME NEW o, Fetched(c, o)
        PROVE  /\ reports' \in [Command -> Seq(Status)] /\ pc' \in [Command -> Place]
               /\ pc'[c] # "stamp" /\ \A d \in Command : d # c => pc'[d] = pc[d]
    <3>1. CASE \E s \in {<<"failed">>, <<"succeeded">>, <<"refused">>} : Finish(c, s)
      BY <1>d, <1>h, <1>l, <3>1, Zenon
    <3>2. CASE Prepared(c)
      BY <1>a, <1>c, <1>g, <1>n, <3>2 DEF Prepared
    <3> QED BY <2>2, <3>1, <3>2
            DEF Fetched, ApplyFetched, PatchFetched, DeleteFetched,
                CertRotateFetched, UpgradeFetched, Gated
  <2>3. /\ reports' \in [Command -> Seq(Status)] /\ pc' \in [Command -> Place]
        /\ pc'[c] # "stamp" /\ \A d \in Command : d # c => pc'[d] = pc[d]
    BY <1>2, <2>2, <1>d, <1>h, <1>l, Zenon DEF Fetch
  <2>4. /\ live' \in [Command -> Object \cup {Absent}] /\ faults' \in Nat
        /\ \A d \in Command : d # c => live'[d] = live[d]
    BY <1>2, <2>1, <1>e, Zenon DEF Fetch, TypeOK
  <2>5. \A d \in Command : pc'[d] = "stamp" => live'[d] # Absent
    BY <1>2, <1>m, <2>3, <2>4, Zenon DEF Fetch
  <2> QED BY <1>2, <1>k, <2>3, <2>4, <2>5 DEF Fetch, TypeOK, Status, Place
<1>3. ASSUME NEW c \in Command, DryRun(c) PROVE TypeOK'
  <2>1. reports' \in [Command -> Seq(Status)] /\ pc' \in [Command -> Place]
    BY <1>3, <1>a, <1>b, <1>c, <1>d, <1>l, <1>n, Zenon DEF DryRun
  <2>2. faults' \in Nat
    BY <1>3, <1>e DEF DryRun, TypeOK
  <2>3. pc'[c] # "stamp" /\ \A d \in Command : d # c => pc'[d] = pc[d]
    BY <1>3, <1>g, <1>h, <1>n DEF DryRun
  <2>4. \A d \in Command : pc'[d] = "stamp" => live'[d] # Absent
    BY <1>3, <1>m, <2>3 DEF DryRun
  <2> QED BY <1>3, <1>k, <2>1, <2>2, <2>4 DEF DryRun, TypeOK, Status, Place
<1>4. ASSUME NEW c \in Command, Write(c) PROVE TypeOK'
  <2>1. Continue(c) => reports' \in [Command -> Seq(Status)] /\ pc' \in [Command -> Place]
    BY <1>b, <1>c, <1>d, <1>l, <1>n, Zenon DEF Continue
  <2>2. reports' \in [Command -> Seq(Status)] /\ pc' \in [Command -> Place]
    BY <1>4, <2>1, <1>d, <1>l, Zenon DEF Write
  <2>3. /\ store' \in [Obj -> Object \cup {Absent}] /\ clock' \in Nat
        /\ written' \in [Command -> SUBSET Obj]
    <3>1. CASE NoCommit
      BY <1>k, <3>1 DEF TypeOK
    <3>2. CASE Admits(c) /\ Commit(c)
      BY <3>2, CommitType
    <3> QED BY <1>4, <3>1, <3>2 DEF Write
  <2>4. faults' \in Nat
    BY <1>4, <1>e DEF Write, TypeOK
  <2>5. idx' \in [Command -> Nat \ {0}] /\ \A d \in Command : idx'[d] <= Len(d.targets)
    <3>1. CASE UNCHANGED idx
      BY <3>1 DEF TypeOK
    <3>2. CASE ~LastObject(c) /\ idx' = [idx EXCEPT ![c] = @ + 1]
      <4>1. c.targets \in Seq(Obj) /\ Len(c.targets) \in Nat
        BY ExecutorAssumption DEF CommandType
      <4>2. idx[c] + 1 \in Nat \ {0} /\ idx[c] + 1 <= Len(c.targets)
        BY <3>2, <4>1 DEF LastObject, TypeOK
      <4> QED BY <3>2, <4>2 DEF TypeOK
    <3> QED BY <1>4, <3>1, <3>2 DEF Write, Continue
  <2>6. pc'[c] # "stamp" /\ \A d \in Command : d # c => pc'[d] = pc[d]
    BY <1>4, <1>g, <1>h, <1>n DEF Write, Continue
  <2>7. \A d \in Command : pc'[d] = "stamp" => live'[d] # Absent
    BY <1>4, <1>m, <2>6 DEF Write
  <2> QED BY <1>4, <2>2, <2>3, <2>4, <2>5, <2>7, ZenonT(60) DEF Write, TypeOK, Status, Place
<1>5. ASSUME NEW c \in Command, RestampGet(c) PROVE TypeOK'
  <2>1. reports' \in [Command -> Seq(Status)] /\ pc' \in [Command -> Place]
    BY <1>5, <1>a, <1>c, <1>d, <1>l, <1>n, Zenon DEF RestampGet
  <2>2. live' \in [Command -> Object \cup {Absent}] /\ faults' \in Nat
    BY <1>5, <1>e, TargetType, Zenon DEF RestampGet, TypeOK
  <2>3. CASE GoTo(c, "stamp") /\ store[Target(c)] # Absent
                 /\ live' = [live EXCEPT ![c] = store[Target(c)]]
    <3>1. \A d \in Command : pc'[d] = "stamp" => live'[d] # Absent
      BY <1>g, <1>n, <2>3 DEF TypeOK
    <3> QED BY <1>5, <1>k, <2>1, <2>2, <3>1, Zenon DEF RestampGet, TypeOK, Status, Place
  <2>4. CASE Finish(c, <<"succeeded">>) /\ UNCHANGED live
    <3>1. \A d \in Command : pc'[d] = "stamp" => live'[d] # Absent
      BY <1>h, <1>m, <2>4
    <3> QED BY <1>5, <1>k, <2>1, <2>2, <3>1 DEF RestampGet, TypeOK, Status, Place
  <2> QED BY <1>5, <2>3, <2>4 DEF RestampGet
<1>6. ASSUME NEW c \in Command, RestampPatch(c) PROVE TypeOK'
  <2>1. reports' \in [Command -> Seq(Status)] /\ pc' \in [Command -> Place]
    BY <1>6, <1>d, <1>l, Zenon DEF RestampPatch
  <2>2. \A d \in Command : pc'[d] = "stamp" => live'[d] # Absent
    BY <1>6, <1>h, <1>m DEF RestampPatch
  <2>3. Target(c) \in Obj /\ live[c] \in Object
    BY <1>6, TargetType DEF RestampPatch, TypeOK
  <2>4. \A r \in Object, l \in Object, n \in Nat :
            [r EXCEPT !.stamp = l.content, !.rv = n] \in Object
    BY Zenon DEF Object, Sent, Content
  <2>5. CASE UNCHANGED <<store, clock>>
    BY <1>6, <1>e, <2>1, <2>2, <2>5, Zenon DEF RestampPatch, TypeOK, Status, Place
  <2>6. CASE /\ store[Target(c)] # Absent /\ clock' = clock + 1 /\ UNCHANGED faults
             /\ store' = [store EXCEPT ![Target(c)].stamp = live[c].content,
                                       ![Target(c)].rv = clock + 1]
    <3>1. store[Target(c)] \in Object /\ clock + 1 \in Nat
      BY <2>3, <2>6 DEF TypeOK
    <3>2. store' = [store EXCEPT ![Target(c)] =
                      [store[Target(c)] EXCEPT !.stamp = live[c].content, !.rv = clock + 1]]
      BY <2>3, <2>6, Zenon DEF TypeOK
    <3>3. [store[Target(c)] EXCEPT !.stamp = live[c].content, !.rv = clock + 1] \in Object
      BY <2>3, <2>4, <3>1, Zenon
    <3>4. store' \in [Obj -> Object \cup {Absent}]
      BY <3>2, <3>3, Zenon DEF TypeOK
    <3> QED BY <1>6, <2>1, <2>2, <2>6, <3>1, <3>4, Zenon DEF RestampPatch, TypeOK, Status, Place
  <2> QED BY <1>6, <2>5, <2>6 DEF RestampPatch
<1>7. ASSUME NEW o \in Obj, Foreign(o) PROVE TypeOK'
  <2>1. \A n \in Nat, s \in Sent \cup {None}, k \in Content :
            [rv |-> n, content |-> k, stamp |-> s] \in Object
    BY DEF Object
  <2>2. store[o] # Absent => store[o].stamp \in Sent \cup {None}
    BY DEF TypeOK, Object
  <2>3. store' \in [Obj -> Object \cup {Absent}] /\ clock' \in Nat /\ foreign' \in Nat
    <3> DEFINE stamp == IF store[o] = Absent THEN None ELSE store[o].stamp
    <3>1. stamp \in Sent \cup {None} /\ clock + 1 \in Nat
      BY <2>2 DEF TypeOK
    <3> HIDE DEF stamp
    <3>2. \A new \in Content : [rv |-> clock + 1, content |-> new, stamp |-> stamp] \in Object
      BY <2>1, <3>1
    <3>3. PICK new \in Content \cup {Absent} :
              store' = [store EXCEPT ![o] =
                IF new = Absent THEN Absent
                ELSE [rv |-> clock + 1, content |-> new, stamp |-> stamp]]
      BY <1>7, Zenon DEF Foreign, stamp
    <3>4. store' \in [Obj -> Object \cup {Absent}]
      BY <3>2, <3>3 DEF TypeOK
    <3> QED BY <1>7, <3>1, <3>4 DEF Foreign, TypeOK
  <2> QED BY <1>7, <2>3 DEF Foreign, TypeOK
<1>8. ASSUME UNCHANGED vars PROVE TypeOK'
  BY <1>8 DEF vars, TypeOK
<1> QED BY <1>1, <1>2, <1>3, <1>4, <1>5, <1>6, <1>7, <1>8 DEF Next, Handle

\* Executor keeps its types; in particular no handler runs past its manifest.
THEOREM TypeCorrect == Spec => []TypeOK
  BY TypeInit, TypeNext, PTL DEF Spec

-----------------------------------------------------------------------------
\* A resourceVersion names one state of one object: every one in use is at most
\* the clock, and every write takes a new one.  So a handler that still finds the
\* resourceVersion it read finds the content it checked; only an apply may have
\* found nothing.
Looked(c) ==
    c.verb \in {"apply", "patch", "delete"} /\ pc[c] \in {"dryrun", "write"}
Checked(c) == Looked(c) /\ live[c] # Absent
GateInv ==
    /\ \A o \in Obj : store[o] # Absent => store[o].rv <= clock
    /\ \A c \in Command : live[c] # Absent => live[c].rv <= clock
    /\ \A c \in Command : Checked(c) =>
          /\ Proceeds(c, live[c].content)
          /\ store[Target(c)] # Absent /\ store[Target(c)].rv = live[c].rv
             => store[Target(c)].content = live[c].content
    /\ \A c \in Command : Looked(c) /\ c.verb # "apply" => Checked(c)

\* A write to one object, at a new resourceVersion.
Fresh(o) ==
    /\ clock' = clock + 1
    /\ \A x \in Obj : x # o => store'[x] = store[x]
    /\ store'[o] # Absent => store'[o].rv = clock + 1

\* A write by anybody keeps the resourceVersions unique, and with them what
\* GateInv says of a handler that stays where it is.
LEMMA FreshKeeps ==
  ASSUME TypeOK, GateInv, NEW o \in Obj, Fresh(o), UNCHANGED live
  PROVE  /\ \A x \in Obj : store'[x] # Absent => store'[x].rv <= clock'
         /\ \A c \in Command : live'[c] # Absent => live'[c].rv <= clock'
         /\ \A c \in Command : Checked(c) /\ idx'[c] = idx[c] =>
               /\ Proceeds(c, live'[c].content)
               /\ store'[Target(c)] # Absent /\ store'[Target(c)].rv = live'[c].rv
                  => store'[Target(c)].content = live'[c].content
<1>1. /\ \A x \in Obj : store[x] # Absent => store[x].rv \in Nat
      /\ \A c \in Command : live[c] # Absent => live[c].rv \in Nat
      /\ clock \in Nat
  BY DEF TypeOK, Object
<1>2. \A x \in Obj : store'[x] # Absent => store'[x].rv <= clock'
  BY <1>1, SMTT(60) DEF GateInv, Fresh
<1>3. \A c \in Command : live'[c] # Absent => live'[c].rv <= clock'
  BY <1>1, SMTT(60) DEF GateInv, Fresh
<1>4. ASSUME NEW c \in Command, Checked(c)
      PROVE  /\ Proceeds(c, live'[c].content)
             /\ store'[Target(c)] # Absent /\ store'[Target(c)].rv = live'[c].rv
                => store'[Target(c)].content = live'[c].content
  <2>1. Target(c) \in Obj
    BY TargetType
  <2>2. Proceeds(c, live'[c].content)
    BY <1>4 DEF GateInv
  <2>3. CASE Target(c) # o
    BY <1>4, <2>1, <2>2, <2>3 DEF GateInv, Fresh
  <2>4. CASE Target(c) = o
    <3>1. store'[o] # Absent => store'[o].rv # live'[c].rv
      BY <1>1, <1>4 DEF GateInv, Fresh, Checked
    <3> QED BY <2>2, <2>4, <3>1
  <2> QED BY <2>3, <2>4, Zenon
<1> QED BY <1>2, <1>3, <1>4

\* The writes of Commit, RestampPatch and Foreign are such writes.
LEMMA WritesAreFresh ==
  ASSUME TypeOK
  PROVE  /\ \A c \in Command : Commit(c) => Fresh(Target(c))
         /\ \A c \in Command : RestampPatch(c) =>
               Fresh(Target(c)) \/ UNCHANGED <<store, clock>>
         /\ \A o \in Obj : Foreign(o) => Fresh(o)
<1>1. ASSUME NEW c \in Command, Commit(c) PROVE Fresh(Target(c))
  BY <1>1, TargetType, SMTT(60) DEF Commit, Fresh, TypeOK
<1>2. ASSUME NEW c \in Command, RestampPatch(c)
      PROVE  Fresh(Target(c)) \/ UNCHANGED <<store, clock>>
  <2>1. Target(c) \in Obj
    BY TargetType
  <2>2. CASE /\ store[Target(c)] # Absent /\ clock' = clock + 1
             /\ store' = [store EXCEPT ![Target(c)].stamp = live[c].content,
                                       ![Target(c)].rv = clock + 1]
    <3>1. store[Target(c)] \in Object
      BY <2>1, <2>2 DEF TypeOK
    <3>2. store'[Target(c)].rv = clock + 1
      BY <2>1, <2>2, <3>1 DEF TypeOK, Object
    <3> QED BY <2>1, <2>2, <3>2 DEF Fresh, TypeOK
  <2> QED BY <1>2, <2>2 DEF RestampPatch
<1>3. ASSUME NEW o \in Obj, Foreign(o) PROVE Fresh(o)
  BY <1>3 DEF Foreign, Fresh, TypeOK
<1> QED BY <1>1, <1>2, <1>3

\* At the start nobody has looked.
LEMMA InitGate == Init => GateInv
  BY SMTT(60) DEF Init, GateInv, Checked, Looked

\* Every step preserves GateInv.
LEMMA GateNext == TypeOK /\ GateInv /\ [Next]_vars => GateInv'
<1> SUFFICES ASSUME TypeOK, GateInv, [Next]_vars PROVE GateInv'
  OBVIOUS
<1>a. pc \in [Command -> Place] /\ live \in [Command -> Object \cup {Absent}]
  BY DEF TypeOK, Place
<1>g. ASSUME NEW c \in Command, NEW p, GoTo(c, p)
      PROVE  pc'[c] = p /\ \A d \in Command : d # c => pc'[d] = pc[d]
  BY <1>a, <1>g DEF GoTo
<1>h. ASSUME NEW c \in Command, NEW s, Finish(c, s)
      PROVE  pc'[c] = "done" /\ \A d \in Command : d # c => pc'[d] = pc[d]
  BY <1>g, <1>h DEF Finish
\* A write at which no handler comes to look, or moves while it does.
<1>w. ASSUME NEW o \in Obj, Fresh(o), UNCHANGED live,
             \A c \in Command : Looked(c)' => Looked(c) /\ idx'[c] = idx[c]
      PROVE  GateInv'
  <2>1. \A c \in Command : idx'[c] = idx[c] => Target(c)' = Target(c)
    BY DEF Target
  <2>2. \A c \in Command : Checked(c)' => Checked(c) /\ idx'[c] = idx[c]
    BY <1>w DEF Checked
  <2>3. \A c \in Command : Looked(c)' /\ c.verb # "apply" => Checked(c)'
    BY <1>w DEF Checked, GateInv
  <2> QED BY <1>w, <2>1, <2>2, <2>3, FreshKeeps, Zenon DEF GateInv, Proceeds
\* The same for a step that writes nothing.
<1>r. ASSUME UNCHANGED <<store, clock, live>>,
             \A c \in Command : Looked(c)' => Looked(c) /\ idx'[c] = idx[c]
      PROVE  GateInv'
  <2>1. \A c \in Command : idx'[c] = idx[c] => Target(c)' = Target(c)
    BY DEF Target
  <2>2. \A c \in Command : Checked(c)' => Checked(c) /\ idx'[c] = idx[c]
    BY <1>r DEF Checked
  <2>3. \A c \in Command : Looked(c)' /\ c.verb # "apply" => Checked(c)'
    BY <1>r DEF Checked, GateInv
  <2> QED BY <1>r, <2>1, <2>2, <2>3, Zenon DEF GateInv, Proceeds
<1>1. ASSUME NEW c \in Command, Begin(c) PROVE GateInv'
  <2>1. pc'[c] \in {"done", "fetch"} /\ \A d \in Command : d # c => pc'[d] = pc[d]
    BY <1>1, <1>g, <1>h DEF Begin
  <2> QED BY <1>1, <1>r, <2>1 DEF Begin, NoCommit, Looked
<1>2. ASSUME NEW c \in Command, Fetch(c) PROVE GateInv'
  <2>1. CASE UNCHANGED live /\ Finish(c, <<"failed">>)
    <3>1. \A d \in Command : Looked(d)' => Looked(d) /\ idx'[d] = idx[d]
      BY <1>2, <2>1, <1>h DEF Fetch, Looked
    <3> QED BY <1>2, <1>r, <2>1, <3>1, Zenon DEF Fetch, NoCommit
  <2>2. ASSUME NEW o, o = store[Subject(c)],
               Fetched(c, o), live' = [live EXCEPT ![c] = o]
        PROVE  GateInv'
    <3>1. /\ \A d \in Command : d # c => pc'[d] = pc[d]
          /\ \/ pc'[c] = "done"
             \/ /\ c.verb \in {"apply", "patch", "delete"} /\ o # Absent
                   => Proceeds(c, o.content)
                /\ c.verb \in {"patch", "delete"} => o # Absent
      <4>1. CASE \E s : Finish(c, s)
        BY <1>h, <4>1
      <4>2. CASE Prepared(c)
        <5>1. c.verb \in {"apply", "patch", "delete"} /\ ~ (\E s : Finish(c, s))
              => /\ o # Absent => Proceeds(c, o.content)
                 /\ c.verb \in {"patch", "delete"} => o # Absent
          BY <2>2 DEF Fetched, ApplyFetched, PatchFetched, DeleteFetched, Gated
        <5>2. \A d \in Command : d # c => pc'[d] = pc[d]
          BY <1>g, <4>2, Zenon DEF Prepared
        <5> QED BY <4>1, <5>1, <5>2, Zenon
      <4> QED BY <2>2, <4>1, <4>2, Zenon
              DEF Fetched, ApplyFetched, PatchFetched, DeleteFetched,
                  CertRotateFetched, UpgradeFetched, Gated
    <3>2. UNCHANGED <<store, clock, idx>> /\ live'[c] = o
          /\ \A d \in Command : d # c => live'[d] = live[d]
      BY <1>2, <1>a, <2>2 DEF Fetch, NoCommit
    <3>3. \A d \in Command : Target(d)' = Target(d)
      BY <3>2 DEF Target
    <3>4. c.verb # "cert-rotate" => Subject(c) = Target(c)
      BY DEF Subject
    <3>5. Checked(c)' => Proceeds(c, o.content) /\ o = store[Target(c)]
      BY <2>2, <3>1, <3>2, <3>4 DEF Checked, Looked
    <3>7. Looked(c)' /\ c.verb # "apply" => Checked(c)'
      BY <3>1, <3>2 DEF Checked, Looked
    <3>6. o # Absent => o.rv <= clock
      BY <2>2, TargetType DEF GateInv
    <3>8. ASSUME NEW d \in Command, d # c
          PROVE  (Looked(d)' <=> Looked(d)) /\ (Checked(d)' <=> Checked(d))
      BY <3>1, <3>2, <3>8 DEF Looked, Checked
    <3> QED BY <3>2, <3>3, <3>5, <3>6, <3>7, <3>8, SMTT(60) DEF GateInv, Proceeds
  <2> QED BY <1>2, <2>1, <2>2 DEF Fetch
<1>3. ASSUME NEW c \in Command, DryRun(c) PROVE GateInv'
  <2>1. pc[c] = "dryrun" /\ pc'[c] \in {"done", "write"}
        /\ \A d \in Command : d # c => pc'[d] = pc[d]
    BY <1>3, <1>g, <1>h, Zenon DEF DryRun
  <2> QED BY <1>3, <1>r, <2>1, Zenon DEF DryRun, NoCommit, Looked
<1>4. ASSUME NEW c \in Command, Write(c) PROVE GateInv'
  <2>1. pc'[c] \in {"done", "fetch", "restamp"} /\ \A d \in Command : d # c => pc'[d] = pc[d]
    BY <1>4, <1>g, <1>h, Zenon DEF Write, Continue
  <2>2. UNCHANGED live /\ \A d \in Command : d # c => idx'[d] = idx[d]
    BY <1>4, Zenon DEF Write, Continue, TypeOK
  <2>3. \A d \in Command : Looked(d)' => Looked(d) /\ idx'[d] = idx[d]
    BY <2>1, <2>2 DEF Looked
  <2>4. CASE Commit(c)
    BY <1>w, <2>2, <2>3, <2>4, WritesAreFresh, TargetType, Zenon
  <2>5. CASE NoCommit
    BY <1>r, <2>2, <2>3, <2>5 DEF NoCommit
  <2> QED BY <1>4, <2>4, <2>5 DEF Write
<1>5. ASSUME NEW c \in Command, RestampGet(c) PROVE GateInv'
  <2>1. UNCHANGED <<store, clock, idx>>
        /\ \A d \in Command : d # c => live'[d] = live[d] /\ pc'[d] = pc[d]
    BY <1>5, <1>a, <1>g, <1>h DEF RestampGet, NoCommit
  <2>2. pc'[c] \in {"stamp", "done"}
    BY <1>5, <1>g, <1>h DEF RestampGet
  <2>3. live'[c] # Absent => live'[c].rv <= clock
    BY <1>5, <1>a, TargetType, Zenon DEF RestampGet, GateInv
  <2>4. \A d \in Command : Target(d)' = Target(d)
    BY <2>1 DEF Target
  <2>5. \A d \in Command : Looked(d)' => Looked(d) /\ d # c
    BY <2>1, <2>2 DEF Looked
  <2>6. \A d \in Command : d # c => (Checked(d)' => Checked(d))
    BY <2>1, <2>5 DEF Checked
  <2>7. \A d \in Command : Looked(d)' /\ d.verb # "apply" => Checked(d)'
    BY <2>1, <2>5 DEF Checked, GateInv
  <2>8. \A d \in Command : Checked(d)' => d # c
    BY <2>5 DEF Checked
  <2> QED BY <2>1, <2>3, <2>4, <2>6, <2>7, <2>8, SMTT(60) DEF GateInv, Proceeds
<1>6. ASSUME NEW c \in Command, RestampPatch(c) PROVE GateInv'
  <2>1. pc'[c] = "done" /\ \A d \in Command : d # c => pc'[d] = pc[d]
    BY <1>6, <1>h DEF RestampPatch
  <2>2. UNCHANGED live /\ \A d \in Command : Looked(d)' => Looked(d) /\ idx'[d] = idx[d]
    BY <1>6, <2>1 DEF RestampPatch, Looked
  <2> QED BY <1>6, <1>r, <1>w, <2>2, WritesAreFresh, TargetType
<1>7. ASSUME NEW o \in Obj, Foreign(o) PROVE GateInv'
  <2>1. UNCHANGED <<live, pc, idx>>
    BY <1>7, Zenon DEF Foreign
  <2> QED BY <1>7, <1>w, <2>1, WritesAreFresh, Zenon DEF Looked
<1>8. ASSUME UNCHANGED vars PROVE GateInv'
  BY <1>8, <1>r, Zenon DEF vars, Looked
<1> QED BY <1>1, <1>2, <1>3, <1>4, <1>5, <1>6, <1>7, <1>8 DEF Next, Handle

\* A step that is the real write of c is its Write.
LEMMA WriteStep ==
  ASSUME TypeOK, Next, NEW c \in Command, Writes(c)
  PROVE  Write(c)
<1>a. pc \in [Command -> Place]
  BY DEF TypeOK, Place
<1>g. ASSUME NEW d \in Command, NEW p, GoTo(d, p), d # c PROVE pc'[c] = pc[c]
  BY <1>a, <1>g DEF GoTo
<1>1. ASSUME NEW d \in Command, Handle(d), d # c PROVE pc'[c] = pc[c]
  <2>1. \A s : Finish(d, s) => pc'[c] = pc[c]
    BY <1>1, <1>g, Zenon DEF Finish
  <2>2. Fetch(d) => pc'[c] = pc[c]
    BY <1>1, <1>g, <2>1, Zenon
       DEF Fetch, Fetched, ApplyFetched, PatchFetched, DeleteFetched,
           CertRotateFetched, UpgradeFetched, Gated, Prepared
  <2>3. Begin(d) \/ DryRun(d) \/ RestampGet(d) \/ RestampPatch(d) => pc'[c] = pc[c]
    BY <1>1, <1>g, <2>1 DEF Begin, DryRun, RestampGet, RestampPatch
  <2>4. Write(d) => pc'[c] = pc[c]
    BY <1>1, <1>g, <2>1, Zenon DEF Write, Continue
  <2> QED BY <1>1, <2>2, <2>3, <2>4 DEF Handle
<1>2. \A o \in Obj : Foreign(o) => pc'[c] = pc[c]
  BY DEF Foreign
<1> QED
  BY <1>1, <1>2, ZenonT(60) DEF Next, Handle, Writes, Begin, Fetch, DryRun, RestampGet, RestampPatch

\* What the apply handler writes over an existing object.
LEMMA GatedStep == TypeOK /\ GateInv /\ [Next]_vars => [ApplyStep]_vars
<1> SUFFICES ASSUME TypeOK, GateInv, Next, NEW c \in Command,
                    Writes(c), c.verb = "apply", store[Target(c)] # Absent
             PROVE  /\ Proceeds(c, store[Target(c)].content)
                    /\ store'[Target(c)].content.rest = store[Target(c)].content.rest
  BY DEF ApplyStep, vars, Writes
<1>3. Write(c)
  BY WriteStep
<1>4. Admits(c) /\ Commit(c) /\ ~Removes(c)
  BY <1>3 DEF Write, NoCommit, Writes, Removes
<1>5. Target(c) \in Obj /\ c.own \in Value
  BY TargetType
<1>6. live[c] # Absent /\ live[c] \in Object /\ live[c].rv = store[Target(c)].rv
  BY <1>4 DEF Admits, ApplyAdmitted, TypeOK
<1>7. store[Target(c)].content = live[c].content /\ Proceeds(c, live[c].content)
  BY <1>6 DEF GateInv, Checked, Looked, Writes
<1>8. PICK default \in Value :
          store' = [store EXCEPT ![Target(c)] =
                      [rv |-> clock + 1, stamp |-> Stamp(c),
                       content |-> Stored(Body(c), default)]]
  BY <1>4, Zenon DEF Commit
<1>9. store'[Target(c)].content = Stored(Body(c), default)
  BY <1>5, <1>8 DEF TypeOK
<1>10. Body(c) = [live[c].content EXCEPT !.own = c.own]
  BY <1>6 DEF Body
<1>11. live[c].content \in Content
  BY <1>6 DEF Object
<1>12. Body(c).rest = live[c].content.rest /\ live[c].content.rest \in Value
  BY <1>10, <1>11 DEF Content
<1>13. Stored(Body(c), default) = Body(c)
  BY <1>12, AbsentAssumption DEF Stored
<1> QED BY <1>7, <1>9, <1>12, <1>13, Zenon

\* For any objects, commands, policies and interleavings: an apply overwrites
\* only a state that passes the drift check at the moment of the write, and keeps
\* what its manifest omits of it.
THEOREM ApplyGated == Spec => ApplyIsGated
  BY InitGate, TypeCorrect, GateNext, GatedStep, PTL DEF Spec, ApplyIsGated

\* For any objects, commands, policies and interleavings: what a patch or delete
\* changes against the drift policy was written after it looked.
THEOREM WindowOnly == Spec => DriftWindow
<1>1. TypeOK /\ GateInv /\ [Next]_vars => [DriftWindowStep]_vars
  <2> SUFFICES ASSUME TypeOK, GateInv, Next, NEW c \in Command, Writes(c),
                      c.verb \in {"patch", "delete"}, store[Target(c)] # Absent
               PROVE  \/ Proceeds(c, store[Target(c)].content)
                      \/ live[c] # Absent /\ live[c].rv # store[Target(c)].rv
    BY DEF DriftWindowStep, vars, Writes
  <2>1. Checked(c)
    BY DEF GateInv, Looked, Writes
  <2> QED BY <2>1 DEF GateInv, Checked
<1> QED BY <1>1, InitGate, TypeCorrect, GateNext, PTL DEF Spec, DriftWindow

-----------------------------------------------------------------------------
(* What the handlers report: one terminal report, the last one, and success *)
(* only for a complete write.                                               *)


Passing == Status \ Terminal

\* The reports of a handler at work, and of one that has returned.
Pending(s) == \A i \in 1..Len(s) : s[i] \notin Terminal
Closed(s) ==
    /\ s # << >> /\ Last(s) \in Terminal
    /\ \A i \in 1..Len(s) : s[i] \in Terminal => i = Len(s)

ReportInv ==
    \A c \in Command : IF pc[c] = "done" THEN Closed(reports[c]) ELSE Pending(reports[c])

\* The two ways a handler takes a step.
Moves(c) ==
    /\ \E p \in Place \ {"done"} : GoTo(c, p)
    /\ UNCHANGED reports \/ \E a \in Passing : Say(c, <<a>>)
Ends(c) ==
    \E t \in Terminal : Finish(c, <<t>>) \/ \E a \in Passing : Finish(c, <<a, t>>)

\* What a further report makes of the reports so far.
LEMMA ReportsGrow ==
  ASSUME NEW s \in Seq(Status), Pending(s)
  PROVE  /\ \A a \in Passing : Pending(s \o <<a>>)
         /\ \A t \in Terminal : Closed(s \o <<t>>) /\ Last(s \o <<t>>) = t
         /\ \A a \in Passing, t \in Terminal :
               Closed(s \o <<a, t>>) /\ Last(s \o <<a, t>>) = t
<1>1. \A a \in Passing : Pending(s \o <<a>>)
  BY DEF Pending, Passing
<1>2. ASSUME NEW t \in Terminal
      PROVE  Closed(s \o <<t>>) /\ Last(s \o <<t>>) = t
  <2>1. Len(s \o <<t>>) = Len(s) + 1 /\ (s \o <<t>>)[Len(s) + 1] = t
    OBVIOUS
  <2>2. \A i \in 1..Len(s) : (s \o <<t>>)[i] = s[i]
    OBVIOUS
  <2> QED BY <2>1, <2>2 DEF Pending, Closed, Last
<1>3. ASSUME NEW a \in Passing, NEW t \in Terminal
      PROVE  Closed(s \o <<a, t>>) /\ Last(s \o <<a, t>>) = t
  <2>1. Len(s \o <<a, t>>) = Len(s) + 2 /\ (s \o <<a, t>>)[Len(s) + 2] = t
    OBVIOUS
  <2>2. \A i \in 1..Len(s) : (s \o <<a, t>>)[i] = s[i]
    OBVIOUS
  <2>3. (s \o <<a, t>>)[Len(s) + 1] \notin Terminal
    BY DEF Passing
  <2> QED BY <2>1, <2>2, <2>3 DEF Pending, Closed, Last
<1> QED BY <1>1, <1>2, <1>3

\* Every step of a handler that has not returned is of one of the two kinds.
LEMMA HandlerStep ==
  ASSUME NEW c \in Command, Handle(c)
  PROVE  pc[c] # "done" /\ (Moves(c) \/ Ends(c))
<1>1. /\ {"succeeded", "failed", "refused"} \subseteq Terminal
      /\ {"validating", "dry-run", "applying"} \subseteq Passing
      /\ {"fetch", "dryrun", "write", "restamp", "stamp"} \subseteq Place \ {"done"}
  BY DEF Terminal, Passing, Status, Place
<1>2. Begin(c) => pc[c] # "done" /\ (Moves(c) \/ Ends(c))
  BY <1>1, Zenon DEF Begin, Moves, Ends
<1>3. Fetch(c) => pc[c] # "done" /\ (Moves(c) \/ Ends(c))
  <2>1. \A o : Gated(c, o) => Moves(c) \/ Ends(c)
    BY <1>1, Zenon DEF Gated, Prepared, Moves, Ends
  <2>2. Prepared(c) => Moves(c)
    BY <1>1, Zenon DEF Prepared, Moves
  <2>3. \A o : Fetched(c, o) => Moves(c) \/ Ends(c)
    BY <1>1, <2>1, <2>2, Zenon DEF Fetched, ApplyFetched, PatchFetched, DeleteFetched,
       CertRotateFetched, UpgradeFetched, Ends
  <2> QED BY <1>1, <2>3, Zenon DEF Fetch, Ends
<1>4. DryRun(c) => pc[c] # "done" /\ (Moves(c) \/ Ends(c))
  BY <1>1, Zenon DEF DryRun, Moves, Ends
<1>5. Write(c) => pc[c] # "done" /\ (Moves(c) \/ Ends(c))
  BY <1>1, Zenon DEF Write, Continue, Moves, Ends
<1>6. RestampGet(c) => pc[c] # "done" /\ (Moves(c) \/ Ends(c))
  BY <1>1, Zenon DEF RestampGet, Moves, Ends
<1>7. RestampPatch(c) => pc[c] # "done" /\ (Moves(c) \/ Ends(c))
  BY <1>1, Zenon DEF RestampPatch, Ends
<1> QED BY <1>2, <1>3, <1>4, <1>5, <1>6, <1>7 DEF Handle

\* A handler's step touches no other handler's place and reports.
LEMMA OthersKept ==
  ASSUME TypeOK, NEW c \in Command, Moves(c) \/ Ends(c), NEW d \in Command, d # c
  PROVE  pc'[d] = pc[d] /\ reports'[d] = reports[d]
<1>1. /\ \A s : Say(c, s) => reports'[d] = reports[d]
      /\ \A p : GoTo(c, p) => pc'[d] = pc[d]
  BY Zenon DEF Say, GoTo, TypeOK
<1> QED BY <1>1, Zenon DEF Moves, Ends, Finish

\* What the step makes of its own.
LEMMA OwnReports ==
  ASSUME TypeOK, NEW c \in Command, Pending(reports[c])
  PROVE  /\ Moves(c) => pc'[c] # "done" /\ Pending(reports'[c])
         /\ Ends(c) => pc'[c] = "done" /\ Closed(reports'[c])
<1>1. reports \in [Command -> Seq(Status)] /\ pc \in [Command -> Place]
  BY Zenon DEF TypeOK, Status, Place
<1>2. /\ \A s : Say(c, s) => reports'[c] = reports[c] \o s
      /\ \A p : GoTo(c, p) => pc'[c] = p
  BY <1>1, Zenon DEF Say, GoTo
<1>3. reports[c] \in Seq(Status)
  BY <1>1
<1>4. Moves(c) => pc'[c] # "done" /\ Pending(reports'[c])
  BY <1>2, <1>3, ReportsGrow, Zenon DEF Moves
<1>5. Ends(c) => pc'[c] = "done" /\ Closed(reports'[c])
  <2>1. ASSUME NEW t \in Terminal, Finish(c, <<t>>)
        PROVE  pc'[c] = "done" /\ Closed(reports'[c])
    BY <1>2, <1>3, <2>1, ReportsGrow, Zenon DEF Finish
  <2>2. ASSUME NEW t \in Terminal, NEW a \in Passing, Finish(c, <<a, t>>)
        PROVE  pc'[c] = "done" /\ Closed(reports'[c])
    <3>1. pc'[c] = "done" /\ reports'[c] = reports[c] \o <<a, t>>
      BY <1>2, <2>2, Zenon DEF Finish
    <3>2. Closed(reports[c] \o <<a, t>>)
      BY <1>3, ReportsGrow, Zenon
    <3> QED BY <3>1, <3>2, Zenon
  <2> QED BY <2>1, <2>2, Zenon DEF Ends
<1> QED BY <1>4, <1>5

\* Every step preserves ReportInv.
LEMMA ReportNext == TypeOK /\ ReportInv /\ [Next]_vars => ReportInv'
<1> SUFFICES ASSUME TypeOK, ReportInv, [Next]_vars PROVE ReportInv'
  OBVIOUS
<1>1. ASSUME NEW c \in Command, Handle(c) PROVE ReportInv'
  <2>1. pc[c] # "done" /\ (Moves(c) \/ Ends(c)) /\ Pending(reports[c])
    BY <1>1, HandlerStep DEF ReportInv
  <2>2. IF pc'[c] = "done" THEN Closed(reports'[c]) ELSE Pending(reports'[c])
    BY <2>1, OwnReports
  <2>3. \A d \in Command : d # c => pc'[d] = pc[d] /\ reports'[d] = reports[d]
    BY <2>1, OthersKept, Zenon
  <2> QED BY <2>2, <2>3 DEF ReportInv, Closed, Pending
<1>2. ASSUME UNCHANGED <<pc, reports>> PROVE ReportInv'
  BY <1>2 DEF ReportInv, Closed, Pending
<1>3. (\E o \in Obj : Foreign(o)) \/ UNCHANGED vars => UNCHANGED <<pc, reports>>
  BY DEF Foreign, vars
<1> QED BY <1>1, <1>2, <1>3 DEF Next

\* The initial states satisfy ReportInv.
LEMMA ReportInit == Init => ReportInv
  BY DEF Init, ReportInv, Pending

\* For any set of commands and any interleaving: every handler reports exactly
\* one of succeeded, failed and refused, last, and on every path that returns.
THEOREM ExactlyOneTerminal == Spec => []OneTerminal
<1>1. ReportInv => OneTerminal
  BY DEF ReportInv, OneTerminal, Closed, Pending
<1> QED BY <1>1, TypeCorrect, ReportInit, ReportNext, PTL DEF Spec

-----------------------------------------------------------------------------
\* A handler at work has written every object before the one it is at, and that
\* one too when it re-stamps; only a patch does.
Succeeded(c) == reports[c] # << >> /\ Last(reports[c]) = "succeeded"
CompleteInv ==
    \A c \in Command :
        /\ pc[c] # "done" => \A i \in 1..(idx[c] - 1) : c.targets[i] \in written[c]
        /\ pc[c] \in {"restamp", "stamp"} => c.verb = "patch" /\ Target(c) \in written[c]
        /\ Succeeded(c) /\ c.verb # "delete" => Range(c.targets) \subseteq written[c]

\* At the last object, when that one is written too, nothing is missing.
LEMMA AllWritten ==
  ASSUME TypeOK, NEW c \in Command, NEW W,
         \A i \in 1..(idx[c] - 1) : c.targets[i] \in W, Target(c) \in W,
         idx[c] = Len(c.targets)
  PROVE  Range(c.targets) \subseteq W
<1>1. c.targets \in Seq(Obj) /\ idx[c] \in Nat
  BY ExecutorAssumption DEF CommandType, TypeOK
<1>2. \A i \in 1..Len(c.targets) : c.targets[i] \in W
  BY <1>1 DEF Target
<1> QED BY <1>1, <1>2 DEF Range

\* Only these steps report success.
LEMMA SuccessStep ==
  ASSUME TypeOK, ReportInv, NEW c \in Command, Handle(c), Succeeded(c)'
  PROVE  /\ ~Succeeded(c)
         /\ \/ Fetch(c) /\ c.verb = "delete"
            \/ Write(c) /\ Commit(c) /\ LastObject(c)
            \/ RestampGet(c) \/ RestampPatch(c)
<1>1. pc[c] # "done" /\ Pending(reports[c])
  BY HandlerStep DEF ReportInv
<1>2. reports \in [Command -> Seq(Status)]
  BY Zenon DEF TypeOK, Status
<1>3. reports[c] \in Seq(Status) /\ \A s : Say(c, s) => reports'[c] = reports[c] \o s
  BY <1>2, Zenon DEF Say
<1>4. ~Succeeded(c)
  BY <1>1, <1>3 DEF Pending, Succeeded, Last, Terminal
<1>5. /\ {"failed", "refused"} \subseteq Terminal
      /\ {"validating", "dry-run", "applying"} \subseteq Passing
  BY DEF Terminal, Passing, Status
<1>6. ~ UNCHANGED reports
  BY <1>4 DEF Succeeded
<1>7. ASSUME NEW a \in Passing PROVE ~ Say(c, <<a>>)
  <2>1. Pending(reports[c] \o <<a>>)
    BY <1>1, <1>3, ReportsGrow, Zenon
  <2>2. reports[c] \o <<a>> \in Seq(Status)
    BY <1>3 DEF Passing
  <2>3. Say(c, <<a>>) => Pending(reports'[c]) /\ reports'[c] \in Seq(Status)
    BY <1>3, <2>1, <2>2, Zenon
  <2> QED BY <2>3 DEF Pending, Succeeded, Last, Terminal
<1>8. ASSUME NEW t \in {"failed", "refused"}
      PROVE  ~ Finish(c, <<t>>) /\ \A a \in Passing : ~ Finish(c, <<a, t>>)
  <2>1. Last(reports[c] \o <<t>>) = t
    BY <1>1, <1>3, <1>5, ReportsGrow, Zenon
  <2>2. \A a \in Passing : Last(reports[c] \o <<a, t>>) = t
    BY <1>1, <1>3, <1>5, ReportsGrow, Zenon
  <2>3. t # "succeeded" /\ Last(reports'[c]) = "succeeded"
    BY DEF Succeeded
  <2>4. Finish(c, <<t>>) => reports'[c] = reports[c] \o <<t>>
    BY <1>3, Zenon DEF Finish
  <2>5. \A a \in Passing : Finish(c, <<a, t>>) => reports'[c] = reports[c] \o <<a, t>>
    BY <1>3, Zenon DEF Finish
  <2> QED BY <2>1, <2>2, <2>3, <2>4, <2>5, Zenon
<1>9. ~ Begin(c) /\ ~ DryRun(c)
  BY <1>5, <1>6, <1>7, <1>8, Zenon DEF Begin, DryRun
<1>10. Fetch(c) => c.verb = "delete"
  BY <1>6, <1>8, Zenon DEF Fetch, Fetched, ApplyFetched, PatchFetched,
     CertRotateFetched, UpgradeFetched, Gated, Prepared
<1>11. Write(c) => Commit(c) /\ LastObject(c)
  BY <1>5, <1>7, <1>8, Zenon DEF Write, Continue
<1> QED BY <1>4, <1>9, <1>10, <1>11 DEF Handle

\* Every step preserves CompleteInv.
LEMMA CompleteNext == TypeOK /\ ReportInv /\ CompleteInv /\ [Next]_vars => CompleteInv'
<1> SUFFICES ASSUME TypeOK, ReportInv, CompleteInv, [Next]_vars PROVE CompleteInv'
  OBVIOUS
<1>1. ASSUME NEW c \in Command, Handle(c) PROVE CompleteInv'
  <2>0. pc[c] # "done" /\ (Moves(c) \/ Ends(c))
    BY <1>1, HandlerStep
  <2>1. \A d \in Command : d # c => pc'[d] = pc[d] /\ reports'[d] = reports[d]
    BY <2>0, OthersKept, Zenon
  <2>2. /\ \A d \in Command : d # c => idx'[d] = idx[d] /\ written'[d] = written[d]
        /\ written[c] \subseteq written'[c]
    <3>1. Commit(c) => /\ \A d \in Command : d # c => written'[d] = written[d]
                       /\ written[c] \subseteq written'[c]
      BY DEF Commit, TypeOK
    <3>2. NoCommit => UNCHANGED written
      BY DEF NoCommit
    <3>3. Begin(c) \/ Fetch(c) \/ DryRun(c) \/ RestampGet(c) \/ RestampPatch(c)
          => UNCHANGED <<idx, written>>
      BY <3>2 DEF Begin, Fetch, DryRun, RestampGet, RestampPatch
    <3>4. Write(c) => \A d \in Command : d # c => idx'[d] = idx[d]
      BY DEF Write, Continue, TypeOK
    <3> QED BY <1>1, <3>1, <3>2, <3>3, <3>4, ZenonT(60) DEF Handle, Write
  <2>3. ASSUME NEW d \in Command, d # c PROVE CompleteInv!(d)'
    <3>1. Target(d)' = Target(d)
      BY <2>2, <2>3 DEF Target
    <3> QED BY <2>1, <2>2, <2>3, <3>1 DEF CompleteInv, Succeeded
  <2>4. CompleteInv!(c)'
    <3>1. pc'[c] # "done" => \A i \in 1..(idx'[c] - 1) : c.targets[i] \in written'[c]
      <4>1. CASE idx'[c] = idx[c]
        BY <2>0, <2>2, <4>1 DEF CompleteInv
      <4>2. CASE Write(c) /\ Commit(c) /\ idx'[c] = idx[c] + 1
        <5>1. Target(c) \in written'[c]
          BY <4>2 DEF Commit, TypeOK
        <5>2. \A i \in 1..(idx[c] - 1) : c.targets[i] \in written'[c]
          BY <2>0, <2>2 DEF CompleteInv
        <5>3. c.targets[idx[c]] \in written'[c] /\ idx[c] \in Nat \ {0}
          BY <5>1, Zenon DEF Target, TypeOK
        <5> QED BY <4>2, <5>2, <5>3
      <4>3. Write(c) => idx'[c] = idx[c] \/ (Commit(c) /\ idx'[c] = idx[c] + 1)
        BY DEF Write, Continue, TypeOK
      <4>4. ~ Write(c) => idx'[c] = idx[c]
        BY <1>1 DEF Handle, Begin, Fetch, DryRun, RestampGet, RestampPatch
      <4> QED BY <4>1, <4>2, <4>3, <4>4
    <3>2. pc'[c] \in {"restamp", "stamp"}
          => c.verb = "patch" /\ Target(c)' \in written'[c]
      <4>1. /\ \A p : GoTo(c, p) => pc'[c] = p
            /\ \A s : Finish(c, s) => pc'[c] = "done"
        BY DEF GoTo, Finish, TypeOK
      <4>2. Begin(c) \/ DryRun(c) \/ RestampPatch(c) => pc'[c] \notin {"restamp", "stamp"}
        BY <4>1 DEF Begin, DryRun, RestampPatch
      <4>3. Fetch(c) => pc'[c] \notin {"restamp", "stamp"}
        BY <4>1 DEF Fetch, Fetched, ApplyFetched, PatchFetched, DeleteFetched,
           CertRotateFetched, UpgradeFetched, Gated, Prepared
      <4>4. CASE Write(c)
        <5>1. pc'[c] \in {"restamp", "stamp"} => c.verb = "patch" /\ Commit(c) /\ UNCHANGED idx
          BY <4>1, <4>4 DEF Write, Continue
        <5>2. Commit(c) => Target(c) \in written'[c]
          BY DEF Commit, TypeOK
        <5> QED BY <5>1, <5>2 DEF Target
      <4>5. CASE RestampGet(c)
        BY <4>5 DEF RestampGet, NoCommit, CompleteInv, Target
      <4> QED BY <1>1, <4>2, <4>3, <4>4, <4>5 DEF Handle
    <3>3. Succeeded(c)' /\ c.verb # "delete" => Range(c.targets) \subseteq written'[c]
      <4> SUFFICES ASSUME Succeeded(c)', c.verb # "delete"
                   PROVE  Range(c.targets) \subseteq written'[c]
        OBVIOUS
      <4>1. \/ Write(c) /\ Commit(c) /\ LastObject(c)
            \/ RestampGet(c) \/ RestampPatch(c)
        BY <1>1, SuccessStep
      <4>2. \A i \in 1..(idx[c] - 1) : c.targets[i] \in written'[c]
        BY <2>0, <2>2 DEF CompleteInv
      <4>3. CASE Commit(c) /\ LastObject(c)
        <5>1. Target(c) \in written'[c]
          BY <4>3 DEF Commit, TypeOK
        <5> QED BY <4>2, <4>3, <5>1, AllWritten DEF LastObject
      <4>4. CASE RestampGet(c) \/ RestampPatch(c)
        <5>1. c.verb = "patch" /\ Target(c) \in written'[c]
          BY <2>2, <4>4 DEF RestampGet, RestampPatch, CompleteInv
        <5>2. idx[c] = Len(c.targets)
          <6>1. Len(c.targets) = 1
            BY <5>1, ExecutorAssumption
          <6>2. idx[c] \in Nat \ {0} /\ idx[c] <= Len(c.targets)
            BY Zenon DEF TypeOK
          <6> QED BY <6>1, <6>2
        <5> QED BY <4>2, <5>1, <5>2, AllWritten
      <4> QED BY <4>1, <4>3, <4>4
    <3> QED BY <3>1, <3>2, <3>3
  <2> QED BY <2>3, <2>4 DEF CompleteInv
<1>2. ASSUME UNCHANGED <<pc, idx, reports, written>> PROVE CompleteInv'
  BY <1>2 DEF CompleteInv, Succeeded, Target
<1>3. (\E o \in Obj : Foreign(o)) \/ UNCHANGED vars => UNCHANGED <<pc, idx, reports, written>>
  BY DEF Foreign, vars
<1> QED BY <1>1, <1>2, <1>3 DEF Next

\* For any manifests, commands and faults: a handler that reports succeeded has
\* written every object of its command, a delete of what was absent excepted.
THEOREM SuccessMeansComplete == Spec => []SuccessIsComplete
<1>1. Init => CompleteInv
  BY DEF Init, CompleteInv, Succeeded
<1>2. CompleteInv => SuccessIsComplete
  BY DEF CompleteInv, SuccessIsComplete, Succeeded
<1> QED BY <1>1, <1>2, TypeCorrect, ReportInit, ReportNext, CompleteNext, PTL DEF Spec
=============================================================================
