------------------------------ MODULE Uploader ------------------------------
(***************************************************************************)
(* internal/uploader: the queue between the informers and the control      *)
(* plane.  Informer goroutines call Enqueue; one goroutine executes Run,   *)
(* which sends a full snapshot, then batches of buffered events, and       *)
(* starts over with a snapshot after a failed send.  A full buffer spills  *)
(* to a file that is replayed once the buffer has drained.  The sequence   *)
(* number of the last acknowledged batch is kept in a second file.         *)
(*                                                                         *)
(* An event is a member of Event (a delta) or SyncEvent (an element of a   *)
(* snapshot).  The environment decides when a send fails, when the disk    *)
(* fails and when the process restarts; each has a budget.                 *)
(***************************************************************************)
EXTENDS Sequences, FiniteSetsExt

CONSTANTS
    Event,           \* the delta events that may be enqueued
    SyncEvent,       \* the events a snapshot is made of
    Snapshots,       \* the values Snapshotter.Snapshot() may return
    EventSize,       \* eventSize, as a function of the event
    Capacity,        \* u.capacity
    BatchSize,       \* batchSize
    MaxBatchBytes,   \* u.maxBatchBytes
    InitialBackoff,  \* initialBackoff
    MaxBackoff,      \* maxBackoff
    MaxEvents,       \* bound: calls of Enqueue
    MaxNetFaults,    \* bound: failed sends
    MaxDiskFaults,   \* bound: failed file operations
    MaxRestarts      \* bound: restarts of the process

ASSUME QueueAssumption ==
    /\ Capacity \in Nat \ {0}
    /\ BatchSize \in Nat \ {0}
    /\ MaxBatchBytes \in Nat
    /\ EventSize \in [Event \cup SyncEvent -> Nat]
    /\ Snapshots \subseteq Seq(SyncEvent)

ASSUME BackoffAssumption ==
    /\ InitialBackoff \in Nat \ {0}
    /\ MaxBackoff \in Nat
    /\ InitialBackoff <= MaxBackoff

ASSUME BudgetAssumption ==
    {MaxEvents, MaxNetFaults, MaxDiskFaults, MaxRestarts} \subseteq Nat

VARIABLES
    buf,           \* u.buf
    spill,         \* the events that can be decoded from the spill file
    torn,          \* the spill file ends in the middle of a line
    notify,        \* u.notify holds a token
    signalling,    \* Enqueue calls between u.mu.Unlock() and u.signal()
    seq,           \* u.seq
    seqFile,       \* the number in the seq file; Unreadable: none or not one
    needSnapshot,  \* u.needSnapshot
    backoff,       \* Run's local backoff
    pc,            \* where the Run goroutine is
    cur,           \* the batch last given to u.send, until it is acknowledged
    rest,          \* sendSnapshot's events that are still to be sent
    produced, netFaults, diskFaults, restarts    \* what the budgets count

queueVars == <<buf, spill, torn, notify, signalling>>
seqVars == <<seq, seqFile>>
loopVars == <<needSnapshot, backoff, pc, cur, rest>>
faultVars == <<netFaults, diskFaults, restarts>>
vars == <<queueVars, seqVars, loopVars, faultVars, produced>>

Unreadable == -1
NoBatch == [seq |-> 0, full |-> FALSE, events |-> << >>]

DiskFault ==
    /\ diskFaults < MaxDiskFaults
    /\ diskFaults' = diskFaults + 1

-----------------------------------------------------------------------------
(* Pure helpers of the code.                                               *)

PrefixBytes(events, n) == SumFunction([i \in 1..n |-> EventSize[events[i]]])

\* Mutant: an event is counted only after it was added.
BatchLenLate(events) ==
    LET n == Min({BatchSize, Len(events)})
    IN  Min({i \in 1..n : \/ i = n
                          \/ ~(PrefixBytes(events, i) <= MaxBatchBytes)})

\* The loop of batchLen goes on while the length is below the longest one
\* allowed and its successor is within the byte budget.
BatchLen(events) ==
    LET n == Min({BatchSize, Len(events)})
    IN  Min({i \in 1..n : \/ i = n
                          \/ ~(PrefixBytes(events, i + 1) <= MaxBatchBytes)})

Front(events) == SubSeq(events, 1, BatchLen(events))
Back(events) == SubSeq(events, BatchLen(events) + 1, Len(events))

\* A missing or unparsable file and a negative number all read as 0.
ReadSeq(file) == IF file < 0 THEN 0 ELSE file

\* Mutants: a failed batch goes to the back of the buffer, or is forgotten.
RequeueBack(events) == buf \o events
RequeueNot(events) == buf

RequeueFront(events) == events \o buf

\* Mutant: the backoff is not capped.
NextBackoffUncapped == 2 * backoff

NextBackoff == Min({2 * backoff, MaxBackoff})

\* Mutant: the number is written before it is advanced.
PersistedPrevious == seq - 1

\* The number persistSeq formats into the file.
Persisted == seq

-----------------------------------------------------------------------------
Init ==
    /\ buf = << >> /\ spill = << >> /\ torn = FALSE
    /\ notify = FALSE /\ signalling = 0
    /\ seq = 0 /\ seqFile = Unreadable
    /\ needSnapshot = TRUE /\ backoff = InitialBackoff
    /\ pc = "loop" /\ cur = NoBatch /\ rest = << >>
    /\ produced = 0 /\ netFaults = 0 /\ diskFaults = 0 /\ restarts = 0

(* The informers' side. *)

\* A write that fails may leave part of a line behind; the next event written
\* then completes that line, which replay cannot decode.
SpillLocked(ev) ==
    \/ /\ spill' = IF torn THEN spill ELSE Append(spill, ev)
       /\ torn' = FALSE
       /\ UNCHANGED diskFaults
    \/ /\ DiskFault
       /\ torn' = TRUE \/ UNCHANGED torn
       /\ UNCHANGED spill

\* Mutant: Enqueue signals only once a batch is full.
OwedSignalsFull ==
    IF Len(buf) + 1 >= BatchSize THEN signalling + 1 ELSE signalling

OwedSignals == signalling + 1

Enqueue(ev) ==
    /\ produced < MaxEvents
    /\ produced' = produced + 1
    /\ \/ /\ Len(buf) < Capacity
          /\ buf' = Append(buf, ev)
          /\ UNCHANGED <<spill, torn, diskFaults>>
       \/ /\ Len(buf) >= Capacity
          /\ SpillLocked(ev)
          /\ UNCHANGED buf
    /\ signalling' = OwedSignals
    /\ UNCHANGED <<notify, seqVars, loopVars, netFaults, restarts>>

Signal ==
    /\ signalling > 0
    /\ signalling' = signalling - 1
    /\ notify' = TRUE
    /\ UNCHANGED <<buf, spill, torn, seqVars, loopVars, faultVars, produced>>

-----------------------------------------------------------------------------
(* The Run goroutine. *)

\* sendBatch up to the call of u.send.
Transmit(events, full) ==
    /\ cur' = [seq |-> seq + 1, full |-> full, events |-> events]
    /\ pc' = "sent"

\* sendSnapshot: an empty snapshot counts as sent.
BeginSnapshot(events) ==
    /\ pc = "loop" /\ needSnapshot
    /\ \/ /\ events = << >>
          /\ needSnapshot' = FALSE
          /\ backoff' = InitialBackoff
          /\ UNCHANGED <<pc, cur, rest>>
       \/ /\ events # << >>
          /\ Transmit(Front(events), TRUE)
          /\ rest' = Back(events)
          /\ UNCHANGED <<needSnapshot, backoff>>
    /\ UNCHANGED <<queueVars, seqVars, faultVars, produced>>

ContinueSnapshot ==
    /\ pc = "snapshot"
    /\ Transmit(Front(rest), TRUE)
    /\ rest' = Back(rest)
    /\ UNCHANGED <<needSnapshot, backoff, queueVars, seqVars, faultVars, produced>>

\* The rest of take, and what Run does with its result.
Dispatch(queue) ==
    \/ /\ queue = << >>
       /\ buf' = << >>
       /\ pc' = "idle"
       /\ UNCHANGED cur
    \/ /\ queue # << >>
       /\ buf' = Back(queue)
       /\ Transmit(Front(queue), FALSE)

\* Mutant: Run waits for a full batch.
TakeFull ==
    /\ pc = "loop" /\ ~needSnapshot
    /\ buf # << >>
    /\ IF Len(buf) >= BatchSize
       THEN Dispatch(buf)
       ELSE pc' = "idle" /\ UNCHANGED <<buf, cur>>
    /\ UNCHANGED <<spill, torn, notify, signalling, seqVars, needSnapshot,
                   backoff, rest, faultVars, produced>>

Take ==
    /\ pc = "loop" /\ ~needSnapshot
    /\ buf # << >>
    /\ Dispatch(buf)
    /\ UNCHANGED <<spill, torn, notify, signalling, seqVars, needSnapshot,
                   backoff, rest, faultVars, produced>>

\* replaySpillLocked reads k events and removes the file unless it read none;
\* opening the file, reading it to its end and removing it may each fail.
TakeSpilled ==
    /\ pc = "loop" /\ ~needSnapshot
    /\ buf = << >>
    /\ \E k \in 0..Len(spill), remove \in BOOLEAN :
          /\ \/ k = Len(spill) /\ remove /\ UNCHANGED diskFaults
             \/ (k < Len(spill) \/ ~remove) /\ DiskFault
          /\ Dispatch(SubSeq(spill, 1, k))
          /\ IF k > 0 /\ remove
             THEN spill' = << >> /\ torn' = FALSE
             ELSE UNCHANGED <<spill, torn>>
    /\ UNCHANGED <<notify, signalling, seqVars, needSnapshot, backoff, rest,
                   netFaults, restarts, produced>>

\* An answer with status 200, its ack.Error set or not.
SendOK ==
    /\ pc = "sent"
    /\ seq' = cur.seq
    /\ pc' = "persist"
    /\ UNCHANGED <<queueVars, seqFile, needSnapshot, backoff, cur, rest,
                   faultVars, produced>>

\* Any other outcome: the error returned by sendBatch reaches Run.
SendErr ==
    /\ pc = "sent"
    /\ netFaults < MaxNetFaults
    /\ netFaults' = netFaults + 1
    /\ pc' = "backoff"
    /\ rest' = << >>
    /\ IF cur.full
       THEN UNCHANGED <<buf, notify, needSnapshot>>
       ELSE /\ buf' = RequeueFront(cur.events)
            /\ notify' = TRUE
            /\ needSnapshot' = TRUE
    /\ UNCHANGED <<spill, torn, signalling, seqVars, backoff, cur,
                   diskFaults, restarts, produced>>

Sleep ==
    /\ pc = "backoff"
    /\ backoff' = NextBackoff
    /\ pc' = "loop"
    /\ UNCHANGED <<queueVars, seqVars, needSnapshot, cur, rest, faultVars,
                   produced>>

SnapshotPending == needSnapshot /\ ~cur.full

\* What follows a successful sendBatch in sendSnapshot and in Run.
AfterSend ==
    /\ cur' = NoBatch
    /\ IF cur.full /\ rest # << >>
       THEN pc' = "snapshot" /\ UNCHANGED <<needSnapshot, backoff>>
       ELSE /\ pc' = "loop"
            /\ backoff' = InitialBackoff
            /\ needSnapshot' = SnapshotPending
    /\ UNCHANGED rest

\* os.WriteFile truncates the file and then writes it.  MkdirAll or the open
\* may fail, which leaves the old number; so may the write, which leaves none.
PersistTruncate ==
    /\ pc = "persist"
    /\ \/ /\ seqFile' = Unreadable
          /\ pc' = "write"
          /\ UNCHANGED <<needSnapshot, backoff, cur, rest, diskFaults>>
       \/ /\ DiskFault
          /\ AfterSend
          /\ UNCHANGED seqFile
    /\ UNCHANGED <<queueVars, seq, netFaults, restarts, produced>>

PersistWrite ==
    /\ pc = "write"
    /\ \/ seqFile' = Persisted /\ UNCHANGED diskFaults
       \/ DiskFault /\ UNCHANGED seqFile
    /\ AfterSend
    /\ UNCHANGED <<queueVars, seq, netFaults, restarts, produced>>

\* Mutant: the flush timer only starts the wait again.
WakeByToken ==
    /\ pc = "idle"
    /\ pc' = IF notify THEN "loop" ELSE "idle"
    /\ notify' = FALSE
    /\ UNCHANGED <<buf, spill, torn, signalling, seqVars, needSnapshot,
                   backoff, cur, rest, faultVars, produced>>

\* The select of an empty take: the token of notify, or the flush timer.
Wake ==
    /\ pc = "idle"
    /\ pc' = "loop"
    /\ notify' \in {FALSE, notify}
    /\ UNCHANGED <<buf, spill, torn, signalling, seqVars, needSnapshot,
                   backoff, cur, rest, faultVars, produced>>

-----------------------------------------------------------------------------
\* The process dies, or is told to stop: Run returns without flushing.  The
\* next process starts from New with the files that were left.
Restart ==
    /\ restarts < MaxRestarts
    /\ restarts' = restarts + 1
    /\ buf' = << >> /\ notify' = FALSE /\ signalling' = 0
    /\ seq' = ReadSeq(seqFile)
    /\ needSnapshot' = TRUE /\ backoff' = InitialBackoff
    /\ pc' = "loop" /\ cur' = NoBatch /\ rest' = << >>
    /\ UNCHANGED <<spill, torn, seqFile, netFaults, diskFaults, produced>>
-----------------------------------------------------------------------------
\* The delta events the uploader has accepted and not handed over: buffered,
\* spilled, or in the batch that is being sent.
InFlight == IF pc = "sent" /\ ~cur.full THEN Range(cur.events) ELSE {}
Held == Range(buf) \cup Range(spill) \cup InFlight

\* Every call of Enqueue brings an event of its own.
Produce == \E ev \in Event \ Held : Enqueue(ev)
SendResult == SendOK \/ SendErr
RunStep ==
    \/ \E events \in Snapshots : BeginSnapshot(events)
    \/ ContinueSnapshot
    \/ Take
    \/ TakeSpilled
    \/ SendResult
    \/ Sleep
    \/ PersistTruncate
    \/ PersistWrite
    \/ Wake

Next == Produce \/ Signal \/ RunStep \/ Restart

Spec == Init /\ [][Next]_vars

\* Goroutines that can run are scheduled, and a send returns: the HTTP client
\* has a timeout and the flush timer fires.
FairSpec == Spec /\ WF_vars(RunStep) /\ WF_vars(Signal)

-----------------------------------------------------------------------------
(* Properties. *)

Batch == [seq : Nat, full : BOOLEAN, events : Seq(Event \cup SyncEvent)]

\* Types of the uploader's state; a batch in flight is never empty, holds
\* snapshot events only when its Full flag says so, and carries the successor
\* of the last acknowledged sequence number.
TypeOK ==
    /\ buf \in Seq(Event) /\ spill \in Seq(Event) /\ torn \in BOOLEAN
    /\ notify \in BOOLEAN /\ signalling \in Nat
    /\ seq \in Nat /\ seqFile \in Nat \cup {Unreadable}
    /\ needSnapshot \in BOOLEAN /\ backoff \in InitialBackoff..MaxBackoff
    /\ pc \in {"loop", "sent", "persist", "write", "backoff", "snapshot", "idle"}
    /\ cur \in Batch /\ rest \in Seq(SyncEvent)
    /\ pc = "sent" => /\ cur.seq = seq + 1
                      /\ cur.events # << >>
                      /\ cur.full \/ cur.events \in Seq(Event)
    /\ pc = "snapshot" => rest # << >>
    /\ produced \in Nat /\ netFaults \in Nat /\ diskFaults \in Nat
    /\ restarts \in Nat

\* Run never sleeps beside work without a wake-up on its way: when it waits in
\* the select of an empty take and an event is buffered (or spilled, if no file
\* operation ever failed), the notify channel holds a token or an Enqueue has
\* yet to signal.  The flush timer is then only a fallback.
NoLostWakeup ==
    /\ pc = "idle"
    /\ buf # << >> \/ (spill # << >> /\ diskFaults = 0)
    => notify \/ signalling > 0

\* The seq file is exact whenever persistSeq is not running and no file
\* operation failed, so that New reads back the last acknowledged number.
SeqDurable ==
    diskFaults = 0 /\ pc \notin {"persist", "write"} => ReadSeq(seqFile) = seq

\* A batch respects both limits of batchLen, the byte budget unless it is a
\* single event; one that exceeds the budget goes out alone.
BatchFits ==
    pc = "sent" =>
        /\ Len(cur.events) \in 1..BatchSize
        /\ \/ Len(cur.events) = 1
           \/ PrefixBytes(cur.events, Len(cur.events)) <= MaxBatchBytes

\* An event that Enqueue accepted leaves the uploader's custody only by the
\* acknowledgement of the batch that carries it.  The exceptions are a failing
\* file, and a restart, which loses what is in memory but no spilled event.
\* Nor does Enqueue drop an event on entry, unless the file fails or ends in a
\* torn line.
CustodyStep ==
    /\ \A ev \in Held \ Held' :
          \/ ev \in InFlight /\ seq' = cur.seq
          \/ diskFaults' > diskFaults
          \/ restarts' > restarts /\ ev \notin Range(spill)
    /\ signalling' > signalling =>
          \/ Held' # Held
          \/ diskFaults' > diskFaults
          \/ torn
Custody == [][CustodyStep]_vars

\* Every accepted event eventually leaves the uploader, once sends succeed.
EventuallyUploaded == \A ev \in Event : ev \in Held ~> ev \notin Held
=============================================================================
