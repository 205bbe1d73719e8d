-------------------------- MODULE EventRelayProofs --------------------------
(* Proofs about EventRelay: numbers are unique, buffered events are not lost   *)
(* and the counter of the WAL is not below its records, for any events, caps,  *)
(* timeouts and numbers of crashes.                                            *)
EXTENDS EventRelay, FiniteSetTheorems, TLAPS

-----------------------------------------------------------------------------
(* Numbers *)

\* The snapshot in memory is the one on disk, and no event has a larger number.
NumberInv ==
    /\ number \in [Events -> Nat]
    /\ disk \in Nat /\ memory = disk
    /\ \A e \in Events : number[e] <= disk
    /\ NumbersUnique

LEMMA NumberInit == Init => NumberInv
  BY DEF Init, NumberInv, NumbersUnique

LEMMA NumberStep == NumberInv /\ [Next]_vars => NumberInv'
<1> SUFFICES ASSUME NumberInv, [Next]_vars PROVE NumberInv'
  OBVIOUS
<1>1. ASSUME NEW e \in Events, Prepare(e) PROVE NumberInv'
  <2>1. number' = [number EXCEPT ![e] = memory + 1] /\ disk' = memory + 1 /\ memory' = memory + 1
    BY <1>1 DEF Prepare
  <2>2. \A f \in Events : number'[f] = IF f = e THEN disk + 1 ELSE number[f]
    BY <2>1 DEF NumberInv
  <2>3. NumbersUnique'
    BY <2>2 DEF NumberInv, NumbersUnique
  <2> QED
    BY <2>1, <2>2, <2>3 DEF NumberInv
<1>2. CASE UNCHANGED <<number, disk, memory>>
  BY <1>2 DEF NumberInv, NumbersUnique
<1>3. CASE Crash
  BY <1>3 DEF Crash, NumberInv, NumbersUnique
<1>4. ASSUME NEW e \in Events, Relay(e), ~ Prepare(e) PROVE UNCHANGED <<number, disk, memory>>
  BY <1>4 DEF Relay, Admit, Name, Write, WriteFails, Count, Flush, Keep, Remove, Uncount
<1>5. CASE Drain
  BY <1>5, <1>2 DEF Drain, DrainList, DrainRead, DrainPublish, DrainEnds, DrainFlush, DrainKeep,
                    DrainRemove, DrainUncount, task
<1>6. CASE Transmit \/ Connect \/ Disconnect \/ Tick \/ UNCHANGED vars
  BY <1>6, <1>2 DEF Transmit, Connect, Disconnect, Tick, vars, task
<1> QED
  BY <1>1, <1>2, <1>3, <1>4, <1>5, <1>6 DEF Next

\* No two lifecycle events of a container get the same number, however often
\* the sidecar crashes between two of them.
THEOREM UniqueNumbers == Spec => []NumbersUnique
<1>1. NumberInv => NumbersUnique
  BY DEF NumberInv
<1> QED
  BY NumberInit, NumberStep, <1>1, PTL DEF Spec

-----------------------------------------------------------------------------
(* Buffered events *)

Sent == buffer \cup stream

\* What a task or the drain is about to confirm is in the client or with the
\* server, and what they are about to remove is with the server.
DeliveryInv ==
    /\ pc \in [Events -> Where]
    /\ files \subseteq Events /\ buffered \subseteq Events
    /\ \A e \in Events : pc[e] = "flushing" => e \in Sent
    /\ \A e \in Events : pc[e] = "acking" => e \in stream
    /\ drain.at = "flushing" => drain.listed \subseteq Sent
    /\ drain.at = "acking" => drain.listed \subseteq stream
    /\ BufferedNotLost

LEMMA DeliveryInit == Init => DeliveryInv
  BY DEF Init, DeliveryInv, BufferedNotLost, Idle, Where, Sent

LEMMA DeliveryRelay == \A e \in Events : DeliveryInv /\ Relay(e) => DeliveryInv'
<1> SUFFICES ASSUME NEW e \in Events, DeliveryInv, Relay(e) PROVE DeliveryInv'
  OBVIOUS
<1> USE DEF DeliveryInv, BufferedNotLost, Goto, Sent, Where
<1>1. CASE Prepare(e) \/ Admit(e)
  BY <1>1 DEF Prepare, Admit, wal, nats
<1>2. CASE Name(e)
  BY <1>2 DEF Name, nats
<1>3. CASE Write(e)
  BY <1>3 DEF Write, nats
<1>4. CASE WriteFails(e)
  BY <1>4 DEF WriteFails, wal
<1>5. CASE Count(e)
  BY <1>5 DEF Count
<1>6. CASE Flush(e)
  BY <1>6 DEF Flush, wal
<1>7. CASE Keep(e)
  BY <1>7 DEF Keep, wal, nats
<1>8. CASE Remove(e)
  BY <1>8 DEF Remove, nats
<1>9. CASE Uncount(e)
  BY <1>9 DEF Uncount, nats
<1> QED
  BY <1>1, <1>2, <1>3, <1>4, <1>5, <1>6, <1>7, <1>8, <1>9 DEF Relay

LEMMA DeliveryDrain == DeliveryInv /\ Drain => DeliveryInv'
<1> SUFFICES ASSUME DeliveryInv, Drain PROVE DeliveryInv'
  OBVIOUS
<1> USE DEF DeliveryInv, BufferedNotLost, Sent, task, Idle
<1>1. CASE DrainList
  BY <1>1 DEF DrainList, wal, nats
<1>2. CASE DrainRead
  BY <1>2 DEF DrainRead, wal, nats
<1>3. CASE DrainPublish
  BY <1>3 DEF DrainPublish, wal
<1>4. CASE DrainEnds
  BY <1>4 DEF DrainEnds, wal, nats
<1>5. CASE DrainFlush
  BY <1>5 DEF DrainFlush, wal
<1>6. CASE DrainKeep
  BY <1>6 DEF DrainKeep, wal, nats
<1>7. CASE DrainRemove
  BY <1>7 DEF DrainRemove, nats
<1>8. CASE DrainUncount
  BY <1>8 DEF DrainUncount, nats
<1> QED
  BY <1>1, <1>2, <1>3, <1>4, <1>5, <1>6, <1>7, <1>8 DEF Drain

LEMMA DeliveryStep == DeliveryInv /\ [Next]_vars => DeliveryInv'
<1> SUFFICES ASSUME DeliveryInv, [Next]_vars PROVE DeliveryInv'
  OBVIOUS
<1>1. CASE Transmit
  BY <1>1 DEF Transmit, DeliveryInv, BufferedNotLost, Sent, task, wal
<1>2. CASE Connect \/ Disconnect
  BY <1>2 DEF Connect, Disconnect, DeliveryInv, BufferedNotLost, Sent, task, wal
<1>3. CASE Tick
  BY <1>3 DEF Tick, DeliveryInv, BufferedNotLost, Sent, nats
<1>4. CASE Crash
  BY <1>4 DEF Crash, DeliveryInv, BufferedNotLost, Sent, Idle, Where
<1>5. CASE UNCHANGED vars
  BY <1>5 DEF vars, task, wal, nats, DeliveryInv, BufferedNotLost, Sent
<1> QED
  BY <1>1, <1>2, <1>3, <1>4, <1>5, DeliveryRelay, DeliveryDrain DEF Next

\* An event with a complete record stays in the WAL until the server has it,
\* for any interleaving of relay tasks, the drain, timeouts and crashes.
THEOREM BufferedEventsArrive == Spec => []BufferedNotLost
<1>1. DeliveryInv => BufferedNotLost
  BY DEF DeliveryInv
<1> QED
  BY DeliveryInit, DeliveryStep, <1>1, PTL DEF Spec

-----------------------------------------------------------------------------
(* The counter of the WAL *)

\* Tasks whose record is gone and still counted, and whether the drain has one.
Removed == {e \in Events : pc[e] = "removed"}
DrainRemoved == IF drain.at = "removed" THEN 1 ELSE 0

\* Each decrement to come belongs to a record already removed: without them in
\* the sum, a removal and its decrement could be those of two records.
CountKept ==
    Cardinality(files) + Cardinality(Removed) + DrainRemoved <= pending + Cardinality(Uncounted)

DrainType ==
    /\ drain \in [at : {"idle", "reading", "next", "flushing", "acking", "removed"},
                  listed : SUBSET Events, todo : SUBSET Events, waited : Nat]
    /\ drain.at \in {"flushing", "acking"} => \E e \in Events : drain.listed = {e}

CountInv ==
    /\ pc \in [Events -> Where]
    /\ files \subseteq Events
    /\ pending \in Nat
    /\ DrainType
    /\ CountKept

\* What adding and removing one event does to a set of events.
LEMMA EventSets ==
  ASSUME NEW S \in SUBSET Events, NEW e \in Events
  PROVE  /\ Cardinality(S) \in Nat
         /\ Cardinality(S \cup {e}) = Cardinality(S) + (IF e \in S THEN 0 ELSE 1)
         /\ Cardinality(S \ {e}) = Cardinality(S) - (IF e \in S THEN 1 ELSE 0)
<1>1. IsFiniteSet(S)
  BY FS_Subset, RelayAssumption
<1>2. Cardinality(S) \in Nat
  BY <1>1, FS_CardinalityType
<1>3. Cardinality(S \cup {e}) = Cardinality(S) + (IF e \in S THEN 0 ELSE 1)
  <2>1. CASE e \in S
    <3>1. S \cup {e} = S
      BY <2>1
    <3> QED
      BY <1>2, <2>1, <3>1
  <2>2. CASE e \notin S
    BY <1>1, <2>2, FS_AddElement
  <2> QED
    BY <2>1, <2>2
<1>4. Cardinality(S \ {e}) = Cardinality(S) - (IF e \in S THEN 1 ELSE 0)
  <2>1. CASE e \in S
    BY <1>1, <2>1, FS_RemoveElement
  <2>2. CASE e \notin S
    <3>1. S \ {e} = S
      BY <2>2
    <3> QED
      BY <1>2, <2>2, <3>1
  <2> QED
    BY <2>1, <2>2
<1> QED
  BY <1>2, <1>3, <1>4

\* The same without an event at hand.
LEMMA EventSetsSize == \A S \in SUBSET Events : Cardinality(S) \in Nat
  BY FS_Subset, FS_CardinalityType, RelayAssumption

\* A step that leaves the record set, the counter and who owes it a change alone.
LEMMA CountUnmoved ==
  ASSUME CountInv, UNCHANGED <<files, pending>>, Uncounted' = Uncounted, Removed' = Removed,
         DrainRemoved' = DrainRemoved
  PROVE  CountKept'
  BY DEF CountInv, CountKept

LEMMA CountInit == Init => CountInv
<1> SUFFICES ASSUME Init PROVE CountInv
  OBVIOUS
<1>1. files = {} /\ Removed = {} /\ Uncounted = {} /\ DrainRemoved = 0 /\ pending = 0
  BY DEF Init, Removed, Uncounted, DrainRemoved, Idle
<1>2. CountKept
  BY <1>1, FS_EmptySet DEF CountKept
<1>3. DrainType
  BY DEF Init, DrainType, Idle
<1> QED
  BY <1>1, <1>2, <1>3 DEF Init, CountInv, Where

LEMMA CountRelay == \A e \in Events : CountInv /\ Relay(e) => CountInv'
<1> SUFFICES ASSUME NEW e \in Events, CountInv, Relay(e) PROVE CountInv'
  OBVIOUS
<1>0. Uncounted \subseteq Events /\ Removed \subseteq Events /\ DrainRemoved \in {0, 1}
  BY DEF Uncounted, Removed, DrainRemoved
<1>t. pc' \in [Events -> Where] /\ files' \subseteq Events /\ pending' \in Nat /\ drain' = drain
  BY DEF CountInv, Relay, Prepare, Admit, Name, Write, WriteFails, Count, Flush, Keep, Remove,
         Uncount, Goto, Where, Decremented, wal, nats
<1>d. DrainType' /\ DrainRemoved' = DrainRemoved
  BY <1>t DEF CountInv, DrainType, DrainRemoved
<1>1. CASE Prepare(e) \/ Admit(e) \/ Name(e) \/ WriteFails(e) \/ Flush(e) \/ Keep(e)
  <2>1. Uncounted' = Uncounted /\ Removed' = Removed
    BY <1>1 DEF CountInv, Prepare, Admit, Name, WriteFails, Flush, Keep, Goto, Uncounted, Removed,
                Where
  <2>2. UNCHANGED <<files, pending>>
    BY <1>1 DEF Prepare, Admit, Name, WriteFails, Flush, Keep, wal
  <2> QED
    BY <1>t, <1>d, <2>1, <2>2, CountUnmoved DEF CountInv
<1>2. CASE Write(e)
  <2>1. e \notin Uncounted /\ Uncounted' = Uncounted \cup {e} /\ Removed' = Removed
    BY <1>2 DEF CountInv, Write, Goto, Uncounted, Removed
  <2>2. files' = files \cup {e} /\ pending' = pending
    BY <1>2 DEF Write
  <2>3. Cardinality(files') <= Cardinality(files) + 1
    BY <1>t, <2>2, EventSets, EventSetsSize DEF CountInv
  <2>4. Cardinality(Uncounted') = Cardinality(Uncounted) + 1
    BY <1>0, <2>1, EventSets, EventSetsSize
  <2>5. CountKept'
    BY <1>0, <1>t, <1>d, <2>1, <2>2, <2>3, <2>4, EventSetsSize DEF CountInv, CountKept
  <2> QED
    BY <1>t, <1>d, <2>5 DEF CountInv
<1>3. CASE Count(e)
  <2>1. e \in Uncounted /\ Uncounted' = Uncounted \ {e} /\ Removed' = Removed
    BY <1>3 DEF CountInv, Count, Goto, Uncounted, Removed
  <2>2. files' = files /\ pending' = pending + 1
    BY <1>3 DEF Count
  <2> QED
    BY <1>0, <1>t, <1>d, <2>1, <2>2, EventSets, EventSetsSize DEF CountInv, CountKept
<1>4. CASE Remove(e)
  <2>1. e \notin Removed /\ Uncounted' = Uncounted
        /\ Removed' = IF e \in files THEN Removed \cup {e} ELSE Removed
    BY <1>4 DEF CountInv, Remove, Goto, Uncounted, Removed
  <2>2. files' = files \ {e} /\ pending' = pending
    BY <1>4 DEF Remove
  <2>f. /\ Cardinality(files) \in Nat
        /\ Cardinality(files \ {e}) = Cardinality(files) - (IF e \in files THEN 1 ELSE 0)
    BY EventSets DEF CountInv
  <2>r. /\ Cardinality(Removed) \in Nat
        /\ Cardinality(Removed \cup {e}) = Cardinality(Removed) + 1
    BY <1>0, <2>1, EventSets
  <2>3. Cardinality(files') + Cardinality(Removed') <= Cardinality(files) + Cardinality(Removed)
    BY <2>1, <2>2, <2>f, <2>r
  <2>4. CountKept'
    BY <1>0, <1>t, <1>d, <2>1, <2>2, <2>3, EventSetsSize DEF CountInv, CountKept
  <2> QED
    BY <1>t, <1>d, <2>4 DEF CountInv
<1>5. CASE Uncount(e)
  <2>1. e \in Removed /\ Uncounted' = Uncounted /\ Removed' = Removed \ {e}
    BY <1>5 DEF CountInv, Uncount, Goto, Uncounted, Removed
  <2>2. files' = files /\ pending' = IF pending = 0 THEN 0 ELSE pending - 1
    BY <1>5 DEF Uncount, Decremented
  <2> QED
    BY <1>0, <1>t, <1>d, <2>1, <2>2, EventSets, EventSetsSize DEF CountInv, CountKept
<1> QED
  BY <1>1, <1>2, <1>3, <1>4, <1>5 DEF Relay

LEMMA CountDrain == CountInv /\ Drain => CountInv'
<1> SUFFICES ASSUME CountInv, Drain PROVE CountInv'
  OBVIOUS
<1>0. Uncounted \subseteq Events /\ Removed \subseteq Events
  BY DEF Uncounted, Removed
<1>t. pc' = pc /\ Uncounted' = Uncounted /\ Removed' = Removed
  <2>1. pc' = pc
    BY DEF Drain, DrainList, DrainRead, DrainPublish, DrainEnds, DrainFlush, DrainKeep,
           DrainRemove, DrainUncount, task
  <2> QED
    BY <2>1 DEF Uncounted, Removed
<1>1. ASSUME UNCHANGED wal, DrainType', drain.at # "removed", drain'.at # "removed"
      PROVE  CountInv'
  BY <1>t, <1>1, CountUnmoved DEF CountInv, DrainRemoved, wal
<1>a. CASE DrainList
  BY <1>a, <1>1 DEF DrainList, CountInv, DrainType, Idle
<1>b. CASE DrainRead
  BY <1>b, <1>1 DEF DrainRead, CountInv, DrainType, Idle
<1>c. CASE DrainPublish
  <2>1. PICK e \in drain.todo :
            drain' = [drain EXCEPT !.at = "flushing", !.listed = {e}, !.todo = @ \ {e}, !.waited = 0]
    BY <1>c DEF DrainPublish
  <2>2. DrainType'
    BY <2>1 DEF CountInv, DrainType
  <2>3. CountKept'
    BY <1>c, <1>t, <2>1, CountUnmoved DEF DrainPublish, CountInv, DrainType, DrainRemoved, wal
  <2> QED
    BY <1>c, <1>t, <2>2, <2>3 DEF DrainPublish, CountInv, wal
<1>d. CASE DrainEnds
  BY <1>d, <1>1 DEF DrainEnds, CountInv, DrainType, Idle
<1>e. CASE DrainFlush
  BY <1>e, <1>1 DEF DrainFlush, CountInv, DrainType
<1>f. CASE DrainKeep
  BY <1>f, <1>1 DEF DrainKeep, CountInv, DrainType
<1>2. CASE DrainRemove
  <2>1. PICK e \in Events : drain.listed = {e}
    BY <1>2 DEF CountInv, DrainType, DrainRemove
  <2>2. files' = files \ {e} /\ pending' = pending /\ DrainRemoved = 0
        /\ DrainRemoved' = IF e \in files THEN 1 ELSE 0
    BY <1>2, <2>1 DEF CountInv, DrainType, DrainRemove, DrainRemoved
  <2>3. DrainType'
    BY <1>2 DEF CountInv, DrainType, DrainRemove
  <2>f. /\ Cardinality(files) \in Nat
        /\ Cardinality(files \ {e}) = Cardinality(files) - (IF e \in files THEN 1 ELSE 0)
    BY EventSets DEF CountInv
  <2>4. Cardinality(files') + DrainRemoved' = Cardinality(files)
    BY <2>2, <2>f
  <2>5. CountKept'
    BY <1>t, <2>2, <2>4, <1>0, EventSetsSize DEF CountInv, CountKept
  <2> QED
    BY <1>t, <2>2, <2>3, <2>5 DEF CountInv
<1>3. CASE DrainUncount
  <2>1. files' = files /\ pending' = (IF pending = 0 THEN 0 ELSE pending - 1)
        /\ DrainRemoved = 1 /\ DrainRemoved' = 0
    BY <1>3 DEF CountInv, DrainType, DrainUncount, DrainRemoved, Decremented
  <2>2. DrainType'
    BY <1>3 DEF CountInv, DrainType, DrainUncount
  <2> QED
    BY <1>0, <1>t, <2>1, <2>2, EventSetsSize DEF CountInv, CountKept
<1> QED
  BY <1>a, <1>b, <1>c, <1>d, <1>e, <1>f, <1>2, <1>3 DEF Drain

LEMMA CountStep == CountInv /\ [Next]_vars => CountInv'
<1> SUFFICES ASSUME CountInv, [Next]_vars PROVE CountInv'
  OBVIOUS
<1>1. CASE Transmit \/ Connect \/ Disconnect \/ UNCHANGED vars
  BY <1>1 DEF Transmit, Connect, Disconnect, vars, task, wal, nats, CountInv, DrainType, CountKept,
              Uncounted, Removed, DrainRemoved
<1>2. CASE Tick
  <2>1. DrainType' /\ drain'.at = drain.at
    BY <1>2 DEF Tick, CountInv, DrainType
  <2>2. UNCHANGED <<pc, files, pending>>
    BY <1>2 DEF Tick
  <2> QED
    BY <2>1, <2>2 DEF CountInv, CountKept, Uncounted, Removed, DrainRemoved
\* init_pending counts the records; whoever owed the counter a change is gone.
<1>3. CASE Crash
  <2>1. Uncounted' = {} /\ Removed' = {} /\ DrainRemoved' = 0 /\ DrainType'
    BY <1>3 DEF Crash, Uncounted, Removed, DrainRemoved, DrainType, Idle, CountInv
  <2>2. files' = files /\ pending' = Cardinality(files) /\ pc' \in [Events -> Where]
    BY <1>3 DEF Crash, CountInv, Where
  <2> QED
    BY <2>1, <2>2, EventSetsSize, FS_EmptySet DEF CountInv, CountKept
<1> QED
  BY <1>1, <1>2, <1>3, CountRelay, CountDrain DEF Next

\* The drain and the cap of the WAL never miss a record: the counter is at least
\* the records, but for those whose tasks are about to count them, whatever tasks
\* and the drain remove at the same time and whenever the sidecar restarts.
THEOREM CounterCoversRecords == Spec => []NeverUndercounts
<1>1. CountInv => NeverUndercounts
  <2> SUFFICES ASSUME CountInv PROVE NeverUndercounts
    OBVIOUS
  <2>1. Uncounted \subseteq Events /\ Removed \subseteq Events /\ DrainRemoved \in {0, 1}
    BY DEF Uncounted, Removed, DrainRemoved
  <2> QED
    BY <2>1, EventSetsSize DEF CountInv, CountKept, NeverUndercounts
<1> QED
  BY CountInit, CountStep, <1>1, PTL DEF Spec
=============================================================================
