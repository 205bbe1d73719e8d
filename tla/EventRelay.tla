----------------------------- MODULE EventRelay -----------------------------
(* The sidecar's relay of CLI hook events: the hook state that numbers them    *)
(* (publisher.rs), the write-ahead log that buffers them (wal.rs), and the two *)
(* paths that publish them, the connection task of each event                  *)
(* (durably_publish) and the drain (drain_wal, main.rs).                       *)
(*                                                                             *)
(* async-nats is modelled by what the relay relies on: publish puts a message  *)
(* into the client's buffer, the client moves it to the server while           *)
(* connected, a confirmed flush means all of the buffer has arrived, and the   *)
(* buffer dies with the process.                                               *)
EXTENDS Integers, FiniteSets

CONSTANTS
    Events,       \* hook events, each on a relay connection of its own
    MaxConns,     \* MAX_CONCURRENT_RELAY_CONNECTIONS
    MaxPending,   \* Wal::max_pending
    Timeout,      \* FLUSH_CONFIRM_TIMEOUT in ticks
    MaxCrashes    \* bound: crashes of the sidecar

ASSUME RelayAssumption ==
    /\ MaxPending \in Nat \ {0} /\ Timeout \in Nat \ {0} /\ MaxCrashes \in Nat
    /\ MaxConns \in Nat \ {0} /\ IsFiniteSet(Events)

VARIABLES
    pc,         \* where the task of an event's connection is
    number,     \* lifecycleSequence given to an event, 0 before
    disk,       \* last_lifecycle_sequence in the hook state file
    memory,     \* and in HookStateStore.snapshot
    files,      \* events with a record in the WAL directory
    age,        \* ticks since the time in the record's name, up to Timeout
    waited,     \* ticks the task's flush has taken
    pending,    \* Wal::pending
    buffer,     \* messages in the NATS client
    stream,     \* events the server has
    connected,
    drain,      \* the drain task: where it is, what it still has to publish
    crashes,
    buffered    \* history: events whose record was ever complete

task == <<pc, number, disk, memory, waited>>
wal == <<files, age, pending, buffered>>
nats == <<buffer, stream, connected>>
vars == <<task, wal, nats, drain, crashes>>

Where == {"new", "prepared", "admitted", "named", "uncounted", "flushing", "acking", "removed", "done"}
Idle == [at |-> "idle", listed |-> {}, todo |-> {}, waited |-> 0]

TypeOK ==
    /\ pc \in [Events -> Where]
    /\ number \in [Events -> 0..Cardinality(Events)]
    /\ disk \in 0..Cardinality(Events) /\ memory = disk
    /\ files \subseteq buffered /\ buffered \subseteq Events
    /\ age \in [Events -> 0..Timeout] /\ waited \in [Events -> 0..Timeout]
    /\ pending \in Nat
    /\ buffer \subseteq Events /\ stream \subseteq Events
    /\ connected \in BOOLEAN
    /\ drain.at \in {"idle", "reading", "next", "flushing", "acking", "removed"}
    /\ drain.todo \subseteq Events
    /\ drain.at \in {"flushing", "acking", "removed"} => Cardinality(drain.listed) = 1

Init ==
    /\ pc = [e \in Events |-> "new"]
    /\ number = [e \in Events |-> 0]
    /\ disk = 0 /\ memory = 0
    /\ files = {} /\ buffered = {}
    /\ age = [e \in Events |-> 0] /\ waited = [e \in Events |-> 0]
    /\ pending = 0
    /\ buffer = {} /\ stream = {} /\ connected \in BOOLEAN
    /\ drain = Idle
    /\ crashes = 0

Goto(e, at) == pc' = [pc EXCEPT ![e] = at]
Decremented == IF pending = 0 THEN 0 ELSE pending - 1

-----------------------------------------------------------------------------
(* durably_publish *)

\* The accept loop spawns a task when it gets a permit.
Permit == Cardinality({e \in Events : pc[e] \notin {"new", "done"}}) < MaxConns

\* Mutant: the file is written after the snapshot, by the next event.
PrepareInMemory(e) ==
    /\ pc[e] = "new" /\ Permit
    /\ number' = [number EXCEPT ![e] = memory + 1]
    /\ memory' = memory + 1
    /\ disk' = memory
    /\ Goto(e, "prepared")
    /\ UNCHANGED <<waited, wal, nats, drain, crashes>>

\* prepare_hook_event: under the state's lock, persisted before it is used.
Prepare(e) ==
    /\ pc[e] = "new" /\ Permit
    /\ number' = [number EXCEPT ![e] = memory + 1]
    /\ disk' = memory + 1
    /\ memory' = memory + 1
    /\ Goto(e, "prepared")
    /\ UNCHANGED <<waited, wal, nats, drain, crashes>>

Admitted == pending < MaxPending

\* Wal::append checks the cap, and a full WAL drops the event ...
Admit(e) ==
    /\ pc[e] = "prepared"
    /\ Goto(e, IF Admitted THEN "admitted" ELSE "done")
    /\ UNCHANGED <<number, disk, memory, waited, wal, nats, drain, crashes>>

\* ... takes the time for the record's name ...
Name(e) ==
    /\ pc[e] = "admitted"
    /\ Goto(e, "named")
    /\ age' = [age EXCEPT ![e] = 0]
    /\ UNCHANGED <<number, disk, memory, waited, files, pending, buffered, nats, drain, crashes>>

\* ... writes, syncs and renames it ...
Write(e) ==
    /\ pc[e] = "named"
    /\ Goto(e, "uncounted")
    /\ files' = files \cup {e}
    /\ buffered' = buffered \cup {e}
    /\ UNCHANGED <<number, disk, memory, waited, age, pending, nats, drain, crashes>>

\* ... or fails, also because a record of the same nanosecond is there: the
\* event is published without a record.
WriteFails(e) ==
    /\ pc[e] \in {"admitted", "named"}
    /\ Goto(e, "done")
    /\ buffer' = buffer \cup {e}
    /\ UNCHANGED <<number, disk, memory, waited, wal, stream, connected, drain, crashes>>

\* ... and counts it; then the event is published.
Count(e) ==
    /\ pc[e] = "uncounted"
    /\ pending' = pending + 1
    /\ Goto(e, "flushing")
    /\ waited' = [waited EXCEPT ![e] = 0]
    /\ buffer' = buffer \cup {e}
    /\ UNCHANGED <<number, disk, memory, files, age, buffered, stream, connected, drain, crashes>>

\* Mutant (F062): acknowledge on publish alone.
FlushPublished(e) ==
    /\ pc[e] = "flushing"
    /\ Goto(e, "acking")
    /\ UNCHANGED <<number, disk, memory, waited, wal, nats, drain, crashes>>

\* attempt_durable_publish: the flush was confirmed ...
Flush(e) ==
    /\ pc[e] = "flushing"
    /\ connected
    /\ stream' = stream \cup buffer
    /\ buffer' = {}
    /\ Goto(e, "acking")
    /\ UNCHANGED <<number, disk, memory, waited, wal, connected, drain, crashes>>

\* ... or publish or flush failed or took too long: the record is kept.
Keep(e) ==
    /\ pc[e] = "flushing"
    /\ ~ connected \/ waited[e] = Timeout
    /\ Goto(e, "done")
    /\ UNCHANGED <<number, disk, memory, waited, wal, nats, drain, crashes>>

\* Wal::acknowledge: the file first; if that fails, nothing is counted.
Remove(e) ==
    /\ pc[e] = "acking"
    /\ files' = files \ {e}
    /\ Goto(e, IF e \in files THEN "removed" ELSE "done")
    /\ UNCHANGED <<number, disk, memory, waited, age, pending, buffered, nats, drain, crashes>>

Uncount(e) ==
    /\ pc[e] = "removed"
    /\ pending' = Decremented
    /\ Goto(e, "done")
    /\ UNCHANGED <<number, disk, memory, waited, files, age, buffered, nats, drain, crashes>>

-----------------------------------------------------------------------------
(* drain_wal, at startup and on its ticker *)

\* should_drain; the cutoff is taken and the directory listed.
DrainList ==
    /\ drain.at = "idle"
    /\ connected /\ pending > 0
    /\ drain' = [Idle EXCEPT !.at = "reading", !.listed = files,
                             !.todo = {e \in files : age[e] >= Timeout}]
    /\ UNCHANGED <<task, wal, nats, crashes>>

\* Reading a listed record that is gone fails the whole drain.
DrainRead ==
    /\ drain.at = "reading"
    /\ drain' = IF drain.listed \subseteq files
                THEN [drain EXCEPT !.at = "next", !.listed = {}] ELSE Idle
    /\ UNCHANGED <<task, wal, nats, crashes>>

\* The record with the oldest name is published from its copy in memory.
DrainPublish ==
    /\ drain.at = "next"
    /\ \E e \in drain.todo :
          /\ drain' = [drain EXCEPT !.at = "flushing", !.listed = {e}, !.todo = @ \ {e}, !.waited = 0]
          /\ buffer' = buffer \cup {e}
    /\ UNCHANGED <<task, wal, stream, connected, crashes>>

DrainEnds ==
    /\ drain.at = "next" /\ drain.todo = {}
    /\ drain' = Idle
    /\ UNCHANGED <<task, wal, nats, crashes>>

DrainFlush ==
    /\ drain.at = "flushing"
    /\ connected
    /\ stream' = stream \cup buffer
    /\ buffer' = {}
    /\ drain' = [drain EXCEPT !.at = "acking"]
    /\ UNCHANGED <<task, wal, connected, crashes>>

DrainKeep ==
    /\ drain.at = "flushing"
    /\ ~ connected \/ drain.waited = Timeout
    /\ drain' = [drain EXCEPT !.at = "next", !.listed = {}]
    /\ UNCHANGED <<task, wal, nats, crashes>>

\* Mutant: the counter goes down although the record was gone already.
DrainRemoveCounts ==
    /\ drain.at = "acking"
    /\ files' = files \ drain.listed
    /\ drain' = [drain EXCEPT !.at = "removed"]
    /\ UNCHANGED <<task, age, pending, buffered, nats, crashes>>

DrainRemove ==
    /\ drain.at = "acking"
    /\ files' = files \ drain.listed
    /\ drain' = [drain EXCEPT !.at = IF drain.listed \subseteq files THEN "removed" ELSE "next"]
    /\ UNCHANGED <<task, age, pending, buffered, nats, crashes>>

DrainUncount ==
    /\ drain.at = "removed"
    /\ pending' = Decremented
    /\ drain' = [drain EXCEPT !.at = "next", !.listed = {}]
    /\ UNCHANGED <<task, files, age, buffered, nats, crashes>>

-----------------------------------------------------------------------------
(* The server, time and crashes *)

Transmit ==
    /\ connected /\ buffer # {}
    /\ \E e \in buffer : stream' = stream \cup {e} /\ buffer' = buffer \ {e}
    /\ UNCHANGED <<task, wal, connected, drain, crashes>>

Connect ==
    /\ ~ connected /\ connected' = TRUE
    /\ UNCHANGED <<task, wal, buffer, stream, drain, crashes>>

Disconnect ==
    /\ connected /\ connected' = FALSE
    /\ UNCHANGED <<task, wal, buffer, stream, drain, crashes>>

\* A flush in progress does not outlast its timeout.
Tick ==
    /\ \A e \in Events : pc[e] = "flushing" => waited[e] < Timeout
    /\ drain.at = "flushing" => drain.waited < Timeout
    /\ age' = [e \in Events |-> IF age[e] < Timeout THEN age[e] + 1 ELSE Timeout]
    /\ waited' = [e \in Events |-> IF pc[e] = "flushing" THEN waited[e] + 1 ELSE waited[e]]
    /\ drain' = IF drain.at = "flushing" THEN [drain EXCEPT !.waited = @ + 1] ELSE drain
    /\ UNCHANGED <<pc, number, disk, memory, files, pending, buffered, nats, crashes>>

\* The sidecar dies and starts again: hook state from disk, init_pending.
Crash ==
    /\ crashes < MaxCrashes
    /\ crashes' = crashes + 1
    /\ pc' = [e \in Events |-> IF pc[e] = "new" THEN "new" ELSE "done"]
    /\ memory' = disk
    /\ pending' = Cardinality(files)
    /\ buffer' = {}
    /\ connected' \in BOOLEAN
    /\ drain' = Idle
    /\ UNCHANGED <<number, disk, waited, files, age, buffered, stream>>

Relay(e) ==
    \/ Prepare(e) \/ Admit(e) \/ Name(e) \/ Write(e) \/ WriteFails(e) \/ Count(e)
    \/ Flush(e) \/ Keep(e) \/ Remove(e) \/ Uncount(e)

Drain ==
    \/ DrainList \/ DrainRead \/ DrainPublish \/ DrainEnds
    \/ DrainFlush \/ DrainKeep \/ DrainRemove \/ DrainUncount

Next ==
    \/ \E e \in Events : Relay(e)
    \/ Drain \/ Transmit \/ Connect \/ Disconnect \/ Tick \/ Crash

Spec == Init /\ [][Next]_vars

\* Tasks, the drain and time go on, and while connected a flush of the drain is
\* confirmed within its timeout now and then.
LiveSpec ==
    /\ Spec
    /\ WF_vars(Tick)
    /\ \A e \in Events : WF_vars(Relay(e))
    /\ WF_vars(Drain) /\ SF_vars(DrainFlush)

-----------------------------------------------------------------------------
\* An event whose record was complete is in the WAL or with the server, across
\* crashes and lost connections: a record goes only after a confirmed flush.
BufferedNotLost == buffered \subseteq files \cup stream

\* No two events of a generation get the same lifecycle number, across crashes:
\* the platform would drop the second as a repetition.
NumbersUnique ==
    \A e, f \in Events : e # f /\ number[e] > 0 => number[e] # number[f]

Uncounted == {e \in Events : pc[e] = "uncounted"}

\* But for tasks about to count theirs, the counter never falls below the
\* records on disk: the drain would not look at them again, and the cap would
\* not hold them back.
NeverUndercounts == Cardinality(files) <= pending + Cardinality(Uncounted)

\* Once the connection stays up, every record in the WAL is delivered and removed.
Drained == <>[]connected => \A e \in Events : []<>(e \notin files)

\* "so they never re-publish a record the live relay path is still actively
\* publishing": the drain does not publish what a connection's flush may confirm.
NoConcurrentRepublish ==
    drain.at = "flushing" => \A e \in drain.listed : pc[e] # "flushing"
=============================================================================
