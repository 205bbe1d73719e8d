----------------------------- MODULE AgentLease -----------------------------
(* Who works on one container Agent, as its row in agents records it: hook     *)
(* events of the container's CLI (jobs/src/event_consumer.rs), heartbeats that *)
(* renew or mirror (participant_liveness.rs), a person's terminal input        *)
(* (gateway_terminal.rs), a prompt through MCP with its completion monitor     *)
(* (mcp_agent.rs, mcp_docker_runtime.rs) and claims of orchestrated tasks.     *)
(*                                                                             *)
(* interactive_lease_expires_at is kept as the time left: None for NULL, live  *)
(* while positive. NOW() is the time a transaction began, so a transaction     *)
(* that waited for the lifecycle lock compares with, and adds to, a time that  *)
(* is `late` ticks old; clock_timestamp() is the present.                      *)
EXTENDS Integers, FiniteSets

CONSTANTS
    Sessions,    \* CLI hook sessions
    Conns,       \* database transactions that can be open at once
    MaxGen,      \* bound: container generations
    MaxSeq,      \* bound: lifecycle events of one generation
    MaxInputs,   \* bound: terminal inputs and MCP prompts
    MaxLate,     \* bound: ticks between BEGIN and the lifecycle lock
    None

LeaseAssumption ==
    /\ MaxGen \in Nat /\ MaxSeq \in Nat /\ MaxInputs \in Nat /\ MaxLate \in Nat
    /\ None \notin Sessions /\ None \notin Int

HookLease == 2    \* INTERVAL '2 minutes'
InputLease == 1   \* INTERVAL '60 seconds'

VARIABLES
    gen, made,                 \* current container generation (0: none), generations so far
    status, owner, lease,      \* agents.status, interactive_owner_session_id, lease
    lifeGen, lastSeq,          \* lifecycle_generation_fingerprint, last_lifecycle_sequence
    orch,                      \* the participant is busy or a task is working
    cli,                       \* the session the CLI process really runs
    active, seq,               \* the sidecar's persisted hook state
    sent,                      \* lifecycle events that reached the stream
    rows,                      \* rows of events, with ingest_applied
    shown,                     \* sequence of the newest lifecycle broadcast per generation
    tx,                        \* open transactions
    monitor,                   \* MCP completion monitor: "off", "owner" (CAS would match), "lost"
    inputs

agent == <<gen, made, status, owner, lease, lifeGen, lastSeq>>
sidecar == <<cli, active, seq>>
vars == <<agent, orch, sidecar, sent, rows, shown, tx, monitor, inputs>>

Gens == 1..MaxGen
Events == [gen : Gens, seq : 1..MaxSeq, session : Sessions, kind : {"working", "idle"}]
Closed == [kind |-> "none"]

TypeOK ==
    /\ gen \in 0..MaxGen /\ made \in 0..MaxGen /\ gen <= made
    /\ status \in {"idle", "working", "offline"}
    /\ owner \in Sessions \cup {None}
    /\ lease \in {None} \cup (-MaxLate..HookLease)
    /\ lifeGen \in 0..made /\ lastSeq \in 0..MaxSeq
    /\ orch \in BOOLEAN
    /\ cli \in Sessions \cup {None}
    /\ active \in Sessions \cup {None} /\ seq \in 0..MaxSeq
    /\ sent \subseteq Events
    /\ rows \subseteq [gen : Gens, seq : 1..MaxSeq, applied : BOOLEAN]
    /\ shown \in [Gens -> 0..MaxSeq]
    /\ monitor \in {"off", "owner", "lost"}
    /\ inputs \in 0..MaxInputs
    /\ gen = 0 => lease = None /\ owner = None

Init ==
    /\ gen = 0 /\ made = 0
    /\ status = "idle" /\ owner = None /\ lease = None
    /\ lifeGen = 0 /\ lastSeq = 0
    /\ orch = FALSE
    /\ cli = None /\ active = None /\ seq = 0
    /\ sent = {} /\ rows = {}
    /\ shown = [g \in Gens |-> 0]
    /\ tx = [c \in Conns |-> Closed]
    /\ monitor = "off" /\ inputs = 0

\* lease > clock
Live == lease # None /\ lease > 0
\* interactive_lease_expires_at > NOW() in a transaction that began late ago
LiveAt(late) == lease # None /\ lease + late > 0

\* Writing the column makes every monitor's expected timestamp stale.
Overwritten == IF monitor = "owner" THEN "lost" ELSE monitor

\* agent_work_admission_is_idle_in_tx
AdmissionIdle(late) == ~ LiveAt(late) /\ ~ orch

-----------------------------------------------------------------------------
(* Container and time *)

\* set_container: a fresh container with a secret, and so a generation, of its own.
SetContainer ==
    /\ gen = 0 /\ made < MaxGen
    /\ made' = made + 1 /\ gen' = made + 1
    /\ status' = "idle" /\ owner' = None /\ lease' = None
    /\ monitor' = Overwritten
    /\ cli' = None /\ active' = None /\ seq' = 0
    /\ UNCHANGED <<lifeGen, lastSeq, orch, sent, rows, shown, tx, inputs>>

\* clear_container or quarantine_container, with the task's invalidation.
ClearContainer ==
    /\ gen # 0
    /\ gen' = 0
    /\ status' = "offline" /\ owner' = None /\ lease' = None
    /\ monitor' = Overwritten
    /\ orch' = FALSE
    /\ cli' = None /\ active' = None /\ seq' = 0
    /\ UNCHANGED <<made, lifeGen, lastSeq, sent, rows, shown, tx, inputs>>

Open(c) == tx[c].kind \notin {"none", "broadcast"}

Tick ==
    /\ \A c \in Conns : Open(c) => tx[c].late < MaxLate
    /\ tx' = [c \in Conns |-> IF Open(c) THEN [tx[c] EXCEPT !.late = @ + 1] ELSE tx[c]]
    /\ lease' = IF lease = None \/ lease = -MaxLate THEN lease ELSE lease - 1
    /\ UNCHANGED <<gen, made, status, owner, lifeGen, lastSeq, orch, sidecar, sent, rows, shown,
                   monitor, inputs>>

-----------------------------------------------------------------------------
(* The container: CLI hooks and the sidecar's hook state *)

\* A hook of kind k for session s, sequenced and persisted before the WAL; a
\* full WAL then drops it.
Emit(s, k) ==
    /\ seq < MaxSeq
    /\ seq' = seq + 1
    /\ \E dropped \in BOOLEAN :
          sent' = IF dropped THEN sent
                  ELSE sent \cup {[gen |-> gen, seq |-> seq + 1, session |-> s, kind |-> k]}

\* user_prompt_submit or pre_tool_use; rejected while another session is active.
HookWorks(s) ==
    /\ gen # 0
    /\ cli \in {None, s}
    /\ cli' = s
    /\ IF active \in {None, s}
       THEN Emit(s, "working") /\ active' = s
       ELSE UNCHANGED <<sent, active, seq>>
    /\ UNCHANGED <<agent, orch, rows, shown, tx, monitor, inputs>>

\* stop or session_end
HookStops(s) ==
    /\ gen # 0
    /\ cli = s
    /\ cli' = None
    /\ Emit(s, "idle")
    /\ active' = IF active = s THEN None ELSE active
    /\ UNCHANGED <<agent, orch, rows, shown, tx, monitor, inputs>>

\* The CLI is killed and fires no stop hook.
CliDies ==
    /\ cli # None
    /\ cli' = None
    /\ UNCHANGED <<agent, orch, active, seq, sent, rows, shown, tx, monitor, inputs>>

-----------------------------------------------------------------------------
(* Transactions: each begins, waits for the lifecycle lock, and then runs as   *)
(* one step under it                                                           *)

Begin(c, record) ==
    /\ tx[c] = Closed
    /\ tx' = [tx EXCEPT ![c] = record]

End(c) == tx' = [tx EXCEPT ![c] = Closed]

\* A delivery of an event, the first or a repeated one, whose signature fits
\* the secret of the moment.
BeginIngest(c) ==
    /\ \E e \in sent : e.gen = gen /\ Begin(c, [kind |-> "ingest", late |-> 0, event |-> e])
    /\ UNCHANGED <<agent, orch, sidecar, sent, rows, shown, monitor, inputs>>

\* Mutant: an idle event of any session ends the lease.
OwnerConflictWorkingOnly(e, late) ==
    e.kind = "working" /\ ~ orch /\ LiveAt(late) /\ owner # None /\ owner # e.session

\* The owner rules of SqlxEventStore::ingest for a lifecycle event.
OwnerConflict(e, late) ==
    IF e.kind = "working"
    THEN ~ orch /\ LiveAt(late) /\ owner # None /\ owner # e.session
    ELSE orch \/ ~ LiveAt(late) \/ owner # e.session

\* The generation is checked again under the lock.
CurrentGeneration(e) == e.gen = gen

\* A sequence of this generation has to be newer; another generation's do not count.
Newer(e) == e.seq > (IF lifeGen = e.gen THEN lastSeq ELSE 0)

Existing(e) == {r \in rows : r.gen = e.gen /\ r.seq = e.seq}

\* DuplicateApplied, unless a newer lifecycle event went past it.
StillShown(e) ==
    \E r \in Existing(e) : r.applied /\ ~ (lifeGen = e.gen /\ e.seq < lastSeq)

Broadcasting(c, e) == tx' = [tx EXCEPT ![c] = [kind |-> "broadcast", event |-> e]]

IngestDuplicate(c, e) ==
    /\ Existing(e) # {}
    /\ IF StillShown(e) THEN Broadcasting(c, e) ELSE End(c)
    /\ UNCHANGED <<status, owner, lease, lifeGen, lastSeq, rows, monitor>>

IngestNew(c, e, late) ==
    LET applied == Newer(e) /\ ~ OwnerConflict(e, late) IN
    /\ Existing(e) = {}
    /\ lifeGen' = IF Newer(e) THEN e.gen ELSE lifeGen
    /\ lastSeq' = IF Newer(e) THEN e.seq ELSE lastSeq
    /\ rows' = rows \cup {[gen |-> e.gen, seq |-> e.seq, applied |-> applied]}
    /\ status' = IF applied THEN e.kind ELSE status
    /\ IF applied /\ ~ orch
       THEN /\ owner' = IF e.kind = "working" THEN e.session ELSE owner
            /\ lease' = IF e.kind = "working" THEN HookLease - late ELSE None
            /\ monitor' = Overwritten
       ELSE UNCHANGED <<owner, lease, monitor>>
    /\ IF applied THEN Broadcasting(c, e) ELSE End(c)

Ingest(c) ==
    LET e == tx[c].event IN
    /\ tx[c].kind = "ingest"
    /\ IF CurrentGeneration(e)
       THEN IngestDuplicate(c, e) \/ IngestNew(c, e, tx[c].late)
       ELSE End(c) /\ UNCHANGED <<status, owner, lease, lifeGen, lastSeq, rows, monitor>>
    /\ UNCHANGED <<gen, made, orch, sidecar, sent, shown, inputs>>

\* After the commit; when it fails the event is delivered again.
Broadcast(c) ==
    /\ tx[c].kind = "broadcast"
    /\ LET e == tx[c].event IN
       \E ok \in BOOLEAN : shown' = IF ok THEN [shown EXCEPT ![e.gen] = e.seq] ELSE shown
    /\ End(c)
    /\ UNCHANGED <<agent, orch, sidecar, sent, rows, monitor, inputs>>

\* A heartbeat names the sidecar's active session and its generation.
BeginRenew(c) ==
    /\ active # None
    /\ Begin(c, [kind |-> "renew", late |-> 0, gen |-> gen, session |-> active])
    /\ UNCHANGED <<agent, orch, sidecar, sent, rows, shown, monitor, inputs>>

RenewMatches(c) == tx[c].gen = gen /\ owner = tx[c].session /\ LiveAt(tx[c].late)

\* renew_interactive_owner_from_heartbeat
Renew(c) ==
    /\ tx[c].kind = "renew"
    /\ IF RenewMatches(c)
       THEN lease' = HookLease - tx[c].late /\ monitor' = Overwritten
       ELSE UNCHANGED <<lease, monitor>>
    /\ End(c)
    /\ UNCHANGED <<gen, made, status, owner, lifeGen, lastSeq, orch, sidecar, sent, rows, shown, inputs>>

\* update_agent_status_from_participant: the participant was read before.
BeginMirror(c) ==
    /\ gen # 0
    /\ Begin(c, [kind |-> "mirror", late |-> 0, busy |-> orch])
    /\ UNCHANGED <<agent, orch, sidecar, sent, rows, shown, monitor, inputs>>

\* UPDATE_AGENT_STATUS_FROM_HEARTBEAT_SQL
Mirror(c) ==
    LET new == IF tx[c].busy \/ LiveAt(tx[c].late) THEN "working" ELSE "idle" IN
    /\ tx[c].kind = "mirror"
    /\ IF new # status
       THEN /\ status' = new
            /\ lease' = IF new = "idle" THEN None ELSE lease
            /\ monitor' = IF new = "idle" THEN Overwritten ELSE monitor
       ELSE UNCHANGED <<status, lease, monitor>>
    /\ End(c)
    /\ UNCHANGED <<gen, made, owner, lifeGen, lastSeq, orch, sidecar, sent, rows, shown, inputs>>

\* The participant went offline.
BeginOffline(c) ==
    /\ gen # 0
    /\ Begin(c, [kind |-> "offline", late |-> 0])
    /\ UNCHANGED <<agent, orch, sidecar, sent, rows, shown, monitor, inputs>>

\* UPDATE_AGENT_STATUS_OFFLINE_SQL: a live lease survives its participant.
Offline(c) ==
    LET live == LiveAt(tx[c].late) IN
    /\ tx[c].kind = "offline"
    /\ status' = IF live THEN "working" ELSE "offline"
    /\ lease' = IF live THEN lease ELSE None
    /\ owner' = IF live THEN owner ELSE None
    /\ monitor' = IF live THEN monitor ELSE Overwritten
    /\ End(c)
    /\ UNCHANGED <<gen, made, lifeGen, lastSeq, orch, sidecar, sent, rows, shown, inputs>>

BeginInput(c) ==
    /\ gen # 0
    /\ inputs < MaxInputs
    /\ inputs' = inputs + 1
    /\ \E k \in {"input", "prompt"} : Begin(c, [kind |-> k, late |-> 0, gen |-> gen])
    /\ UNCHANGED <<agent, orch, sidecar, sent, rows, shown, monitor>>

InputAdmitted(c) == tx[c].gen = gen /\ (status # "working" \/ lease # None) /\ ~ orch

\* renew_interactive_lease_in_tx: GREATEST of what is left and a new minute.
Input(c) ==
    LET fresh == InputLease - tx[c].late IN
    /\ tx[c].kind = "input"
    /\ IF InputAdmitted(c)
       THEN /\ owner' = IF LiveAt(tx[c].late) THEN owner ELSE None
            /\ lease' = IF lease # None /\ lease > fresh THEN lease ELSE fresh
            /\ monitor' = IF lease' = lease THEN monitor ELSE Overwritten
       ELSE UNCHANGED <<owner, lease, monitor>>
    /\ End(c)
    /\ UNCHANGED <<gen, made, status, lifeGen, lastSeq, orch, sidecar, sent, rows, shown, inputs>>

\* send_prompt under the lifecycle lock; begin_agent_work uses the present.
Prompt(c) ==
    /\ tx[c].kind = "prompt"
    /\ IF AdmissionIdle(tx[c].late) /\ tx[c].gen = gen
       THEN /\ status' = "working" /\ owner' = None /\ lease' = InputLease
            /\ monitor' = "owner"
       ELSE UNCHANGED <<status, owner, lease, monitor>>
    /\ End(c)
    /\ UNCHANGED <<gen, made, lifeGen, lastSeq, orch, sidecar, sent, rows, shown, inputs>>

\* WHERE interactive_lease_expires_at = $3 AND interactive_lease_expires_at > clock_timestamp()
MonitorHolds == monitor = "owner" /\ Live

\* renew_agent_work_lease without the lifecycle lock; a refusal ends the monitor.
MonitorRenews ==
    /\ monitor # "off"
    /\ IF MonitorHolds
       THEN lease' = InputLease /\ UNCHANGED monitor
       ELSE monitor' = "off" /\ UNCHANGED lease
    /\ UNCHANGED <<gen, made, status, owner, lifeGen, lastSeq, orch, sidecar, sent, rows, shown, tx, inputs>>

\* finish_agent_work: the prompt completed or the container stopped.
MonitorFinishes ==
    /\ monitor # "off"
    /\ IF MonitorHolds
       THEN /\ status' \in {"idle", "offline"}
            /\ lease' = None /\ owner' = None
       ELSE UNCHANGED <<status, lease, owner>>
    /\ monitor' = "off"
    /\ UNCHANGED <<gen, made, lifeGen, lastSeq, orch, sidecar, sent, rows, shown, tx, inputs>>

\* A claim of an orchestrated task and its end.
BeginClaim(c) ==
    /\ gen # 0
    /\ Begin(c, [kind |-> "claim", late |-> 0])
    /\ UNCHANGED <<agent, orch, sidecar, sent, rows, shown, monitor, inputs>>

Claim(c) ==
    /\ tx[c].kind = "claim"
    /\ orch' = (orch \/ (AdmissionIdle(tx[c].late) /\ gen # 0))
    /\ End(c)
    /\ UNCHANGED <<agent, sidecar, sent, rows, shown, monitor, inputs>>

TaskEnds ==
    /\ orch
    /\ orch' = FALSE
    /\ UNCHANGED <<agent, sidecar, sent, rows, shown, tx, monitor, inputs>>

BeginSome(c) ==
    BeginIngest(c) \/ BeginRenew(c) \/ BeginMirror(c) \/ BeginOffline(c) \/ BeginInput(c) \/ BeginClaim(c)
Run(c) ==
    \/ Ingest(c) \/ Broadcast(c) \/ Renew(c) \/ Mirror(c) \/ Offline(c)
    \/ Input(c) \/ Prompt(c) \/ Claim(c)

Next ==
    \/ SetContainer \/ ClearContainer \/ Tick \/ CliDies \/ TaskEnds
    \/ MonitorRenews \/ MonitorFinishes
    \/ \E s \in Sessions : HookWorks(s) \/ HookStops(s)
    \/ \E c \in Conns : BeginSome(c) \/ Run(c)

Spec == Init /\ [][Next]_vars

\* Time passes, transactions end and the heartbeat's mirror runs again and
\* again; tasks and prompts end.
LiveSpec ==
    /\ Spec
    /\ SF_vars(Tick)
    /\ \A c \in Conns : WF_vars(Run(c))
    /\ WF_vars(TaskEnds) /\ SF_vars(MonitorFinishes)

-----------------------------------------------------------------------------
\* An Agent never serves a live interactive lease and an orchestrated task at
\* once: admission, hook events, inputs, prompts and heartbeats agree.
SessionsExcludeTasks == ~ (orch /\ Live)

\* While its lease is live, a session loses the Agent only to its own stop, to
\* the end of the container, or to nobody: no other session, event or input
\* takes it over.
OwnerIsProtected ==
    [][\A s \in Sessions :
         owner = s /\ Live /\ gen' = gen /\ ~ (Live' /\ owner' = s) =>
            \/ lease' # None /\ lease' = lease - 1
            \/ \E c \in Conns : tx[c].kind = "ingest" /\ tx[c].event.session = s]_vars

\* An event changes the row only under the generation it was signed in and only
\* when it is newer than every lifecycle event of that generation seen before.
OnlyNewerEventsApply ==
    [][\A r \in rows' \ rows : r.applied =>
         r.gen = gen /\ \A q \in rows : q.gen = r.gen => q.seq < r.seq]_vars

\* "This avoids turning one lost stop event into a permanent lease."
LostStopFrees == [](cli = None /\ active # None /\ gen # 0 => <>(~ Live \/ active = None \/ cli # None))
=============================================================================
