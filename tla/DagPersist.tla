----------------------------- MODULE DagPersist -----------------------------
(***************************************************************************)
(* The run registry of the DAG engine and its persistence                  *)
(* (crates/theway-daemon/src/dag_persist.rs, the registry operations of    *)
(* crates/theway-core/src/multiagent/graph, the daemon's shutdown and a    *)
(* session's activation).                                                  *)
(*                                                                         *)
(* Every change of the registry is followed, in a later step of the same   *)
(* call, by a notification; a background writer coalesces notifications,   *)
(* copies the registry and writes one state file per session, session by   *)
(* session.  Activating a session loads its file and restores its runs.    *)
(* Inside a run only its progress is kept (DagEngine has the rest): ver    *)
(* counts the changes of the run's nodes.  uid tells apart runs that get   *)
(* the same id in different processes; the code has no such thing.         *)
(***************************************************************************)
EXTENDS Naturals, FiniteSets, FiniteSetsExt

CONSTANTS Sessions,
          Kinds,         \* the kinds of runs planned, among "dag" and "goal"
          MaxTerminal,   \* MAX_TERMINAL_RUNS
          MaxPlans,      \* bound: runs planned, over all processes
          MaxVer,        \* bound: changes inside a run
          MaxCalls,      \* bound: engine calls yet to notify
          MaxOps,        \* bound: client operations and failed saves
          MaxLoads,      \* bound: session activations
          MaxStops       \* bound: crashes and shutdowns

ASSUME PersistAssumption ==
  /\ IsFiniteSet(Sessions)
  /\ Kinds \subseteq {"dag", "goal"}
  /\ {MaxTerminal, MaxPlans, MaxVer, MaxCalls, MaxOps, MaxLoads, MaxStops}
       \subseteq Nat

VARIABLES phase,    \* the process: "up", "flushing", "aborting" or "down"
          runs,     \* EngineInner.runs
          counter,  \* dag_counter and goal_counter
          due,      \* sessions whose retention cap a call is about to apply
          owed,     \* calls that changed the registry and have yet to notify
          permit,   \* the permit stored in the Notify
          writer,   \* where run_loop is: "idle", "window", "sleep" or "save"
          copied,   \* what the writer's save_all has yet to write
          flushed,  \* what the shutdown's save_all has yet to write
          failed,   \* sessions whose last save or load failed
          file,     \* the state file of each session
          active,   \* installed sessions
          loaded,   \* sessions being activated, with what was loaded
          mixed,    \* sessions whose file could not be loaded, or that took
                    \* over another session's runs (history)
          inFlight, \* the runs the last shutdown found running (history)
          left      \* what may still happen of each bounded event

vars == <<phase, runs, counter, due, owed, permit, writer, copied, flushed,
          failed, file, active, loaded, mixed, inFlight, left>>

registry == <<runs, counter, due, owed>>
storage  == <<writer, copied, flushed, failed, file>>
clients  == <<active, loaded, mixed, inFlight>>

Runs == [kind : Kinds, n : Nat, session : Sessions, uid : Nat, ver : Nat,
         live : BOOLEAN]

Batches == [session : Sessions, runs : SUBSET Runs]   \* save_all's by_session

SameId(r, p) == r.kind = p.kind /\ r.n = p.n

-----------------------------------------------------------------------------
Init == /\ phase   = "up"
        /\ runs    = {}
        /\ counter = [k \in {"dag", "goal"} |-> 0]
        /\ due     = {}
        /\ owed    = 0
        /\ permit  = FALSE
        /\ writer  = "idle"
        /\ copied  = {}
        /\ flushed = {}
        /\ failed  = {}
        /\ file    = [s \in Sessions |-> {}]
        /\ active  = {}
        /\ loaded  = {}
        /\ mixed   = {}
        /\ inFlight = {}
        /\ left    = [plan |-> MaxPlans, op |-> MaxOps, load |-> MaxLoads,
                      stop |-> MaxStops]

Spend(what) == /\ left[what] > 0
               /\ left' = [left EXCEPT ![what] = @ - 1]

\* A call that changes the registry; it will notify before it returns.
Changes == /\ owed < MaxCalls
           /\ owed' = owed + 1

-----------------------------------------------------------------------------
(***************************************************************************)
(* The registry.                                                           *)
(***************************************************************************)

\* plan, plan_goal: the next id of its kind, inserted into a map.
Plan(s, k) ==
  LET new == [kind |-> k, n |-> counter[k] + 1, session |-> s,
              uid |-> MaxPlans - left.plan + 1, ver |-> 0, live |-> TRUE]
  IN  /\ phase = "up"
      /\ s \in active
      /\ Spend("plan")
      /\ Changes
      /\ counter' = [counter EXCEPT ![k] = @ + 1]
      /\ runs' = {r \in runs : ~SameId(r, new)} \cup {new}
      /\ UNCHANGED <<phase, due, permit, storage, clients>>

Becomes(r, q) == runs' = (runs \ {r}) \cup {q}

\* A node of a running run starts, reports progress or ends.
Progress(r) ==
  /\ phase # "down"
  /\ r.live /\ r.ver < MaxVer
  /\ Changes
  /\ Becomes(r, [r EXCEPT !.ver = @ + 1])
  /\ UNCHANGED <<phase, counter, due, permit, storage, clients, left>>

\* maybe_complete, cancel_run, on_goal_tick, complete_goal: the run closes,
\* then evict applies the retention cap in a lock section of its own.
Close(r) ==
  /\ phase # "down"
  /\ r.live
  /\ Changes
  /\ Becomes(r, [r EXCEPT !.live = FALSE])
  /\ due' = due \cup {r.session}
  /\ UNCHANGED <<phase, counter, permit, storage, clients, left>>

\* retry and skip set a closed run running again.
Reopen(r) ==
  /\ phase = "up"
  /\ ~r.live
  /\ Spend("op")
  /\ Changes
  /\ Becomes(r, [r EXCEPT !.live = TRUE])
  /\ UNCHANGED <<phase, counter, due, permit, storage, clients>>

\* The terminal runs of a session beyond the newest keep.
Overflow(s, keep) ==
  LET terminal == {r \in runs : r.session = s /\ ~r.live}
  IN  {r \in terminal : Cardinality({q \in terminal : q.uid > r.uid}) >= keep}

Evict(s) ==
  /\ s \in due
  /\ due' = due \ {s}
  /\ runs' = runs \ Overflow(s, MaxTerminal)
  /\ IF Overflow(s, MaxTerminal) = {} THEN UNCHANGED owed ELSE Changes
  /\ UNCHANGED <<phase, counter, permit, storage, clients, left>>

\* clear_session_runs; clear_run removes one terminal run.
Clear(s, keep) ==
  /\ phase = "up"
  /\ Overflow(s, keep) # {}
  /\ Spend("op")
  /\ Changes
  /\ runs' = runs \ Overflow(s, keep)
  /\ UNCHANGED <<phase, counter, due, permit, storage, clients>>

ClearRun(r) ==
  /\ phase = "up"
  /\ ~r.live
  /\ Spend("op")
  /\ Changes
  /\ runs' = runs \ {r}
  /\ UNCHANGED <<phase, counter, due, permit, storage, clients>>

\* rehome_runs, when a session is collapsed into another.
Rehome(from, to) ==
  /\ phase = "up"
  /\ from # to /\ to \in active
  /\ \E r \in runs : r.session = from
  /\ Spend("op")
  /\ Changes
  /\ runs' = {IF r.session = from THEN [r EXCEPT !.session = to] ELSE r : r \in runs}
  /\ mixed' = mixed \cup {to}
  /\ UNCHANGED <<phase, counter, due, permit, storage, active, loaded, inFlight>>

\* Slips: a notification that arrives during a save is dropped; a call
\* notifies without having changed anything.
NotifyLost ==
  /\ owed > 0
  /\ owed' = owed - 1
  /\ permit' = (permit \/ writer # "save")
  /\ UNCHANGED <<phase, runs, counter, due, storage, clients, left>>

NotifyUnasked ==
  /\ owed' = owed - 1
  /\ permit' = TRUE
  /\ UNCHANGED <<phase, runs, counter, due, storage, clients, left>>

\* notify_persist -> notify_dirty -> Notify::notify_one.
NotifyDirty ==
  /\ owed > 0
  /\ owed' = owed - 1
  /\ permit' = TRUE
  /\ UNCHANGED <<phase, runs, counter, due, storage, clients, left>>

-----------------------------------------------------------------------------
(***************************************************************************)
(* The writer: run_loop and save_all.                                      *)
(***************************************************************************)

\* list_runs grouped by session: a session with a registered run gets its
\* running runs written, one with none is left alone.
BySession ==
  {[session |-> s, runs |-> {r \in runs : r.session = s /\ r.live}] :
     s \in {r.session : r \in runs}}

\* The first notification opens the window; each further one delays it.
Wake ==
  /\ permit
  /\ \/ writer = "idle"   /\ writer' = "window"
     \/ writer = "window" /\ writer' = "sleep"
  /\ permit' = FALSE
  /\ UNCHANGED <<phase, registry, copied, flushed, failed, file, clients, left>>

Slept ==
  /\ writer = "sleep"
  /\ writer' = "window"
  /\ UNCHANGED <<phase, registry, permit, copied, flushed, failed, file,
                 clients, left>>

\* The timer may win the select although a notification has arrived too.
WindowCloses ==
  /\ writer = "window"
  /\ writer' = "save"
  /\ copied' = BySession
  /\ UNCHANGED <<phase, registry, permit, flushed, failed, file, clients, left>>

\* One transaction replaces the contents of one session's file.
SaveSession(b) ==
  /\ copied' = copied \ {b}
  /\ file' = [file EXCEPT ![b.session] = b.runs]
  /\ failed' = failed \ {b.session}
  /\ UNCHANGED <<phase, registry, permit, writer, flushed, clients, left>>

Saved ==
  /\ writer = "save"
  /\ copied = {}
  /\ writer' = "idle"
  /\ UNCHANGED <<phase, registry, permit, copied, flushed, failed, file,
                 clients, left>>

\* The first session that fails ends the save: its file could not be opened,
\* or was discarded for a rebuild that failed too.
Damage(s) == \/ UNCHANGED file
             \/ file' = [file EXCEPT ![s] = {}]

SaveFails(b) ==
  /\ Spend("op")
  /\ Damage(b.session)
  /\ copied' = {}
  /\ writer' = "idle"
  /\ failed' = failed \cup {c.session : c \in copied}
  /\ UNCHANGED <<phase, registry, permit, flushed, clients>>

-----------------------------------------------------------------------------
(***************************************************************************)
(* Activation: load the session's file, then, in a later step, install the *)
(* session and restore.  restore skips the ids that are registered and     *)
(* advances dag_counter past every restored dag id.                        *)
(***************************************************************************)
Load(s) ==
  /\ phase = "up"
  /\ \A b \in loaded : b.session # s
  /\ Spend("load")
  /\ loaded' = loaded \cup {[session |-> s, runs |-> file[s]]}
  /\ UNCHANGED <<phase, registry, permit, storage, active, mixed, inFlight>>

\* A store that cannot be opened or read restores nothing; opening it may
\* discard the file as damaged.
LoadFails(s) ==
  /\ phase = "up"
  /\ \A b \in loaded : b.session # s
  /\ Spend("op")
  /\ Damage(s)
  /\ failed' = failed \cup {s}
  /\ mixed' = mixed \cup {s}
  /\ loaded' = loaded \cup {[session |-> s, runs |-> {}]}
  /\ UNCHANGED <<phase, registry, permit, writer, copied, flushed, active,
                 inFlight>>

\* Slips: only ids beyond the counter are restored; the counter is left alone.
RestorableNewer(b) == {p \in b.runs : p.n > counter[p.kind]}

Restorable(b) == {p \in b.runs : \A r \in runs : ~SameId(r, p)}

CounterLeftAlone(restored) == counter

AlignedCounter(restored) ==
  [counter EXCEPT !["dag"] =
     Max({@} \cup {p.n : p \in {q \in restored : q.kind = "dag"}})]

Install(b) ==
  /\ loaded' = loaded \ {b}
  /\ active' = active \cup {b.session}
  /\ runs' = runs \cup Restorable(b)
  /\ counter' = AlignedCounter(Restorable(b))
  /\ IF Restorable(b) = {} THEN UNCHANGED owed ELSE Changes
  /\ UNCHANGED <<phase, due, permit, storage, mixed, inFlight, left>>

-----------------------------------------------------------------------------
(***************************************************************************)
(* Shutdown: flush saves everything, then every running run is cancelled,  *)
(* then the process exits.  The writer is not stopped.                     *)
(***************************************************************************)
Shutdown ==
  /\ phase = "up"
  /\ Spend("stop")
  /\ phase' = "flushing"
  /\ flushed' = BySession
  /\ UNCHANGED <<registry, permit, writer, copied, failed, file, clients>>

FlushSession(b) ==
  /\ flushed' = flushed \ {b}
  /\ file' = [file EXCEPT ![b.session] = b.runs]
  /\ UNCHANGED <<phase, registry, permit, writer, copied, failed, clients, left>>

FlushFails(b) ==
  /\ Spend("op")
  /\ Damage(b.session)
  /\ flushed' = {}
  /\ UNCHANGED <<phase, registry, permit, writer, copied, failed, clients>>

\* abort_all_runs then closes the running runs one after another (Close).
AbortAll ==
  /\ phase = "flushing"
  /\ flushed = {}
  /\ phase' = "aborting"
  /\ inFlight' = {r.uid : r \in {q \in runs : q.live}}
  /\ UNCHANGED <<registry, permit, storage, active, loaded, mixed, left>>

Stopped ==
  /\ phase'   = "down"
  /\ runs'    = {}
  /\ counter' = [k \in {"dag", "goal"} |-> 0]
  /\ due'     = {}
  /\ owed'    = 0
  /\ permit'  = FALSE
  /\ writer'  = "idle"
  /\ copied'  = {}
  /\ flushed' = {}
  /\ failed'  = {}
  /\ active'  = {}
  /\ loaded'  = {}
  /\ mixed'   = {}
  /\ inFlight' = {}
  /\ UNCHANGED file

Exit == /\ phase = "aborting"
        /\ due = {} /\ owed = 0 /\ \A r \in runs : ~r.live
        /\ Stopped
        /\ UNCHANGED left

Crash == /\ phase # "down"
         /\ Spend("stop")
         /\ Stopped

Boot == /\ phase = "down"
        /\ phase' = "up"
        /\ UNCHANGED <<registry, permit, storage, clients, left>>

-----------------------------------------------------------------------------
Writes == \/ Wake
          \/ Slept
          \/ WindowCloses
          \/ \E b \in copied : SaveSession(b)
          \/ Saved

Next ==
  \/ \E s \in Sessions : \E k \in Kinds : Plan(s, k)
  \/ \E r \in runs : Progress(r)
  \/ \E r \in runs : Close(r)
  \/ \E r \in runs : Reopen(r)
  \/ \E s \in Sessions : Evict(s)
  \/ \E s \in Sessions : \E keep \in 0..MaxTerminal : Clear(s, keep)
  \/ \E r \in runs : ClearRun(r)
  \/ \E from, to \in Sessions : Rehome(from, to)
  \/ NotifyDirty
  \/ Writes
  \/ \E b \in copied : SaveFails(b)
  \/ \E s \in Sessions : Load(s)
  \/ \E s \in Sessions : LoadFails(s)
  \/ \E b \in loaded : Install(b)
  \/ Shutdown
  \/ \E b \in flushed : FlushSession(b)
  \/ \E b \in flushed : FlushFails(b)
  \/ AbortAll
  \/ Exit
  \/ Crash
  \/ Boot

Spec == Init /\ [][Next]_vars

\* The writer task keeps being scheduled, and a call that has changed the
\* registry gets to its notification; nobody has to change anything.
Fairness == WF_vars(Writes) /\ WF_vars(NotifyDirty)

FairSpec == Spec /\ Fairness

-----------------------------------------------------------------------------
\* Type invariant.
TypeOK ==
  /\ phase   \in {"up", "flushing", "aborting", "down"}
  /\ runs    \subseteq Runs
  /\ counter \in [{"dag", "goal"} -> Nat]
  /\ due     \subseteq Sessions
  /\ owed    \in 0..MaxCalls
  /\ permit  \in BOOLEAN
  /\ writer  \in {"idle", "window", "sleep", "save"}
  /\ copied  \subseteq Batches
  /\ flushed \subseteq Batches
  /\ failed  \subseteq Sessions
  /\ file    \in [Sessions -> SUBSET Runs]
  /\ active  \subseteq Sessions
  /\ loaded  \subseteq Batches
  /\ mixed   \subseteq Sessions
  /\ inFlight \subseteq 1..MaxPlans
  /\ left    \in [{"plan", "op", "load", "stop"} -> Nat]

\* No notification is pending, travelling or being acted upon.
Quiet == phase = "up" /\ owed = 0 /\ ~permit /\ writer = "idle"

LiveOf(s) == {r \in runs : r.session = s /\ r.live}

Unsaved(s) == (\E r \in runs : r.session = s) /\ file[s] # LiveOf(s)

\* No change is lost between the coalescing window, the copy of the registry
\* and the session-by-session write: when the writer has nothing left to do,
\* the file of every session that has a registered run holds exactly its
\* running runs, at their latest progress, unless its
\* last save or load failed.
SavedWhenQuiet == Quiet => \A s \in Sessions \ failed : ~Unsaved(s)

\* Every change reaches the file, if the process lives and the save works.
EventuallySaved ==
  \A s \in Sessions : Unsaved(s) ~> (~Unsaved(s) \/ phase # "up" \/ s \in failed)

\* A running dag leaves the registry only with the process: no plan takes its
\* id, no clear, eviction, rehoming or restore drops it.
LiveRunsStay ==
  [][(phase # "down" /\ phase' # "down") =>
       \A r \in runs : (r.live /\ r.kind = "dag") =>
          \E q \in runs' : q.uid = r.uid]_vars

\* A restored session gets back every dag in its file, except one whose id is
\* taken: by a run of another session, by a run the session planned itself
\* after a load that failed, or by one that was rehomed into it.
Installed(b) == b \in loaded /\ b \notin loaded' /\ phase' = "up"

RestoreSkipsOnlyTaken ==
  [][\A b \in loaded : Installed(b) =>
       \A p \in b.runs : p.kind = "dag" =>
          \/ \E r \in runs' : r.uid = p.uid
          \/ \E r \in runs : SameId(r, p) /\ r.session # b.session
          \/ b.session \in mixed]_vars

\* As documented: the next session start restores the runs in the file.
RestoredOnStart ==
  [][\A b \in loaded : Installed(b) =>
       \A p \in b.runs : \E r \in runs' : r.uid = p.uid]_vars

\* As documented: what is running when the daemon is shut down is in the
\* state files when the process has exited.
InFlightSurvivesExit ==
  [][(phase = "aborting" /\ phase' = "down" /\ left' = left) =>
       \A u \in inFlight : \E s \in Sessions : \E p \in file'[s] : p.uid = u]_vars

=============================================================================
