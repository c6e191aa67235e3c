--------------------------- MODULE HarnessCapture ---------------------------
(***************************************************************************)
(* The processes meshloop starts and the pipes it reads: CliHarness        *)
(* (invoke, try_collect, cancel, cancel_owned, probe), the capture permits *)
(* and reader threads, CommandCheckRunner, and the native owner of a       *)
(* process tree (a process group on POSIX, a kill-on-close job on          *)
(* Windows).                                                               *)
(*                                                                         *)
(* A call is one use of the host: a worker (invoke), a probe, a check, or  *)
(* a plain command such as git.  The calls run in threads of one process   *)
(* and share the registry of running attempts, the capture permits and, on *)
(* Windows, the launch lock.  `host' tells the two builds apart.           *)
(***************************************************************************)
EXTENDS Naturals, FiniteSets

CONSTANTS
    Workers,      \* the invoke calls
    Probes,       \* the probe calls
    Checks,       \* the verify_command calls
    Commands,     \* the plain commands (git, tasklist)
    Keys,         \* attempt ids
    KeyOf,        \* the attempt id of each worker call
    Mixes,        \* the sets of calls that are looked at together
    Slots,        \* CAPTURE_SLOTS
    MaxFaults,    \* bound: native calls that fail
    MaxForks,     \* bound: descendants the workers and probes start
    NoOne         \* no call

ASSUME HarnessAssumption ==
    /\ KeyOf \in [Workers -> Keys]
    /\ Slots \in Nat /\ MaxFaults \in Nat /\ MaxForks \in Nat
    /\ Mixes \subseteq SUBSET (Workers \cup Probes \cup Checks \cup Commands)
    /\ NoOne \notin Workers \cup Probes \cup Checks \cup Commands
    /\ Workers \cap (Probes \cup Checks \cup Commands) = {}
    /\ Probes \cap (Checks \cup Commands) = {} /\ Checks \cap Commands = {}

Calls == Workers \cup Probes \cup Checks \cup Commands

VARIABLES
    host,         \* "posix" or "windows"
    pc,           \* where the call's own thread is
    slot,         \* the registry: the call whose permit token reserves a key
    place,        \* who holds the call's Running record or child
    child,        \* Running.child is Some
    status,       \* the leader was reaped and its status recorded
    tried,        \* Running.cancellation_attempted
    reading,      \* a reader thread of the call is not finished
    failed,       \* a reader recorded a capture failure
    parts,        \* the live processes of the tree
    leaks,        \* an unrelated command inherited the call's pipe ends
    over,         \* what the caller was told
    late,         \* signals sent by number after the leader was reaped
    faults,       \* native failures so far
    forks         \* descendants so far

registry == <<slot, place, child, status, tried>>
capture  == <<reading, failed>>
world    == <<parts, leaks>>
vars == <<host, pc, registry, capture, world, over, late, faults, forks>>

\* What a process tree is made of: its leader, descendants inside its group or
\* job, and descendants that left the process group (a job cannot be left).
Part == {"leader", "kin", "stray"}
Group == {"leader", "kin"}

TypeOK ==
    /\ host \in {"posix", "windows"}
    /\ pc \in [Calls -> {"idle", "reserved", "claimed", "opened", "prompting", "launched",
                         "unwind", "invoked", "draining", "over"}]
    /\ slot \in [Keys -> Workers \cup {NoOne}]
    /\ \A k \in Keys : slot[k] # NoOne => KeyOf[slot[k]] = k
    /\ place \in [Calls -> {"none", "thread", "slot", "taken", "tested", "doomed", "gone"}]
    /\ \A c \in Workers : place[c] = "slot" => slot[KeyOf[c]] = c
    /\ child \in [Calls -> BOOLEAN] /\ status \in [Calls -> BOOLEAN]
    /\ tried \in [Calls -> BOOLEAN]
    /\ reading \in [Calls -> BOOLEAN] /\ failed \in [Calls -> BOOLEAN]
    /\ parts \in [Calls -> SUBSET Part] /\ leaks \in [Calls -> BOOLEAN]
    /\ \A c \in Calls : host = "windows" => "stray" \notin parts[c]
    /\ over \in [Calls -> {"none", "ended", "cancelled", "applied", "crashed"}]
    /\ late \subseteq {"reaped", "owned"}
    /\ faults \in 0..MaxFaults /\ forks \in 0..MaxForks

Init ==
    /\ host \in {"posix", "windows"}
    /\ \E mix \in Mixes :
         /\ pc = [c \in Calls |-> IF c \in mix THEN "idle" ELSE "over"]
         /\ over = [c \in Calls |-> IF c \in mix THEN "none" ELSE "ended"]
    /\ slot = [k \in Keys |-> NoOne]
    /\ place = [c \in Calls |-> "none"]
    /\ child = [c \in Calls |-> FALSE] /\ status = [c \in Calls |-> FALSE]
    /\ tried = [c \in Calls |-> FALSE]
    /\ reading = [c \in Calls |-> FALSE] /\ failed = [c \in Calls |-> FALSE]
    /\ parts = [c \in Calls |-> {}] /\ leaks = [c \in Calls |-> FALSE]
    /\ late = {} /\ faults = 0 /\ forks = 0

---------------------------------------------------------------------------
(* Permits, locks and native process trees *)

\* Mutant: the reader threads do not keep a clone of the permit.
HoldsPermitBrief(c) ==
    \/ pc[c] \in {"reserved", "claimed", "opened", "prompting", "launched",
                 "unwind", "draining"}
    \/ \E k \in Keys : slot[k] = c
    \/ place[c] \in {"thread", "slot", "taken", "tested", "doomed"}

\* CAPTURES counts the permits whose Arc still has a clone: in the calling
\* thread, in the registry slot, in the Capture, in an unfinished reader.
HoldsPermit(c) ==
    \/ pc[c] \in {"reserved", "claimed", "opened", "prompting", "launched",
                 "unwind", "draining"}
    \/ \E k \in Keys : slot[k] = c
    \/ place[c] \in {"thread", "slot", "taken", "tested", "doomed"}
    \/ reading[c]

Captures == Cardinality({c \in Workers \cup Probes : HoldsPermit(c)})

\* Windows: inheritable duplicates of a call's pipe ends exist only while the
\* launching thread holds SPAWN_LOCK; every other launch waits for it.
LaunchLockFree == \A d \in Calls : pc[d] # "opened"

\* A pipe has a writer: a process of the tree, a process that inherited its
\* ends by accident, or the launching thread itself.
PipeHeld(c) ==
    \/ parts[c] # {}
    \/ leaks[c]
    \/ pc[c] = "opened"

\* What of a tree survives kill_tree.  A process group signal reaches the
\* members of the group; a job reaches everything in it.
KillTree(ps) == ps \ Group

\* What of a tree survives when its owner object is dropped: the last handle
\* of a Windows job kills it, a POSIX Child is only forgotten.
DropOwner(ps) == IF host = "windows" THEN {} ELSE ps

\* kill_tree on POSIX signals the numeric group and pid; once the leader is
\* reaped and its group is empty, that number may be someone else's.
Stale(c) ==
    host = "posix" /\ child[c] /\ status[c] /\ parts[c] \cap Group = {}

\* The Running record, or the child, is dropped with what it knew; reader
\* threads that have not finished go on.
Gone(c) ==
    /\ place' = [place EXCEPT ![c] = "gone"]
    /\ child' = [child EXCEPT ![c] = FALSE]
    /\ status' = [status EXCEPT ![c] = FALSE]
    /\ tried' = [tried EXCEPT ![c] = FALSE]
    /\ failed' = [failed EXCEPT ![c] = FALSE]
    /\ UNCHANGED reading

Fault == faults < MaxFaults /\ faults' = faults + 1

\* The call returns: with an outcome, a fault or a timeout, which the
\* properties do not tell apart.
Ends(c) ==
    /\ pc' = [pc EXCEPT ![c] = "over"]
    /\ over' = IF over[c] = "none" THEN [over EXCEPT ![c] = "ended"] ELSE over

---------------------------------------------------------------------------
(* CliHarness::invoke *)

\* CapturePermit::reserve, for an invoke and for a probe.  The caller of an
\* attempt id invokes it again only after its last call has ended.
Reserve(c) ==
    /\ c \in Workers \cup Probes /\ pc[c] = "idle"
    /\ \A d \in Workers : c \in Workers /\ KeyOf[d] = KeyOf[c] /\ pc[d] # "idle"
                            => over[d] # "none"
    /\ IF Captures < Slots
       THEN pc' = [pc EXCEPT ![c] = "reserved"] /\ UNCHANGED over
       ELSE Ends(c)
    /\ UNCHANGED <<host, registry, capture, world, late, faults, forks>>

\* The slot is inserted without a Running record; an occupied key is a fault.
Claim(c) ==
    /\ c \in Workers /\ pc[c] = "reserved"
    /\ IF slot[KeyOf[c]] = NoOne
       THEN /\ slot' = [slot EXCEPT ![KeyOf[c]] = c]
            /\ pc' = [pc EXCEPT ![c] = "claimed"] /\ UNCHANGED over
       ELSE Ends(c) /\ UNCHANGED slot
    /\ UNCHANGED <<host, place, child, status, tried, capture, world, late, faults, forks>>

\* The pcs from which a call starts its process.
Launching(c) ==
    \/ c \in Workers /\ pc[c] = "claimed"
    \/ c \in Probes /\ pc[c] = "reserved"
    \/ c \in Checks /\ pc[c] = "idle"

\* Windows: under SPAWN_LOCK, stream() makes the inheritable duplicates.
OpenStreams(c) ==
    /\ host = "windows" /\ c \notin Commands /\ Launching(c) /\ LaunchLockFree
    /\ pc' = [pc EXCEPT ![c] = "opened"]
    /\ UNCHANGED <<host, registry, capture, world, over, late, faults, forks>>

\* spawn_owned and the capture threads of an invoke.  Capture::start is part of
\* it: the readers have the pipes before anyone else sees the child.  A harness
\* configured with PromptVia::Stdin gets its prompt through a pipe next.
Spawn(c) ==
    /\ c \in Workers /\ IF host = "windows" THEN pc[c] = "opened" ELSE Launching(c)
    /\ \E next \in {"prompting", "launched"} : pc' = [pc EXCEPT ![c] = next]
    /\ parts' = [parts EXCEPT ![c] = {"leader"}]
    /\ place' = [place EXCEPT ![c] = "thread"]
    /\ child' = [child EXCEPT ![c] = TRUE]
    /\ reading' = [reading EXCEPT ![c] = TRUE]
    /\ UNCHANGED <<host, slot, status, tried, failed, leaks, over, late, faults, forks>>

\* write_all of the prompt returns: the pipe took all of it.  It has no deadline
\* and the attempt's clock has not started; if the process does not read what
\* the pipe cannot hold, this step is never taken.
WritePrompt(c) ==
    /\ c \in Workers /\ pc[c] = "prompting" /\ PipeHeld(c)
    /\ pc' = [pc EXCEPT ![c] = "launched"]
    /\ UNCHANGED <<host, registry, capture, world, over, late, faults, forks>>

\* No process has the pipe's read end any more: the write fails, and the child
\* is killed and dropped.
PromptBreaks(c) ==
    /\ c \in Workers /\ pc[c] = "prompting" /\ ~PipeHeld(c)
    /\ pc' = [pc EXCEPT ![c] = "unwind"]
    /\ Gone(c)
    /\ UNCHANGED <<host, slot, world, over, late, faults, forks>>

\* The prompt file cannot be written or the process cannot be created.
SpawnFails(c) ==
    /\ c \in Workers /\ (pc[c] = "opened" \/ Launching(c))
    /\ Fault
    /\ pc' = [pc EXCEPT ![c] = "unwind"]
    /\ UNCHANGED <<host, registry, capture, world, over, late, forks>>

\* A reader thread cannot start, or the write of the prompt reports an error:
\* the child is killed and dropped, and a reader that did start runs on to its
\* end of file.
LaunchFails(c) ==
    /\ c \in Workers /\ pc[c] \in {"prompting", "launched"}
    /\ Fault
    /\ pc' = [pc EXCEPT ![c] = "unwind"]
    /\ Gone(c)
    /\ parts' = [parts EXCEPT ![c] = DropOwner(KillTree(@))]
    /\ UNCHANGED <<host, slot, leaks, over, late, forks>>

\* launch returned an error: only the call's own reservation is removed.
RemoveOwnSlot(c) ==
    /\ c \in Workers /\ pc[c] = "unwind"
    /\ slot' = IF slot[KeyOf[c]] = c THEN [slot EXCEPT ![KeyOf[c]] = NoOne] ELSE slot
    /\ Ends(c)
    /\ UNCHANGED <<host, place, child, status, tried, capture, world, late, faults, forks>>

\* Mutant: a call whose reservation is gone drops its child and lets it run.
InstallUnchecked(c) ==
    /\ c \in Workers /\ pc[c] = "launched"
    /\ IF slot[KeyOf[c]] = c
       THEN /\ place' = [place EXCEPT ![c] = "slot"]
            /\ pc' = [pc EXCEPT ![c] = "invoked"]
            /\ UNCHANGED <<child, status, tried, capture, over>>
       ELSE Gone(c) /\ Ends(c)
    /\ UNCHANGED <<host, slot, world, late, faults, forks>>

\* The end of invoke: the record is filed if the reservation is still this
\* call's; otherwise the call kills its own child and reports a fault.
Install(c) ==
    /\ c \in Workers /\ pc[c] = "launched"
    /\ IF slot[KeyOf[c]] = c
       THEN /\ place' = [place EXCEPT ![c] = "slot"]
            /\ pc' = [pc EXCEPT ![c] = "invoked"]
            /\ UNCHANGED over
       ELSE /\ place' = [place EXCEPT ![c] = "doomed"]
            /\ Ends(c)
    /\ UNCHANGED <<host, slot, child, status, tried, capture, world, late, faults, forks>>

\* Mutant: the record is dropped and the child is not killed.
DropDoomed(c) ==
    /\ place[c] = "doomed"
    /\ Gone(c)
    /\ UNCHANGED <<host, pc, slot, world, over, late, faults, forks>>

\* A thread that took a Running record out of the registry kills the child and
\* drops the record.  A record whose child cancel_owned released sends nothing.
KillDoomed(c) ==
    /\ place[c] = "doomed"
    /\ parts' = [parts EXCEPT ![c] = IF child[c] THEN DropOwner(KillTree(@)) ELSE @]
    /\ late' = IF Stale(c) THEN late \cup {IF tried[c] THEN "owned" ELSE "reaped"} ELSE late
    /\ Gone(c)
    /\ UNCHANGED <<host, pc, slot, leaks, over, faults, forks>>

---------------------------------------------------------------------------
(* CliHarness::try_collect, cancel and cancel_owned *)

Registered(c) == c \in Workers /\ slot[KeyOf[c]] = c /\ place[c] = "slot"

\* The slot and its record leave the registry; this thread will kill the child.
Doom(c) ==
    /\ slot' = [slot EXCEPT ![KeyOf[c]] = NoOne]
    /\ place' = [place EXCEPT ![c] = "doomed"]
    /\ Ends(c)

\* try_collect finds a recorded reader failure, or cannot wait for the child.
CollectFails(c) ==
    /\ Registered(c) /\ pc[c] = "invoked"
    /\ \/ failed[c] /\ UNCHANGED faults
       \/ ~status[c] /\ child[c] /\ Fault
    /\ Doom(c)
    /\ UNCHANGED <<host, child, status, tried, capture, world, late, forks>>

\* try_wait sees that the leader has exited: it is reaped, the child is kept.
Reap(c) ==
    /\ Registered(c) /\ ~failed[c] /\ ~status[c] /\ child[c]
    /\ "leader" \notin parts[c]
    /\ status' = [status EXCEPT ![c] = TRUE]
    /\ UNCHANGED <<host, pc, slot, place, child, tried, capture, world, over,
                   late, faults, forks>>

\* Exit status and both ends of file: the outcome, or the capacity message.
CollectOutcome(c) ==
    /\ Registered(c) /\ ~failed[c] /\ status[c] /\ ~reading[c]
    /\ slot' = [slot EXCEPT ![KeyOf[c]] = NoOne]
    /\ Gone(c) /\ Ends(c)
    /\ parts' = [parts EXCEPT ![c] = DropOwner(@)]
    /\ UNCHANGED <<host, leaks, late, faults, forks>>

\* The deadline: a Timeout while the leader runs, an end-of-file timeout when
\* it was reaped; either way the record is removed and the child is killed.
CollectTimeout(c) ==
    /\ Registered(c) /\ ~failed[c] /\ ~(status[c] /\ ~reading[c])
    /\ Doom(c)
    /\ UNCHANGED <<host, child, status, tried, capture, world, late, faults, forks>>

\* cancel: the slot goes; its record, if it is there, goes with it.  A cancel
\* during the launch, or during a cancel_owned, leaves the child to that thread.
Cancel(c) ==
    /\ c \in Workers /\ slot[KeyOf[c]] = c /\ over[c] = "none"
    /\ slot' = [slot EXCEPT ![KeyOf[c]] = NoOne]
    /\ place' = IF place[c] = "slot" THEN [place EXCEPT ![c] = "doomed"] ELSE place
    /\ over' = [over EXCEPT ![c] = "cancelled"]
    /\ pc' = IF pc[c] = "invoked" THEN [pc EXCEPT ![c] = "over"] ELSE pc
    /\ UNCHANGED <<host, child, status, tried, capture, world, late, faults, forks>>

\* with_retained_attempt: the record is taken out of its slot.  The handle's
\* pid must be the child's, so a record without a child is refused.
TakeOwned(c) ==
    /\ Registered(c) /\ pc[c] = "invoked" /\ child[c]
    /\ place' = [place EXCEPT ![c] = "taken"]
    /\ UNCHANGED <<host, pc, slot, child, status, tried, capture, world, over,
                   late, faults, forks>>

\* Mutant: the leader's exit is taken for the end of the job.
CancelOwnedByExit(c) ==
    /\ place[c] = "taken"
    /\ place' = [place EXCEPT ![c] = "tested"]
    /\ tried' = [tried EXCEPT ![c] = TRUE]
    /\ IF tried[c]
       THEN UNCHANGED <<parts, status, child, over, faults>>
       ELSE \/ /\ host = "posix"
               /\ parts' = [parts EXCEPT ![c] = IF status[c] THEN @ ELSE KillTree(@)]
               /\ status' = [status EXCEPT ![c] = TRUE]
               /\ child' = [child EXCEPT ![c] = FALSE]
               /\ UNCHANGED <<over, faults>>
            \/ /\ host = "windows"
               /\ parts' = [parts EXCEPT ![c] = @ \ {"leader"}]
               /\ status' = [status EXCEPT ![c] = TRUE]
               /\ over' = IF over[c] = "none" THEN [over EXCEPT ![c] = "applied"] ELSE over
               /\ UNCHANGED <<child, faults>>
    /\ UNCHANGED <<host, pc, slot, capture, leaks, late, forks>>

\* Mutant: after the reap the child stays in the record.
CancelOwnedKeepsChild(c) ==
    /\ place[c] = "taken"
    /\ place' = [place EXCEPT ![c] = "tested"]
    /\ tried' = [tried EXCEPT ![c] = TRUE]
    /\ host = "posix"
    /\ parts' = [parts EXCEPT ![c] = IF status[c] THEN @ ELSE KillTree(@)]
    /\ status' = [status EXCEPT ![c] = TRUE]
    /\ UNCHANGED <<host, pc, slot, child, capture, leaks, over, late, faults, forks>>

\* cancel_owned, once per attempt and outside the registry lock.  POSIX kills
\* an unreaped leader's group, reaps it and releases the child, and still only
\* answers Unsupported; Windows answers Ok when the job is observed empty, and
\* otherwise leaves a tree that may have lost any part.
CancelOwned(c) ==
    /\ place[c] = "taken"
    /\ place' = [place EXCEPT ![c] = "tested"]
    /\ tried' = [tried EXCEPT ![c] = TRUE]
    /\ IF tried[c]
       THEN UNCHANGED <<parts, status, child, over, faults>>
       ELSE \/ /\ host = "posix"
               /\ parts' = [parts EXCEPT ![c] = IF status[c] THEN @ ELSE KillTree(@)]
               /\ status' = [status EXCEPT ![c] = TRUE]
               /\ child' = [child EXCEPT ![c] = FALSE]
               /\ UNCHANGED <<over, faults>>
            \/ /\ host = "windows"
               /\ parts' = [parts EXCEPT ![c] = {}]
               /\ status' = [status EXCEPT ![c] = TRUE]
               /\ over' = IF over[c] = "none" THEN [over EXCEPT ![c] = "applied"] ELSE over
               /\ UNCHANGED <<child, faults>>
            \/ /\ host = "windows" /\ Fault
               /\ \E ps \in SUBSET parts[c] : parts' = [parts EXCEPT ![c] = ps]
               /\ UNCHANGED <<status, child, over>>
    /\ UNCHANGED <<host, pc, slot, capture, leaks, late, forks>>

\* Mutant: the record goes back under its key whoever holds the reservation.
PutBackAnyway(c) ==
    /\ place[c] = "tested"
    /\ place' = [place EXCEPT ![c] = "slot"]
    /\ UNCHANGED <<host, pc, slot, child, status, tried, capture, world, over, late,
                   faults, forks>>

\* The record goes back only into its own reservation; if that was removed or
\* replaced it is dropped: a job dies with it, a POSIX child is let go.
PutBack(c) ==
    /\ place[c] = "tested"
    /\ IF slot[KeyOf[c]] = c
       THEN /\ place' = [place EXCEPT ![c] = "slot"]
            /\ UNCHANGED <<parts, child, status, tried, capture>>
       ELSE Gone(c) /\ parts' = [parts EXCEPT ![c] = DropOwner(@)]
    /\ UNCHANGED <<host, pc, slot, leaks, over, late, faults, forks>>

\* The process that owns the registry dies: records, readers and permits go,
\* jobs close, POSIX groups live on.
Crash ==
    /\ Fault
    /\ \E c \in Workers : parts[c] # {}
    /\ slot' = [k \in Keys |-> NoOne]
    /\ place' = [c \in Calls |-> IF place[c] = "none" THEN "none" ELSE "gone"]
    /\ child' = [c \in Calls |-> FALSE] /\ status' = [c \in Calls |-> FALSE]
    /\ tried' = [c \in Calls |-> FALSE]
    /\ reading' = [c \in Calls |-> FALSE] /\ failed' = [c \in Calls |-> FALSE]
    /\ pc' = [c \in Calls |-> "over"]
    /\ over' = [c \in Calls |-> IF over[c] = "none" \/ place[c] \notin {"none", "gone"}
                            THEN "crashed" ELSE over[c]]
    /\ parts' = [c \in Calls |-> DropOwner(parts[c])]
    /\ UNCHANGED <<host, leaks, late, forks>>

\* cancel in the next process: no slot, but a recorded pid.  The tree is killed
\* when its leader still runs, as kill_orphaned_tree checks.
CancelOrphan(c) ==
    /\ c \in Workers /\ over[c] = "crashed"
    /\ parts' = [parts EXCEPT ![c] = IF "leader" \in @ THEN KillTree(@) ELSE @]
    /\ over' = [over EXCEPT ![c] = "cancelled"]
    /\ UNCHANGED <<host, pc, registry, capture, leaks, late, faults, forks>>

---------------------------------------------------------------------------
(* CliHarness::probe, CommandCheckRunner::run and spawn_command *)

\* The probe and the check run in their caller's thread and own their child.
Start(c) ==
    /\ c \in Probes \cup Checks
    /\ IF host = "windows" THEN pc[c] = "opened" ELSE Launching(c)
    /\ parts' = [parts EXCEPT ![c] = {"leader"}]
    /\ pc' = [pc EXCEPT ![c] = "launched"]
    /\ place' = [place EXCEPT ![c] = "thread"]
    /\ child' = [child EXCEPT ![c] = TRUE]
    /\ reading' = [reading EXCEPT ![c] = TRUE]
    /\ UNCHANGED <<host, slot, status, tried, failed, leaks, over, late, faults, forks>>

\* The process cannot be created.
StartFails(c) ==
    /\ c \in Probes \cup Checks /\ (pc[c] = "opened" \/ Launching(c))
    /\ Fault
    /\ Ends(c)
    /\ UNCHANGED <<host, registry, capture, world, late, forks>>

\* The leader exits.  The probe drops its child before it waits for the end of
\* file; the check keeps it while it joins its readers.
SeeExit(c) ==
    /\ c \in Probes \cup Checks /\ pc[c] = "launched" /\ "leader" \notin parts[c]
    /\ c \in Probes => ~failed[c]
    /\ pc' = [pc EXCEPT ![c] = "draining"]
    /\ IF c \in Probes
       THEN Gone(c) /\ parts' = [parts EXCEPT ![c] = DropOwner(@)]
       ELSE UNCHANGED <<place, child, status, tried, capture, parts>>
    /\ UNCHANGED <<host, slot, leaks, over, late, faults, forks>>

\* A reader failure (probe) or the deadline while the leader runs: kill_tree.
\* The probe returns at once, the check still joins its readers.
StopLeader(c) ==
    /\ c \in Probes \cup Checks /\ pc[c] = "launched"
    /\ \/ "leader" \in parts[c]
       \/ c \in Probes /\ failed[c]
    /\ parts' = [parts EXCEPT ![c] = DropOwner(KillTree(@))]
    /\ Gone(c)
    /\ IF c \in Probes THEN Ends(c)
       ELSE pc' = [pc EXCEPT ![c] = "draining"] /\ UNCHANGED over
    /\ UNCHANGED <<host, slot, leaks, late, faults, forks>>

\* Mutant: the probe joins its readers without watching its deadline.
FinishAtEof(c) ==
    /\ c \in Probes \cup Checks /\ pc[c] = "draining"
    /\ ~reading[c]
    /\ Ends(c)
    /\ parts' = [parts EXCEPT ![c] = DropOwner(@)]
    /\ Gone(c)
    /\ UNCHANGED <<host, slot, leaks, late, faults, forks>>

\* Both readers finished; or, for the probe alone, its deadline has passed.
Finish(c) ==
    /\ c \in Probes \cup Checks /\ pc[c] = "draining"
    /\ ~reading[c] \/ (c \in Probes)
    /\ Ends(c)
    /\ parts' = [parts EXCEPT ![c] = DropOwner(@)]
    /\ Gone(c)
    /\ UNCHANGED <<host, slot, leaks, late, faults, forks>>

\* Mutant: git and tasklist are spawned without spawn_command's guard.
SpawnCommandUnguarded(c) ==
    /\ host = "windows" /\ c \in Commands /\ pc[c] = "idle"
    /\ leaks' = [d \in Calls |-> leaks[d] \/ pc[d] = "opened"]
    /\ Ends(c)
    /\ UNCHANGED <<host, registry, capture, parts, late, faults, forks>>

\* Windows: spawn_command starts a plain child, which inherits every handle
\* that is inheritable at that moment, under the launch lock.  (On POSIX the
\* descriptors close on exec and there is no lock.)
SpawnCommand(c) ==
    /\ host = "windows" /\ c \in Commands /\ pc[c] = "idle"
    /\ LaunchLockFree
    /\ leaks' = [d \in Calls |-> leaks[d] \/ pc[d] = "opened"]
    /\ Ends(c)
    /\ UNCHANGED <<host, registry, capture, parts, late, faults, forks>>

---------------------------------------------------------------------------
(* The host: processes, pipes and time *)

\* A process of the tree starts another, which on POSIX may leave the group.
\* A living descendant keeps the pipe open.
Fork(c) ==
    /\ parts[c] = {"leader"} /\ forks < MaxForks
    /\ forks' = forks + 1
    /\ \E p \in Part \ parts[c] :
         /\ p = "stray" => host = "posix"
         /\ parts' = [parts EXCEPT ![c] = @ \cup {p}]
    /\ UNCHANGED <<host, pc, registry, capture, leaks, over, late, faults>>

\* A process of the tree ends.
Exit(c) ==
    /\ \E p \in parts[c] : parts' = [parts EXCEPT ![c] = @ \ {p}]
    /\ UNCHANGED <<host, pc, registry, capture, leaks, over, late, faults, forks>>

\* A reader sees too much output or a read error, and records it.
ReaderFails(c) ==
    /\ reading[c] /\ ~failed[c] /\ c \notin Checks
    /\ place[c] \notin {"none", "doomed", "gone"}
    /\ failed' = [failed EXCEPT ![c] = TRUE]
    /\ \E more \in {r \in BOOLEAN : PipeHeld(c) \/ ~r} :
         reading' = [reading EXCEPT ![c] = more]
    /\ UNCHANGED <<host, pc, registry, world, over, late, faults, forks>>

\* The last writer is gone: the readers end.
ReadersEnd(c) ==
    /\ reading[c] /\ ~PipeHeld(c)
    /\ reading' = [reading EXCEPT ![c] = FALSE]
    /\ UNCHANGED <<host, pc, registry, failed, world, over, late, faults, forks>>

---------------------------------------------------------------------------

\* The steps of the thread a call runs in, or that took its record, which
\* nothing outside this process can hold up.  WritePrompt is not one of them.
Thread(c) ==
    \/ Claim(c) \/ OpenStreams(c) \/ Spawn(c) \/ RemoveOwnSlot(c) \/ Install(c)
    \/ PromptBreaks(c) \/ KillDoomed(c) \/ CancelOwned(c) \/ PutBack(c)
    \/ Start(c) \/ SeeExit(c) \/ StopLeader(c) \/ Finish(c)

\* The steps of the caller that polls an attempt.
Poll(c) == CollectFails(c) \/ Reap(c) \/ CollectOutcome(c) \/ CollectTimeout(c)

Next ==
    \/ \E c \in Calls :
         \/ Reserve(c) \/ Claim(c) \/ OpenStreams(c) \/ Spawn(c) \/ SpawnFails(c)
         \/ WritePrompt(c) \/ PromptBreaks(c)
         \/ LaunchFails(c) \/ RemoveOwnSlot(c) \/ Install(c) \/ KillDoomed(c)
         \/ CollectFails(c) \/ Reap(c) \/ CollectOutcome(c) \/ CollectTimeout(c)
         \/ Cancel(c) \/ TakeOwned(c) \/ CancelOwned(c) \/ PutBack(c) \/ CancelOrphan(c)
         \/ Start(c) \/ StartFails(c) \/ SeeExit(c) \/ StopLeader(c) \/ Finish(c)
         \/ SpawnCommand(c)
         \/ Fork(c) \/ Exit(c) \/ ReaderFails(c) \/ ReadersEnd(c)
    \/ Crash

Spec == Init /\ [][Next]_vars

\* Threads keep running, a caller polls the attempt it invoked for ever, also
\* between visits of cancel_owned (hence SF), deadlines pass, and a pipe without
\* a writer is seen to end.  Processes owe nothing: a worker or a descendant of
\* one may run for ever, and may never read its prompt.
FairSpec ==
    /\ Spec
    /\ \A c \in Workers \cup Probes \cup Checks :
         WF_vars(Thread(c)) /\ WF_vars(ReadersEnd(c))
    /\ \A c \in Workers : SF_vars(Poll(c))

---------------------------------------------------------------------------
(* Properties *)

\* The permits bound the reader threads of the whole process, also those of
\* attempts that were cancelled, timed out or replaced while a pipe was open
\* (CAPTURE_SLOTS, harness.rs).
ReadersBounded == Cardinality({c \in Workers \cup Probes : reading[c]}) <= Slots

\* A worker whose process runs is held by someone who will wait for it or kill
\* it: no order of invoke, cancel, cancel_owned and collection loses a child.
\* Only a crash of the owner leaves one behind.
WorkerIsHeld ==
    \A c \in Workers :
        "leader" \in parts[c] /\ over[c] # "crashed" =>
            place[c] \in {"thread", "slot", "taken", "tested", "doomed"}

\* cancel_owned answers Ok only for a tree that has no process left, and then
\* none appears again.
AppliedMeansEmpty == \A c \in Workers : over[c] = "applied" => parts[c] = {}

\* After a POSIX cancel_owned no capture failure, timeout or cancel signals the
\* reaped number again ("No later capture timeout may signal that identity").
NoSignalAfterOwnedCancel == "owned" \notin late

\* The write ends of a call's pipes are in its own tree only, so the end of
\* file does not wait for a command that has nothing to do with it.
PipesStayInTree == \A c \in Calls : ~leaks[c]

\* The thread of the call is in the write of its prompt and somebody still has
\* the pipe's read end.
WritingPrompt(c) == pc[c] = "prompting" /\ PipeHeld(c)

\* A probe ends, and so does an invoke that got its permit, with an outcome, a
\* fault or at the deadline, whatever its process and the descendants do; except
\* that a worker which never reads the prompt piped to it keeps its call, and the
\* call its permit, for ever.
CallEnds ==
    <>[](\A c \in Workers \cup Probes : pc[c] \in {"idle", "over"} \/ WritingPrompt(c))

\* A cancel that found the attempt's slot, even one still being launched or being
\* cancelled by its owner, ends its leader, unless the process dies first; except
\* that a cancel during the write of the prompt only takes the slot, and the
\* leader lives until it has read the prompt or ends by itself.
CancelStops ==
    <>[](\A c \in Workers :
            over[c] = "cancelled" => "leader" \notin parts[c] \/ WritingPrompt(c))

\* Nothing escapes its owner: no reader its permit, no worker the registry, no
\* pipe the tree of its process (CapturePermit, invoke, spawn_guard).
NothingEscapes == TypeOK /\ ReadersBounded /\ WorkerIsHeld /\ PipesStayInTree

\* A cancellation the owner reports as applied is final: the tree is empty and no
\* signal goes to a number that may belong to somebody else (cancel_owned).
OwnedCancelIsFinal == AppliedMeansEmpty /\ NoSignalAfterOwnedCancel

\* Calls and cancellations come to an end, but for a prompt nobody reads.
CallsEnd == CallEnds /\ CancelStops
=============================================================================
