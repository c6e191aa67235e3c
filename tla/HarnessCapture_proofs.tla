------------------------ MODULE HarnessCapture_proofs ------------------------
(***************************************************************************)
(* Proofs about the processes and readers of CliHarness, for any calls,    *)
(* keys, number of permits and faults, on both hosts.                      *)
(*                                                                         *)
(* The argument: where the thread of a call is says who holds its child    *)
(* and what of it has been tried (Knows); a child is only let go of when   *)
(* its leader is dead or its owner object kills it; and a step gives a     *)
(* permit to at most the call that reserved one (PermitsKept).             *)
(***************************************************************************)
EXTENDS HarnessCapture, FiniteSetTheorems, TLAPS

Before == {"idle", "reserved", "claimed", "opened"}
Filed == {"slot", "taken", "tested", "doomed"}

\* What the place of a call's record says of its thread and of its tree.
Knows ==
  \A c \in Calls :
    /\ pc[c] \in Before => place[c] = "none" /\ over[c] # "applied"
    /\ pc[c] \in {"prompting", "launched"} => place[c] = "thread"
    /\ pc[c] = "unwind" => place[c] \in {"none", "gone"}
    /\ place[c] = "thread" => pc[c] \in {"prompting", "launched", "draining"} /\ over[c] # "applied"
    /\ place[c] \in {"slot", "taken", "tested"} => pc[c] \in {"invoked", "over"}
    /\ place[c] \in {"none", "thread", "gone"} => ~tried[c] /\ ~status[c]
    /\ status[c] => "leader" \notin parts[c]
    /\ place[c] \in Filed /\ ~child[c] => "leader" \notin parts[c]
    /\ place[c] \in {"thread", "taken"} => child[c]
    /\ host = "posix" => /\ tried[c] => ~child[c]
                         /\ place[c] = "tested" => "leader" \notin parts[c]

\* The holders of permits, and their number.
Holders == {c \in Workers \cup Probes : HoldsPermit(c)}
Permits == IsFiniteSet(Holders) /\ Captures <= Slots

Safe == WorkerIsHeld /\ PipesStayInTree /\ AppliedMeansEmpty /\ NoSignalAfterOwnedCancel
IInv == TypeOK /\ Knows /\ Safe /\ Permits

-----------------------------------------------------------------------------
(* Permits: a step that lets nobody new hold one keeps them within Slots. *)

\* Nobody holds a permit after the step who did not hold one before.
NoNewHolder == \A d \in Workers \cup Probes : HoldsPermit(d)' => HoldsPermit(d)

\* Releasing permits keeps CAPTURES within CAPTURE_SLOTS (CapturePermit, Drop).
LEMMA PermitsKept ==
  ASSUME Permits, NoNewHolder
  PROVE  Permits'
<1>1. Holders' \subseteq Holders
  BY DEF NoNewHolder, Holders
<1>2. IsFiniteSet(Holders') /\ Cardinality(Holders') <= Cardinality(Holders)
  BY <1>1, FS_Subset DEF Permits
<1>3. Cardinality(Holders) \in Nat /\ Cardinality(Holders') \in Nat
  BY <1>2, FS_CardinalityType DEF Permits
<1> QED
  BY <1>2, <1>3, HarnessAssumption DEF Permits, Captures, Holders

\* CapturePermit::reserve: compare and increment while there is one left.
LEMMA PermitReserved ==
  ASSUME TypeOK, Permits, NEW c \in Calls, Reserve(c)
  PROVE  Permits'
<1>1. CASE Captures < Slots
  <2>1. \A d \in Workers \cup Probes : d # c => (HoldsPermit(d)' => HoldsPermit(d))
    BY <1>1 DEF Reserve, HoldsPermit, TypeOK, Calls, registry, capture
  <2>2. Holders' \subseteq Holders \cup {c}
    BY <2>1 DEF Holders
  <2>3. IsFiniteSet(Holders \cup {c})
    BY FS_AddElement DEF Permits
  <2>4. Cardinality(Holders \cup {c}) <= Cardinality(Holders) + 1 /\ Cardinality(Holders) \in Nat
    <3>1. Cardinality(Holders) \in Nat
      BY FS_CardinalityType DEF Permits
    <3>2. Cardinality(Holders \cup {c}) \in {Cardinality(Holders), Cardinality(Holders) + 1}
      BY FS_AddElement DEF Permits
    <3> QED
      BY <3>1, <3>2
  <2>5. IsFiniteSet(Holders') /\ Cardinality(Holders') <= Cardinality(Holders \cup {c})
    BY <2>2, <2>3, FS_Subset
  <2>6. Cardinality(Holders') \in Nat /\ Cardinality(Holders \cup {c}) \in Nat
    BY <2>3, <2>5, FS_CardinalityType
  <2> QED
    BY <1>1, <2>4, <2>5, <2>6, HarnessAssumption DEF Permits, Captures, Holders
<1>2. CASE ~(Captures < Slots)
  <2>1. NoNewHolder
    BY <1>2 DEF Reserve, Ends, HoldsPermit, NoNewHolder, TypeOK, Calls, registry, capture
  <2> QED
    BY <2>1, PermitsKept
<1> QED
  BY <1>1, <1>2

\* A reader holds a permit, so the permits bound the readers.
LEMMA ReadersHoldPermits ==
  ASSUME Permits
  PROVE  ReadersBounded
<1> DEFINE R == {c \in Workers \cup Probes : reading[c]}
<1>1. R \subseteq Holders
  BY DEF Holders, HoldsPermit
<1>2. IsFiniteSet(R) /\ Cardinality(R) <= Cardinality(Holders)
  BY <1>1, FS_Subset DEF Permits
<1>3. Cardinality(R) \in Nat /\ Cardinality(Holders) \in Nat
  BY <1>2, FS_CardinalityType DEF Permits
<1> QED
  BY <1>2, <1>3, HarnessAssumption DEF Permits, Captures, Holders, ReadersBounded

-----------------------------------------------------------------------------
(* The inductive invariant, and one case per action. *)

\* No call has started.
LEMMA InitHolds == Init => IInv
<1> SUFFICES ASSUME Init PROVE IInv
  OBVIOUS
<1>1. TypeOK
  BY HarnessAssumption DEF Init, TypeOK, Calls, Part
<1>2. Knows /\ Safe
  BY HarnessAssumption DEF Init, Knows, Safe, WorkerIsHeld, PipesStayInTree, AppliedMeansEmpty,
     NoSignalAfterOwnedCancel, Before, Filed, Calls
<1>3. Holders = {}
  <2>1. ASSUME NEW c \in Workers \cup Probes PROVE ~HoldsPermit(c)
    BY HarnessAssumption DEF Init, HoldsPermit, Calls
  <2> QED
    BY <2>1 DEF Holders
<1>4. Permits
  <2>1. Captures = Cardinality(Holders)
    BY DEF Captures, Holders
  <2>2. IsFiniteSet(Holders) /\ Cardinality(Holders) = 0
    BY <1>3, FS_EmptySet
  <2> QED
    BY <2>1, <2>2, HarnessAssumption DEF Permits
<1> QED
  BY <1>1, <1>2, <1>4 DEF IInv

\* What one step has to keep; permits apart.
Kept == TypeOK' /\ Knows' /\ Safe' /\ NoNewHolder

\* The permit is the caller's own; PermitReserved says what it adds.
LEMMA ReserveKeeps ==
  ASSUME IInv, NEW c \in Calls, Reserve(c)
  PROVE  TypeOK' /\ Knows' /\ Safe'
<1> USE HarnessAssumption DEF IInv, Calls, Reserve, Ends, registry, capture, world
<1>1. TypeOK'
  BY DEF TypeOK, Part
<1>2. Knows'
  BY DEF TypeOK, Knows, Before, Filed, Part
<1>3. Safe'
  BY DEF TypeOK, Knows, Safe, WorkerIsHeld, PipesStayInTree, AppliedMeansEmpty,
     NoSignalAfterOwnedCancel, Before, Filed, Part
<1> QED
  BY <1>1, <1>2, <1>3

\* The permit token moves into the slot, or the call ends without one.
LEMMA ClaimKeeps ==
  ASSUME IInv, NEW c \in Calls, Claim(c)
  PROVE  Kept
<1> USE HarnessAssumption DEF IInv, Calls, Claim, Ends, registry, capture, world
<1>1. TypeOK'
  BY DEF TypeOK, Part
<1>2. Knows'
  BY DEF TypeOK, Knows, Before, Filed, Part
<1>3. Safe'
  BY DEF TypeOK, Knows, Safe, WorkerIsHeld, PipesStayInTree, AppliedMeansEmpty,
     NoSignalAfterOwnedCancel, Before, Filed, Part
<1>4. NoNewHolder
  BY DEF TypeOK, Knows, NoNewHolder, HoldsPermit, Before, Filed
<1> QED
  BY <1>1, <1>2, <1>3, <1>4 DEF Kept

\* Only the launch lock's holder has inheritable pipe ends.
LEMMA OpenStreamsKeeps ==
  ASSUME IInv, NEW c \in Calls, OpenStreams(c)
  PROVE  Kept
<1> USE HarnessAssumption DEF IInv, Calls, OpenStreams, Launching, LaunchLockFree,
       registry, capture, world
<1>1. TypeOK'
  BY DEF TypeOK, Part
<1>2. Knows'
  BY DEF TypeOK, Knows, Before, Filed, Part
<1>3. Safe'
  BY DEF TypeOK, Knows, Safe, WorkerIsHeld, PipesStayInTree, AppliedMeansEmpty,
     NoSignalAfterOwnedCancel, Before, Filed, Part
<1>4. NoNewHolder
  BY DEF TypeOK, Knows, NoNewHolder, HoldsPermit, Before, Filed
<1> QED
  BY <1>1, <1>2, <1>3, <1>4 DEF Kept

\* The child and its readers come under the launching thread, with its permit.
LEMMA SpawnKeeps ==
  ASSUME IInv, NEW c \in Calls, Spawn(c)
  PROVE  Kept
<1> USE HarnessAssumption DEF IInv, Calls, Spawn, Launching, registry, capture, world
<1>1. TypeOK'
  BY DEF TypeOK, Part
<1>2. Knows'
  BY DEF TypeOK, Knows, Before, Filed, Part
<1>3. Safe'
  BY DEF TypeOK, Knows, Safe, WorkerIsHeld, PipesStayInTree, AppliedMeansEmpty,
     NoSignalAfterOwnedCancel, Before, Filed, Part
<1>4. NoNewHolder
  BY DEF TypeOK, Knows, NoNewHolder, HoldsPermit, Before, Filed
<1> QED
  BY <1>1, <1>2, <1>3, <1>4 DEF Kept

\* The child stays with the launching thread.
LEMMA WritePromptKeeps ==
  ASSUME IInv, NEW c \in Calls, WritePrompt(c)
  PROVE  Kept
<1> USE HarnessAssumption DEF IInv, Calls, WritePrompt, registry, capture, world
<1>1. TypeOK'
  BY DEF TypeOK, Part
<1>2. Knows'
  BY DEF TypeOK, Knows, Before, Filed, Part
<1>3. Safe'
  BY DEF TypeOK, Knows, Safe, WorkerIsHeld, PipesStayInTree, AppliedMeansEmpty,
     NoSignalAfterOwnedCancel, Before, Filed, Part
<1>4. NoNewHolder
  BY DEF TypeOK, Knows, NoNewHolder, HoldsPermit, Before, Filed
<1> QED
  BY <1>1, <1>2, <1>3, <1>4 DEF Kept

\* Nobody has the pipe: no process of the tree is left to hold.
LEMMA PromptBreaksKeeps ==
  ASSUME IInv, NEW c \in Calls, PromptBreaks(c)
  PROVE  Kept
<1> USE HarnessAssumption DEF IInv, Calls, PromptBreaks, PipeHeld, Gone, registry,
       capture, world
<1>1. TypeOK'
  BY DEF TypeOK, Part
<1>2. Knows'
  BY DEF TypeOK, Knows, Before, Filed, Part
<1>3. Safe'
  BY DEF TypeOK, Knows, Safe, WorkerIsHeld, PipesStayInTree, AppliedMeansEmpty,
     NoSignalAfterOwnedCancel, Before, Filed, Part
<1>4. NoNewHolder
  BY DEF TypeOK, Knows, NoNewHolder, HoldsPermit, Before, Filed
<1> QED
  BY <1>1, <1>2, <1>3, <1>4 DEF Kept

\* Nothing was started.
LEMMA SpawnFailsKeeps ==
  ASSUME IInv, NEW c \in Calls, SpawnFails(c)
  PROVE  Kept
<1> USE HarnessAssumption DEF IInv, Calls, SpawnFails, Launching, Fault, registry,
       capture, world
<1>1. TypeOK'
  BY DEF TypeOK, Part
<1>2. Knows'
  BY DEF TypeOK, Knows, Before, Filed, Part
<1>3. Safe'
  BY DEF TypeOK, Knows, Safe, WorkerIsHeld, PipesStayInTree, AppliedMeansEmpty,
     NoSignalAfterOwnedCancel, Before, Filed, Part
<1>4. NoNewHolder
  BY DEF TypeOK, Knows, NoNewHolder, HoldsPermit, Before, Filed
<1> QED
  BY <1>1, <1>2, <1>3, <1>4 DEF Kept

\* kill_tree ends the leader before the child is dropped.
LEMMA LaunchFailsKeeps ==
  ASSUME IInv, NEW c \in Calls, LaunchFails(c)
  PROVE  Kept
<1> USE HarnessAssumption DEF IInv, Calls, LaunchFails, Fault, Gone, DropOwner,
       KillTree, Group, registry, capture, world
<1>1. TypeOK'
  BY DEF TypeOK, Part
<1>2. Knows'
  BY DEF TypeOK, Knows, Before, Filed, Part
<1>3. Safe'
  BY DEF TypeOK, Knows, Safe, WorkerIsHeld, PipesStayInTree, AppliedMeansEmpty,
     NoSignalAfterOwnedCancel, Before, Filed, Part
<1>4. NoNewHolder
  BY DEF TypeOK, Knows, NoNewHolder, HoldsPermit, Before, Filed
<1> QED
  BY <1>1, <1>2, <1>3, <1>4 DEF Kept

\* Only the call's own reservation goes; its record is not in it.
LEMMA RemoveOwnSlotKeeps ==
  ASSUME IInv, NEW c \in Calls, RemoveOwnSlot(c)
  PROVE  Kept
<1> USE HarnessAssumption DEF IInv, Calls, RemoveOwnSlot, Ends, registry, capture, world
<1>1. TypeOK'
  <2>1. CASE slot[KeyOf[c]] = c
    BY <2>1 DEF TypeOK, Part, Knows
  <2>2. CASE slot[KeyOf[c]] # c
    BY <2>2 DEF TypeOK, Part, Knows
  <2> QED
    BY <2>1, <2>2
<1>2. Knows'
  BY DEF TypeOK, Knows, Before, Filed, Part
<1>3. Safe'
  BY DEF TypeOK, Knows, Safe, WorkerIsHeld, PipesStayInTree, AppliedMeansEmpty,
     NoSignalAfterOwnedCancel, Before, Filed, Part
<1>4. NoNewHolder
  BY DEF TypeOK, Knows, NoNewHolder, HoldsPermit, Before, Filed
<1> QED
  BY <1>1, <1>2, <1>3, <1>4 DEF Kept

\* The record is filed under its own reservation, or its thread will kill it.
LEMMA InstallKeeps ==
  ASSUME IInv, NEW c \in Calls, Install(c)
  PROVE  Kept
<1> USE HarnessAssumption DEF IInv, Calls, Install, Ends, registry, capture, world
<1>1. TypeOK'
  BY DEF TypeOK, Part
<1>2. Knows'
  BY DEF TypeOK, Knows, Before, Filed, Part
<1>3. Safe'
  BY DEF TypeOK, Knows, Safe, WorkerIsHeld, PipesStayInTree, AppliedMeansEmpty,
     NoSignalAfterOwnedCancel, Before, Filed, Part
<1>4. NoNewHolder
  BY DEF TypeOK, Knows, NoNewHolder, HoldsPermit, Before, Filed
<1> QED
  BY <1>1, <1>2, <1>3, <1>4 DEF Kept

\* A released child is dead already; any other is killed before it is dropped.
LEMMA KillDoomedKeeps ==
  ASSUME IInv, NEW c \in Calls, KillDoomed(c)
  PROVE  Kept
<1> USE HarnessAssumption DEF IInv, Calls, KillDoomed, DropOwner, KillTree, Group,
       Stale, Gone, registry, capture, world
<1>1. TypeOK'
  BY DEF TypeOK, Part
<1>2. Knows'
  BY DEF TypeOK, Knows, Before, Filed, Part
<1>3. Safe'
  BY DEF TypeOK, Knows, Safe, WorkerIsHeld, PipesStayInTree, AppliedMeansEmpty,
     NoSignalAfterOwnedCancel, Before, Filed, Part
<1>4. NoNewHolder
  BY DEF TypeOK, Knows, NoNewHolder, HoldsPermit, Before, Filed
<1> QED
  BY <1>1, <1>2, <1>3, <1>4 DEF Kept

\* The record leaves the registry with the thread that will kill its child.
LEMMA CollectFailsKeeps ==
  ASSUME IInv, NEW c \in Calls, CollectFails(c)
  PROVE  Kept
<1> USE HarnessAssumption DEF IInv, Calls, CollectFails, Registered, Fault, Doom, Ends,
       registry, capture, world
<1>1. TypeOK'
  BY DEF TypeOK, Part
<1>2. Knows'
  BY DEF TypeOK, Knows, Before, Filed, Part
<1>3. Safe'
  BY DEF TypeOK, Knows, Safe, WorkerIsHeld, PipesStayInTree, AppliedMeansEmpty,
     NoSignalAfterOwnedCancel, Before, Filed, Part
<1>4. NoNewHolder
  BY DEF TypeOK, Knows, NoNewHolder, HoldsPermit, Before, Filed
<1> QED
  BY <1>1, <1>2, <1>3, <1>4 DEF Kept

\* The leader has exited; the child is kept.
LEMMA ReapKeeps ==
  ASSUME IInv, NEW c \in Calls, Reap(c)
  PROVE  Kept
<1> USE HarnessAssumption DEF IInv, Calls, Reap, Registered, registry, capture, world
<1>1. TypeOK'
  BY DEF TypeOK, Part
<1>2. Knows'
  BY DEF TypeOK, Knows, Before, Filed, Part
<1>3. Safe'
  BY DEF TypeOK, Knows, Safe, WorkerIsHeld, PipesStayInTree, AppliedMeansEmpty,
     NoSignalAfterOwnedCancel, Before, Filed, Part
<1>4. NoNewHolder
  BY DEF TypeOK, Knows, NoNewHolder, HoldsPermit, Before, Filed
<1> QED
  BY <1>1, <1>2, <1>3, <1>4 DEF Kept

\* The leader was reaped and the readers have ended.
LEMMA CollectOutcomeKeeps ==
  ASSUME IInv, NEW c \in Calls, CollectOutcome(c)
  PROVE  Kept
<1> USE HarnessAssumption DEF IInv, Calls, CollectOutcome, Registered, Gone, Ends,
       DropOwner, registry, capture, world
<1>1. TypeOK'
  BY DEF TypeOK, Part
<1>2. Knows'
  BY DEF TypeOK, Knows, Before, Filed, Part
<1>3. Safe'
  BY DEF TypeOK, Knows, Safe, WorkerIsHeld, PipesStayInTree, AppliedMeansEmpty,
     NoSignalAfterOwnedCancel, Before, Filed, Part
<1>4. NoNewHolder
  BY DEF TypeOK, Knows, NoNewHolder, HoldsPermit, Before, Filed
<1> QED
  BY <1>1, <1>2, <1>3, <1>4 DEF Kept

\* The record leaves the registry with the thread that will kill its child.
LEMMA CollectTimeoutKeeps ==
  ASSUME IInv, NEW c \in Calls, CollectTimeout(c)
  PROVE  Kept
<1> USE HarnessAssumption DEF IInv, Calls, CollectTimeout, Registered, Doom, Ends,
       registry, capture, world
<1>1. TypeOK'
  BY DEF TypeOK, Part
<1>2. Knows'
  BY DEF TypeOK, Knows, Before, Filed, Part
<1>3. Safe'
  BY DEF TypeOK, Knows, Safe, WorkerIsHeld, PipesStayInTree, AppliedMeansEmpty,
     NoSignalAfterOwnedCancel, Before, Filed, Part
<1>4. NoNewHolder
  BY DEF TypeOK, Knows, NoNewHolder, HoldsPermit, Before, Filed
<1> QED
  BY <1>1, <1>2, <1>3, <1>4 DEF Kept

\* The slot goes; a record in it goes with the cancelling thread.
LEMMA CancelKeeps ==
  ASSUME IInv, NEW c \in Calls, Cancel(c)
  PROVE  Kept
<1> USE HarnessAssumption DEF IInv, Calls, Cancel, registry, capture, world
<1>1. TypeOK'
  BY DEF TypeOK, Part
<1>2. Knows'
  BY DEF TypeOK, Knows, Before, Filed, Part
<1>3. Safe'
  BY DEF TypeOK, Knows, Safe, WorkerIsHeld, PipesStayInTree, AppliedMeansEmpty,
     NoSignalAfterOwnedCancel, Before, Filed, Part
<1>4. NoNewHolder
  BY DEF TypeOK, Knows, NoNewHolder, HoldsPermit, Before, Filed
<1> QED
  BY <1>1, <1>2, <1>3, <1>4 DEF Kept

\* The record moves from its slot to the owner's thread.
LEMMA TakeOwnedKeeps ==
  ASSUME IInv, NEW c \in Calls, TakeOwned(c)
  PROVE  Kept
<1> USE HarnessAssumption DEF IInv, Calls, TakeOwned, Registered, registry, capture, world
<1>1. TypeOK'
  BY DEF TypeOK, Part
<1>2. Knows'
  BY DEF TypeOK, Knows, Before, Filed, Part
<1>3. Safe'
  BY DEF TypeOK, Knows, Safe, WorkerIsHeld, PipesStayInTree, AppliedMeansEmpty,
     NoSignalAfterOwnedCancel, Before, Filed, Part
<1>4. NoNewHolder
  BY DEF TypeOK, Knows, NoNewHolder, HoldsPermit, Before, Filed
<1> QED
  BY <1>1, <1>2, <1>3, <1>4 DEF Kept

\* Ok only for an empty job; a released POSIX child is dead.
LEMMA CancelOwnedKeeps ==
  ASSUME IInv, NEW c \in Calls, CancelOwned(c)
  PROVE  Kept
<1> USE HarnessAssumption DEF IInv, Calls, CancelOwned, KillTree, Group, Fault,
       registry, capture, world
<1>1. TypeOK'
  <2>1. /\ parts' \in [Calls -> SUBSET Part]
        /\ (\A d \in Calls : host' = "windows" => "stray" \notin parts'[d])
    <3>1. parts = [parts EXCEPT ![c] = @] /\ \E ps \in SUBSET parts[c] : parts' = [parts EXCEPT ![c] = ps]
      BY DEF TypeOK
    <3>2. PICK ps \in SUBSET parts[c] : parts' = [parts EXCEPT ![c] = ps]
      BY <3>1
    <3> QED
      BY <3>2 DEF TypeOK
  <2>2. \A d \in Workers : place'[d] = "slot" => slot'[KeyOf[d]] = d
    BY DEF TypeOK
  <2>3. /\ pc' \in [Calls -> {"idle", "reserved", "claimed", "opened", "prompting",
                             "launched", "unwind", "invoked", "draining", "over"}]
        /\ place' \in [Calls -> {"none", "thread", "slot", "taken", "tested", "doomed", "gone"}]
        /\ over' \in [Calls -> {"none", "ended", "cancelled", "applied", "crashed"}]
    BY DEF TypeOK
  <2>4. /\ child' = child \/ child' = [child EXCEPT ![c] = FALSE]
        /\ status' = status \/ status' = [status EXCEPT ![c] = TRUE]
        /\ tried' = tried \/ tried' = [tried EXCEPT ![c] = TRUE]
    OBVIOUS
  <2>5. /\ child \in [Calls -> BOOLEAN]
        /\ tried \in [Calls -> BOOLEAN]
        /\ status \in [Calls -> BOOLEAN]
        /\ reading \in [Calls -> BOOLEAN]
        /\ failed \in [Calls -> BOOLEAN]
    BY DEF TypeOK
  <2>6. /\ child' \in [Calls -> BOOLEAN]
        /\ status' \in [Calls -> BOOLEAN]
        /\ tried' \in [Calls -> BOOLEAN]
    BY <2>4, <2>5, Zenon
  <2> QED
    BY <2>1, <2>2, <2>3, <2>5, <2>6 DEF TypeOK
<1>2. Knows'
  BY DEF TypeOK, Knows, Before, Filed, Part
<1>3. Safe'
  <2>1. WorkerIsHeld'
    BY DEF TypeOK, Knows, Safe, WorkerIsHeld, Filed, Part
  <2>2. AppliedMeansEmpty'
    <3>1. \A d \in Workers \ {c} : over'[d] = over[d] /\ parts'[d] = parts[d]
      BY DEF TypeOK
    <3>2. c \in Workers /\ over'[c] = "applied" => parts'[c] = {}
      <4>1. over[c] = "applied" /\ c \in Workers => parts[c] = {}
        BY DEF Safe, AppliedMeansEmpty
      <4>2. parts'[c] \subseteq parts[c]
        BY DEF TypeOK
      <4>3. over'[c] # over[c] => parts'[c] = {}
        BY DEF TypeOK
      <4> QED
        BY <4>1, <4>2, <4>3 DEF TypeOK, Knows
    <3> QED
      BY <3>1, <3>2 DEF Safe, AppliedMeansEmpty
  <2>3. PipesStayInTree' /\ NoSignalAfterOwnedCancel'
    BY DEF Safe, PipesStayInTree, NoSignalAfterOwnedCancel
  <2> QED
    BY <2>1, <2>2, <2>3 DEF Safe
<1>4. NoNewHolder
  BY DEF TypeOK, Knows, NoNewHolder, HoldsPermit, Before, Filed
<1> QED
  BY <1>1, <1>2, <1>3, <1>4 DEF Kept

\* Back into its own reservation; otherwise nothing of it is still running.
LEMMA PutBackKeeps ==
  ASSUME IInv, NEW c \in Calls, PutBack(c)
  PROVE  Kept
<1> USE HarnessAssumption DEF IInv, Calls, PutBack, Gone, DropOwner, registry, capture,
       world
<1>1. TypeOK'
  <2>1. /\ parts' \in [Calls -> SUBSET Part]
        /\ (\A d \in Calls : host' = "windows" => "stray" \notin parts'[d])
    BY DEF TypeOK, Part
  <2>2. \A d \in Workers : place'[d] = "slot" => slot'[KeyOf[d]] = d
    BY DEF TypeOK
  <2>3. /\ pc' \in [Calls -> {"idle", "reserved", "claimed", "opened", "prompting",
                             "launched", "unwind", "invoked", "draining", "over"}]
        /\ place' \in [Calls -> {"none", "thread", "slot", "taken", "tested", "doomed", "gone"}]
        /\ over' \in [Calls -> {"none", "ended", "cancelled", "applied", "crashed"}]
    BY DEF TypeOK
  <2>4. /\ child' = child \/ child' = [child EXCEPT ![c] = FALSE]
        /\ status' = status \/ status' = [status EXCEPT ![c] = FALSE]
        /\ tried' = tried \/ tried' = [tried EXCEPT ![c] = FALSE]
        /\ failed' = failed \/ failed' = [failed EXCEPT ![c] = FALSE]
    OBVIOUS
  <2>5. /\ child \in [Calls -> BOOLEAN]
        /\ tried \in [Calls -> BOOLEAN]
        /\ status \in [Calls -> BOOLEAN]
        /\ reading \in [Calls -> BOOLEAN]
        /\ failed \in [Calls -> BOOLEAN]
    BY DEF TypeOK
  <2>6. /\ child' \in [Calls -> BOOLEAN]
        /\ status' \in [Calls -> BOOLEAN]
        /\ tried' \in [Calls -> BOOLEAN]
        /\ failed' \in [Calls -> BOOLEAN]
    BY <2>4, <2>5, Zenon
  <2> QED
    BY <2>1, <2>2, <2>3, <2>5, <2>6 DEF TypeOK
<1>2. Knows'
  BY DEF TypeOK, Knows, Before, Filed, Part
<1>3. Safe'
  BY DEF TypeOK, Knows, Safe, WorkerIsHeld, PipesStayInTree, AppliedMeansEmpty,
     NoSignalAfterOwnedCancel, Before, Filed, Part
<1>4. NoNewHolder
  BY DEF TypeOK, Knows, NoNewHolder, HoldsPermit, Before, Filed
<1> QED
  BY <1>1, <1>2, <1>3, <1>4 DEF Kept

\* The attempt has no record any more.
LEMMA CancelOrphanKeeps ==
  ASSUME IInv, NEW c \in Calls, CancelOrphan(c)
  PROVE  Kept
<1> USE HarnessAssumption DEF IInv, Calls, CancelOrphan, KillTree, Group, registry,
       capture, world
<1>1. TypeOK'
  BY DEF TypeOK, Part
<1>2. Knows'
  BY DEF TypeOK, Knows, Before, Filed, Part
<1>3. Safe'
  BY DEF TypeOK, Knows, Safe, WorkerIsHeld, PipesStayInTree, AppliedMeansEmpty,
     NoSignalAfterOwnedCancel, Before, Filed, Part
<1>4. NoNewHolder
  BY DEF TypeOK, Knows, NoNewHolder, HoldsPermit, Before, Filed
<1> QED
  BY <1>1, <1>2, <1>3, <1>4 DEF Kept

\* The child and its readers come under the calling thread, with its permit.
LEMMA StartKeeps ==
  ASSUME IInv, NEW c \in Calls, Start(c)
  PROVE  Kept
<1> USE HarnessAssumption DEF IInv, Calls, Start, Launching, registry, capture, world
<1>1. TypeOK'
  BY DEF TypeOK, Part
<1>2. Knows'
  BY DEF TypeOK, Knows, Before, Filed, Part
<1>3. Safe'
  BY DEF TypeOK, Knows, Safe, WorkerIsHeld, PipesStayInTree, AppliedMeansEmpty,
     NoSignalAfterOwnedCancel, Before, Filed, Part
<1>4. NoNewHolder
  BY DEF TypeOK, Knows, NoNewHolder, HoldsPermit, Before, Filed
<1> QED
  BY <1>1, <1>2, <1>3, <1>4 DEF Kept

\* Nothing was started.
LEMMA StartFailsKeeps ==
  ASSUME IInv, NEW c \in Calls, StartFails(c)
  PROVE  Kept
<1> USE HarnessAssumption DEF IInv, Calls, StartFails, Launching, Fault, Ends,
       registry, capture, world
<1>1. TypeOK'
  BY DEF TypeOK, Part
<1>2. Knows'
  BY DEF TypeOK, Knows, Before, Filed, Part
<1>3. Safe'
  BY DEF TypeOK, Knows, Safe, WorkerIsHeld, PipesStayInTree, AppliedMeansEmpty,
     NoSignalAfterOwnedCancel, Before, Filed, Part
<1>4. NoNewHolder
  BY DEF TypeOK, Knows, NoNewHolder, HoldsPermit, Before, Filed
<1> QED
  BY <1>1, <1>2, <1>3, <1>4 DEF Kept

\* A probe drops its child, a check keeps it; both hold their permit.
LEMMA SeeExitKeeps ==
  ASSUME IInv, NEW c \in Calls, SeeExit(c)
  PROVE  Kept
<1> USE HarnessAssumption DEF IInv, Calls, SeeExit, Gone, DropOwner, registry, capture,
       world
<1>1. TypeOK'
  <2>1. /\ parts' \in [Calls -> SUBSET Part]
        /\ (\A d \in Calls : host' = "windows" => "stray" \notin parts'[d])
    BY DEF TypeOK, Part
  <2>2. \A d \in Workers : place'[d] = "slot" => slot'[KeyOf[d]] = d
    BY DEF TypeOK
  <2>3. /\ pc' \in [Calls -> {"idle", "reserved", "claimed", "opened", "prompting",
                             "launched", "unwind", "invoked", "draining", "over"}]
        /\ place' \in [Calls -> {"none", "thread", "slot", "taken", "tested", "doomed", "gone"}]
        /\ over' \in [Calls -> {"none", "ended", "cancelled", "applied", "crashed"}]
    BY DEF TypeOK
  <2>4. /\ child' = child \/ child' = [child EXCEPT ![c] = FALSE]
        /\ status' = status \/ status' = [status EXCEPT ![c] = FALSE]
        /\ tried' = tried \/ tried' = [tried EXCEPT ![c] = FALSE]
        /\ failed' = failed \/ failed' = [failed EXCEPT ![c] = FALSE]
    OBVIOUS
  <2>5. /\ child \in [Calls -> BOOLEAN]
        /\ tried \in [Calls -> BOOLEAN]
        /\ status \in [Calls -> BOOLEAN]
        /\ reading \in [Calls -> BOOLEAN]
        /\ failed \in [Calls -> BOOLEAN]
    BY DEF TypeOK
  <2>6. /\ child' \in [Calls -> BOOLEAN]
        /\ status' \in [Calls -> BOOLEAN]
        /\ tried' \in [Calls -> BOOLEAN]
        /\ failed' \in [Calls -> BOOLEAN]
    BY <2>4, <2>5, Zenon
  <2> QED
    BY <2>1, <2>2, <2>3, <2>5, <2>6 DEF TypeOK
<1>2. Knows'
  BY DEF TypeOK, Knows, Before, Filed, Part
<1>3. Safe'
  BY DEF TypeOK, Knows, Safe, WorkerIsHeld, PipesStayInTree, AppliedMeansEmpty,
     NoSignalAfterOwnedCancel, Before, Filed, Part
<1>4. NoNewHolder
  BY DEF TypeOK, Knows, NoNewHolder, HoldsPermit, Before, Filed
<1> QED
  BY <1>1, <1>2, <1>3, <1>4 DEF Kept

\* kill_tree ends the leader before the child is dropped.
LEMMA StopLeaderKeeps ==
  ASSUME IInv, NEW c \in Calls, StopLeader(c)
  PROVE  Kept
<1> USE HarnessAssumption DEF IInv, Calls, StopLeader, DropOwner, KillTree, Group,
       Gone, Ends, registry, capture, world
<1>1. TypeOK'
  BY DEF TypeOK, Part
<1>2. Knows'
  BY DEF TypeOK, Knows, Before, Filed, Part
<1>3. Safe'
  BY DEF TypeOK, Knows, Safe, WorkerIsHeld, PipesStayInTree, AppliedMeansEmpty,
     NoSignalAfterOwnedCancel, Before, Filed, Part
<1>4. NoNewHolder
  BY DEF TypeOK, Knows, NoNewHolder, HoldsPermit, Before, Filed
<1> QED
  BY <1>1, <1>2, <1>3, <1>4 DEF Kept

\* A probe that gives up leaves its permit to the reader.
LEMMA FinishKeeps ==
  ASSUME IInv, NEW c \in Calls, Finish(c)
  PROVE  Kept
<1> USE HarnessAssumption DEF IInv, Calls, Finish, Ends, DropOwner, Gone, registry,
       capture, world
<1>1. TypeOK'
  BY DEF TypeOK, Part
<1>2. Knows'
  BY DEF TypeOK, Knows, Before, Filed, Part
<1>3. Safe'
  BY DEF TypeOK, Knows, Safe, WorkerIsHeld, PipesStayInTree, AppliedMeansEmpty,
     NoSignalAfterOwnedCancel, Before, Filed, Part
<1>4. NoNewHolder
  BY DEF TypeOK, Knows, NoNewHolder, HoldsPermit, Before, Filed
<1> QED
  BY <1>1, <1>2, <1>3, <1>4 DEF Kept

\* A plain command starts while no call has inheritable pipe ends.
LEMMA SpawnCommandKeeps ==
  ASSUME IInv, NEW c \in Calls, SpawnCommand(c)
  PROVE  Kept
<1> USE HarnessAssumption DEF IInv, Calls, SpawnCommand, LaunchLockFree, Ends,
       registry, capture, world
<1>1. TypeOK'
  BY DEF TypeOK, Part
<1>2. Knows'
  BY DEF TypeOK, Knows, Before, Filed, Part
<1>3. Safe'
  BY DEF TypeOK, Knows, Safe, WorkerIsHeld, PipesStayInTree, AppliedMeansEmpty,
     NoSignalAfterOwnedCancel, Before, Filed, Part
<1>4. NoNewHolder
  BY DEF TypeOK, Knows, NoNewHolder, HoldsPermit, Before, Filed
<1> QED
  BY <1>1, <1>2, <1>3, <1>4 DEF Kept

\* Only a tree whose leader runs grows.
LEMMA ForkKeeps ==
  ASSUME IInv, NEW c \in Calls, Fork(c)
  PROVE  Kept
<1> USE HarnessAssumption DEF IInv, Calls, Fork, registry, capture, world
<1>1. TypeOK'
  BY DEF TypeOK, Part
<1>2. Knows'
  BY DEF TypeOK, Knows, Before, Filed, Part
<1>3. Safe'
  BY DEF TypeOK, Knows, Safe, WorkerIsHeld, PipesStayInTree, AppliedMeansEmpty,
     NoSignalAfterOwnedCancel, Before, Filed, Part
<1>4. NoNewHolder
  BY DEF TypeOK, Knows, NoNewHolder, HoldsPermit, Before, Filed
<1> QED
  BY <1>1, <1>2, <1>3, <1>4 DEF Kept

\* A tree only gets smaller.
LEMMA ExitKeeps ==
  ASSUME IInv, NEW c \in Calls, Exit(c)
  PROVE  Kept
<1> USE HarnessAssumption DEF IInv, Calls, Exit, registry, capture, world
<1>1. TypeOK'
  BY DEF TypeOK, Part
<1>2. Knows'
  BY DEF TypeOK, Knows, Before, Filed, Part
<1>3. Safe'
  BY DEF TypeOK, Knows, Safe, WorkerIsHeld, PipesStayInTree, AppliedMeansEmpty,
     NoSignalAfterOwnedCancel, Before, Filed, Part
<1>4. NoNewHolder
  BY DEF TypeOK, Knows, NoNewHolder, HoldsPermit, Before, Filed
<1> QED
  BY <1>1, <1>2, <1>3, <1>4 DEF Kept

\* A reader that failed may still read.
LEMMA ReaderFailsKeeps ==
  ASSUME IInv, NEW c \in Calls, ReaderFails(c)
  PROVE  Kept
<1> USE HarnessAssumption DEF IInv, Calls, ReaderFails, PipeHeld, registry, capture, world
<1>1. TypeOK'
  BY DEF TypeOK, Part
<1>2. Knows'
  BY DEF TypeOK, Knows, Before, Filed, Part
<1>3. Safe'
  BY DEF TypeOK, Knows, Safe, WorkerIsHeld, PipesStayInTree, AppliedMeansEmpty,
     NoSignalAfterOwnedCancel, Before, Filed, Part
<1>4. NoNewHolder
  BY DEF TypeOK, Knows, NoNewHolder, HoldsPermit, Before, Filed
<1> QED
  BY <1>1, <1>2, <1>3, <1>4 DEF Kept

\* A reader that ends releases its permit.
LEMMA ReadersEndKeeps ==
  ASSUME IInv, NEW c \in Calls, ReadersEnd(c)
  PROVE  Kept
<1> USE HarnessAssumption DEF IInv, Calls, ReadersEnd, PipeHeld, registry, capture, world
<1>1. TypeOK'
  BY DEF TypeOK, Part
<1>2. Knows'
  BY DEF TypeOK, Knows, Before, Filed, Part
<1>3. Safe'
  BY DEF TypeOK, Knows, Safe, WorkerIsHeld, PipesStayInTree, AppliedMeansEmpty,
     NoSignalAfterOwnedCancel, Before, Filed, Part
<1>4. NoNewHolder
  BY DEF TypeOK, Knows, NoNewHolder, HoldsPermit, Before, Filed
<1> QED
  BY <1>1, <1>2, <1>3, <1>4 DEF Kept

\* The process dies: every permit is free again and every handle is closed.
LEMMA CrashKeeps ==
  ASSUME IInv, Crash
  PROVE  Kept
<1> USE HarnessAssumption DEF IInv, Calls, Crash, Fault, DropOwner
<1>1. TypeOK'
  BY DEF TypeOK, Part
<1>2. Knows'
  BY DEF TypeOK, Knows, Before, Filed, Part
<1>3. Safe'
  BY DEF TypeOK, Knows, Safe, WorkerIsHeld, PipesStayInTree, AppliedMeansEmpty,
     NoSignalAfterOwnedCancel, Before, Filed, Part
<1>4. NoNewHolder
  BY DEF TypeOK, Knows, NoNewHolder, HoldsPermit, Before, Filed
<1> QED
  BY <1>1, <1>2, <1>3, <1>4 DEF Kept

\* A step that lets nobody new hold a permit keeps the whole invariant.
LEMMA KeptIsEnough ==
  ASSUME IInv, Kept
  PROVE  IInv'
<1>1. Permits'
  BY PermitsKept DEF IInv, Kept
<1> QED
  BY <1>1 DEF IInv, Kept

\* One case per action.
LEMMA StepHolds == IInv /\ [Next]_vars => IInv'
<1> SUFFICES ASSUME IInv, [Next]_vars PROVE IInv'
  OBVIOUS
<1>1. ASSUME NEW c \in Calls, Reserve(c) PROVE IInv'
  <2>1. Permits'
    BY <1>1, PermitReserved DEF IInv
  <2> QED
    BY <1>1, <2>1, ReserveKeeps DEF IInv
<1>2. ASSUME NEW c \in Calls, Claim(c) PROVE IInv'
  BY <1>2, ClaimKeeps, KeptIsEnough
<1>3. ASSUME NEW c \in Calls, OpenStreams(c) PROVE IInv'
  BY <1>3, OpenStreamsKeeps, KeptIsEnough
<1>4. ASSUME NEW c \in Calls, Spawn(c) PROVE IInv'
  BY <1>4, SpawnKeeps, KeptIsEnough
<1>5. ASSUME NEW c \in Calls, SpawnFails(c) PROVE IInv'
  BY <1>5, SpawnFailsKeeps, KeptIsEnough
<1>6. ASSUME NEW c \in Calls, LaunchFails(c) PROVE IInv'
  BY <1>6, LaunchFailsKeeps, KeptIsEnough
<1>7. ASSUME NEW c \in Calls, RemoveOwnSlot(c) PROVE IInv'
  BY <1>7, RemoveOwnSlotKeeps, KeptIsEnough
<1>8. ASSUME NEW c \in Calls, Install(c) PROVE IInv'
  BY <1>8, InstallKeeps, KeptIsEnough
<1>9. ASSUME NEW c \in Calls, KillDoomed(c) PROVE IInv'
  BY <1>9, KillDoomedKeeps, KeptIsEnough
<1>10. ASSUME NEW c \in Calls, CollectFails(c) PROVE IInv'
  BY <1>10, CollectFailsKeeps, KeptIsEnough
<1>11. ASSUME NEW c \in Calls, Reap(c) PROVE IInv'
  BY <1>11, ReapKeeps, KeptIsEnough
<1>12. ASSUME NEW c \in Calls, CollectOutcome(c) PROVE IInv'
  BY <1>12, CollectOutcomeKeeps, KeptIsEnough
<1>13. ASSUME NEW c \in Calls, CollectTimeout(c) PROVE IInv'
  BY <1>13, CollectTimeoutKeeps, KeptIsEnough
<1>14. ASSUME NEW c \in Calls, Cancel(c) PROVE IInv'
  BY <1>14, CancelKeeps, KeptIsEnough
<1>15. ASSUME NEW c \in Calls, TakeOwned(c) PROVE IInv'
  BY <1>15, TakeOwnedKeeps, KeptIsEnough
<1>16. ASSUME NEW c \in Calls, CancelOwned(c) PROVE IInv'
  BY <1>16, CancelOwnedKeeps, KeptIsEnough
<1>17. ASSUME NEW c \in Calls, PutBack(c) PROVE IInv'
  BY <1>17, PutBackKeeps, KeptIsEnough
<1>18. ASSUME NEW c \in Calls, CancelOrphan(c) PROVE IInv'
  BY <1>18, CancelOrphanKeeps, KeptIsEnough
<1>19. ASSUME NEW c \in Calls, Start(c) PROVE IInv'
  BY <1>19, StartKeeps, KeptIsEnough
<1>20. ASSUME NEW c \in Calls, StartFails(c) PROVE IInv'
  BY <1>20, StartFailsKeeps, KeptIsEnough
<1>21. ASSUME NEW c \in Calls, SeeExit(c) PROVE IInv'
  BY <1>21, SeeExitKeeps, KeptIsEnough
<1>22. ASSUME NEW c \in Calls, StopLeader(c) PROVE IInv'
  BY <1>22, StopLeaderKeeps, KeptIsEnough
<1>23. ASSUME NEW c \in Calls, Finish(c) PROVE IInv'
  BY <1>23, FinishKeeps, KeptIsEnough
<1>24. ASSUME NEW c \in Calls, SpawnCommand(c) PROVE IInv'
  BY <1>24, SpawnCommandKeeps, KeptIsEnough
<1>25. ASSUME NEW c \in Calls, Fork(c) PROVE IInv'
  BY <1>25, ForkKeeps, KeptIsEnough
<1>26. ASSUME NEW c \in Calls, Exit(c) PROVE IInv'
  BY <1>26, ExitKeeps, KeptIsEnough
<1>27. ASSUME NEW c \in Calls, ReaderFails(c) PROVE IInv'
  BY <1>27, ReaderFailsKeeps, KeptIsEnough
<1>28. ASSUME NEW c \in Calls, ReadersEnd(c) PROVE IInv'
  BY <1>28, ReadersEndKeeps, KeptIsEnough
<1>29. CASE Crash
  BY <1>29, CrashKeeps, KeptIsEnough
<1>30. ASSUME NEW c \in Calls, WritePrompt(c) PROVE IInv'
  BY <1>30, WritePromptKeeps, KeptIsEnough
<1>31. ASSUME NEW c \in Calls, PromptBreaks(c) PROVE IInv'
  BY <1>31, PromptBreaksKeeps, KeptIsEnough
<1>32. CASE UNCHANGED vars
  <2>1. Kept
    BY <1>32 DEF IInv, Kept, TypeOK, Knows, Safe, WorkerIsHeld, PipesStayInTree, AppliedMeansEmpty,
       NoSignalAfterOwnedCancel, NoNewHolder, HoldsPermit, vars, registry, capture, world
  <2> QED
    BY <2>1, KeptIsEnough
<1> QED
  BY <1>1, <1>2, <1>3, <1>4, <1>5, <1>6, <1>7, <1>8, <1>9, <1>10, <1>11, <1>12, <1>13,
     <1>14, <1>15, <1>16, <1>17, <1>18, <1>19, <1>20, <1>21, <1>22, <1>23, <1>24,
     <1>25, <1>26, <1>27, <1>28, <1>29, <1>30, <1>31, <1>32
     DEF Next

\* Whatever the calls, their processes and a crash do, IInv holds.
THEOREM HarnessInvariant == Spec => []IInv
  BY InitHolds, StepHolds, PTL DEF Spec

-----------------------------------------------------------------------------
(* The properties. *)

\* The readers of the whole process never exceed the permits, a running worker
\* has a holder that ends it, and no pipe end is outside its own tree
\* (CapturePermit, CliHarness::invoke, spawn_guard).
THEOREM HeldTheorem == Spec => []NothingEscapes
<1>1. IInv => NothingEscapes
  BY ReadersHoldPermits DEF IInv, Safe, NothingEscapes
<1> QED
  BY <1>1, HarnessInvariant, PTL

\* A cancellation reported as applied left no process, and no later step of any
\* thread signals the released number (CliHarness::cancel_owned).
THEOREM OwnedCancelTheorem == Spec => []OwnedCancelIsFinal
<1>1. IInv => OwnedCancelIsFinal
  BY DEF IInv, Safe, OwnedCancelIsFinal
<1> QED
  BY <1>1, HarnessInvariant, PTL
=============================================================================
