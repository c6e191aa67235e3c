-------------------------- MODULE WorkspaceInventory --------------------------
(***************************************************************************)
(* `meshloop workspace preview|apply|maintain`: what the read-only          *)
(* inventory discovers (crates/meshloop-adapters/src/workspace/inventory.rs)*)
(* is merged and classified (crates/meshloop-engine/src/workspace/          *)
(* inventory.rs), joined with what git says of each entry (workspace/       *)
(* cleanup.rs), judged by the cleanup policy (domain/src/cleanup.rs) and,   *)
(* for maintain, by the outcome of the entry's run (workspace_cmd.rs,       *)
(* maintenance.rs).  Every source is read at a moment of its own while      *)
(* users, drivers and other commands go on.  The journal and the fence of   *)
(* the removal itself are the subject of CleanupJournal.                    *)
(*                                                                         *)
(* One directory may be several entries: the ledger names it by root alias, *)
(* git and the attempts table by its place in the repository, the listing   *)
(* of the configured root by its name.  Entries of different scopes are     *)
(* never merged.  A digest is the facts it was computed from.               *)
(***************************************************************************)
EXTENDS DeliveryProof

CONSTANTS
  Dirs,           \* directories, in the order of the ids that own them
  Receipts,       \* delivery receipts to be proved
  Outside,        \* those whose registered root is not inside the checkout
  MaxConsidered,  \* MaintenanceBudget::max_considered
  MaxCommands,    \* bound: commands the operator runs
  MaxChanges      \* bound: changes made by others

ASSUME DirsAssumption ==
  /\ Dirs \subseteq Nat \ {0} /\ IsFiniteSet(Dirs) /\ Dirs # {} /\ 1..3 \subseteq Commits
  /\ Receipts \subseteq DeliveryReceipt /\ Receipts # {}
  /\ Outside \subseteq Dirs
  /\ MaxConsidered \in Nat \ {0} /\ MaxCommands \in Nat /\ MaxChanges \in Nat

First == CHOOSE d \in Dirs : \A e \in Dirs : d <= e

Presences == {"NotApplicable", "Present", "Missing", "Inaccessible", "Reparse"}

\* The order of enum Presence; combine keeps the greatest.
PresenceRank(p) ==
  CHOOSE i \in 1..5 :
    p = <<"NotApplicable", "Present", "Missing", "Inaccessible", "Reparse">>[i]

\* Rows of the ledger that name directory d or its run, and the log they stand
\* for.  The run of directory d is run d; a planner's provisional owner has none.
RowSources == {"generation", "artifact", "provisional", "attempt", "driver"}
ToStates == {"Running", "Failed", "Cancelled", "Accepted"}

VARIABLES
  \* the world
  dir,       \* directory -> [presence, listed, dirty, at]
  head,      \* the commit of the checkout's HEAD
  gone,      \* commits that git has pruned
  registry,  \* registry file: this repository and ledger, others, or none
  root,      \* the registered root is the directory it was
  ledger,    \* the ledger file and the repository rows it holds
  rows,      \* <<source, directory>>
  marks,     \* workspace_legacy_unbound: <<"runs" or "attempts", directory>>
  bindings,  \* workspace_run_bindings
  log,       \* run -> states its events lead to
  \* the command
  pc,        \* where it is
  phase,     \* what the reading is for: to show, to plan, or to apply
  reg, sure, conflict, obs,   \* registry, identity and entries as read
  facts,     \* and as judged; at a removal, the one candidate checked
  digest,    \* the facts an apply is bound to
  want,      \* the plan a maintain is bound to; empty without --apply
  seen,      \* outcomes as read
  todo, mark, \* candidates left; changes made when the current one was checked
  shown,     \* digests the operator was shown: cleanup facts
  planned,   \* and maintenance plans
  \* the proof of a receipt
  receipt, tip, verdict,
  \* bounds
  commands, changes

ledgerRows == <<rows, marks, bindings, log>>
world == <<dir, head, gone, registry, root, ledger, ledgerRows>>
views == <<reg, sure, conflict, obs>>
bound == <<phase, digest, want>>
process == <<bound, views, facts, seen, todo, mark>>
operator == <<shown, planned>>
proof == <<receipt, tip, verdict>>
inventoryVars == <<world, pc, process, operator, proof, commands, changes>>

-----------------------------------------------------------------------------
(* Discovery. *)

RowsOf(d) == {s \in RowSources : <<s, d>> \in rows}

\* No binding and no generation names the run (a planner's owner names none).
legacy_run(d) == d \notin bindings /\ <<"generation", d>> \notin rows

\* id, run: the entry has a lifecycle id, and names the run it belongs to.
Observation(source, key, presence, legacy, record, identity) ==
  [source |-> source, key |-> key, presence |-> presence, legacy |-> legacy,
   record |-> record, identity |-> identity,
   id |-> source \in {"generation", "artifact", "provisional", "driver"},
   run |-> source \in {"generation", "artifact", "legacy-attempt"},
   git |-> source = "git-worktree", conf |-> source = "configured-entry",
   driver |-> source = "driver"]

\* relative_location: the checkout, then the confirmed registered root; a path
\* that is a link or lies elsewhere is withheld and merges with nothing.
PlaceOf(d, source, ok) ==
  IF dir[d].presence \in {"Reparse", "Inaccessible"} THEN <<"withheld", d, source>>
  ELSE IF d \notin Outside THEN <<"repository", d, "">>
  ELSE IF ok /\ root = "same" THEN <<"root", d, "">> ELSE <<"withheld", d, source>>

\* resolve_record: the path is looked at only under a confirmed identity, and
\* only while the root is the directory that was registered.
resolve_record(d, ok) ==
  IF ~ok THEN "NotApplicable"
  ELSE IF root # "same" THEN "Inaccessible" ELSE dir[d].presence

ledger_observation(source, key, presence, legacy, ok) ==
  Observation(source, key, presence, legacy, TRUE, ok)

RowDirs(source) == {d \in Dirs : <<source, d>> \in rows}

\* The first loops of push_ledger_observations: records under a root alias.
RecordObservations(ok) ==
  UNION {{ledger_observation(s, <<"root", d, "">>, resolve_record(d, ok),
                             s # "provisional" /\ <<"runs", d>> \in marks, ok) :
            d \in RowDirs(s)} : s \in {"generation", "artifact", "provisional"}}

RunObservations(ok) ==
  {ledger_observation("legacy-run", <<"run", d, "">>, "NotApplicable", TRUE, ok) :
     d \in {e \in RowDirs("attempt") : legacy_run(e)}}

\* An attempt's row is under the path it was saved with, and has no lifecycle id.
AttemptObservations(ok) ==
  LET marked(d) == <<"attempts", d>> \in marks \/ <<"runs", d>> \in marks \/ legacy_run(d)
      source(d) == IF marked(d) THEN "legacy-attempt" ELSE "artifact"
  IN {[ledger_observation(source(d), PlaceOf(d, source(d), ok), dir[d].presence, marked(d), ok)
         EXCEPT !.id = FALSE] : d \in RowDirs("attempt")}

DriverObservations(ok) ==
  {ledger_observation("driver", <<"log", d, "">>,
                      IF ~ok THEN "NotApplicable"
                      ELSE IF root # "same" THEN "Inaccessible" ELSE "Present", FALSE, ok) :
     d \in RowDirs("driver")}

LedgerObservations(ok) ==
  RecordObservations(ok) \cup RunObservations(ok) \cup AttemptObservations(ok)
  \cup DriverObservations(ok)

\* push_git_worktrees.
GitObservations(ok) ==
  {Observation("git-worktree", PlaceOf(d, "git-worktree", ok), dir[d].presence,
               FALSE, FALSE, FALSE) : d \in {e \in Dirs : dir[e].listed}}

\* push_configured_children: the configured root is the nested default, and the
\* other registered roots are listed under their alias.
ConfiguredObservations(ok) ==
  {Observation("configured-entry", <<IF d \in Outside THEN "root" ELSE "configured", d, "">>,
               dir[d].presence, FALSE, FALSE, FALSE) :
     d \in {e \in Dirs : dir[e].presence # "Missing" /\ (e \in Outside => ok)}}

\* confirm_identity: one repository row, the one of the registry, and the
\* ledger file the registry was written for.
LedgerConflicts(r) == ledger = "doubled" \/ (ledger = "other" /\ r # "missing")
LedgerConfirms(r) == ledger = "bound" /\ r = "ours"

\* registry_conflicts.
RegistryConflicts(r) == r = "foreign"

-----------------------------------------------------------------------------
(* Classification. *)

SourceRank(s) ==
  CHOOSE i \in 1..8 :
    s = <<"artifact", "generation", "provisional", "driver", "legacy-attempt", "legacy-run",
          "git-worktree", "configured-entry">>[i]

\* combine over all observations of one location.
Combine(S) ==
  LET best == CHOOSE o \in S : \A p \in S : SourceRank(o.source) <= SourceRank(p.source)
      worst == CHOOSE o \in S : \A p \in S : PresenceRank(o.presence) >= PresenceRank(p.presence)
  IN [source |-> best.source, key |-> best.key, presence |-> worst.presence,
      legacy |-> \E o \in S : o.legacy, record |-> \E o \in S : o.record,
      identity |-> \E o \in S : o.record /\ o.identity, git |-> \E o \in S : o.git,
      id |-> \E o \in S : o.id, run |-> \E o \in S : o.run,
      conf |-> \E o \in S : o.conf, driver |-> \E o \in S : o.driver]

merge(O) == {Combine({o \in O : o.key = k}) : k \in {o.key : o \in O}}

withheld(o) == o.key[1] = "withheld"

\* classify_one: identity.
Owned(o, ok) == o.identity /\ ok /\ o.record

\* classify_one: ownership.
Ownership(o, ok) ==
  IF o.legacy THEN "legacy-unbound" ELSE IF Owned(o, ok) THEN "ledger-owned"
  ELSE IF o.git /\ ~o.record THEN "git-registered"
  ELSE IF o.conf /\ ~o.record THEN "configured-root" ELSE "unresolved"

\* classify_one: class.
Class(o, ok) ==
  LET held == o.presence \in {"Reparse", "Inaccessible"}
      pathless == o.presence = "NotApplicable" /\ ~o.driver
  IN IF held THEN "inaccessible"
     ELSE IF o.legacy THEN "legacy"
     ELSE IF o.presence = "Missing" THEN "missing"
     ELSE IF Owned(o, ok) THEN IF pathless THEN "inaccessible" ELSE "active"
     ELSE "unknown"

\* classify_one: blockers.
Blockers(o, ok) ==
  LET own == Ownership(o, ok) IN
  (IF o.presence = "Reparse" THEN {"reparse-blocked"} ELSE {})
  \cup (IF o.presence = "Missing" THEN {"path-missing"} ELSE {})
  \cup (IF \/ o.presence = "Inaccessible"
           \/ own = "ledger-owned" /\ Class(o, ok) = "inaccessible" /\ o.presence # "Reparse"
        THEN {"path-inaccessible"} ELSE {})
  \cup (IF own = "legacy-unbound" THEN {"legacy-ownership-unresolved"} ELSE {})
  \cup (IF own \in {"git-registered", "configured-root", "unresolved"}
        THEN {"unknown-ownership"} ELSE {})
  \cup (IF o.driver THEN {"driver-active"} ELSE {})
  \cup (IF withheld(o) THEN {"external-path-withheld"} ELSE {})

Entry(o, ok) ==
  [key |-> o.key, source |-> o.source, id |-> o.id, run |-> o.run, class |-> Class(o, ok),
   owner |-> Ownership(o, ok), blockers |-> Blockers(o, ok)]

\* Mutant: the class alone decides.
adoption_by_class(e) == e.class \in {"legacy", "unknown", "inaccessible"}

\* What `workspace preview` shows as open to adoption.
adoption_candidate(e) ==
  \/ e.class \in {"legacy", "unknown", "inaccessible"}
  \/ e.blockers \cap {"unknown-ownership", "legacy-ownership-unresolved", "reparse-blocked",
                      "path-inaccessible", "external-path-withheld", "driver-active"} # {}

-----------------------------------------------------------------------------
(* What git and the file system say of an entry, and the policy. *)

Flags == {"dirty", "outside", "missing", "reparse", "unproven"}

\* content_unknown and commit_unproven: git could not answer in that place.
Unknown == [flags |-> {"dirty", "unproven"}, commit |-> NoCommit, reachable |-> FALSE]
flagged(F) == [flags |-> F, commit |-> NoCommit, reachable |-> FALSE]

\* git_facts.  A directory that is no worktree of its own is answered for by
\* the checkout it lies in.
git_facts(d) ==
  LET at == IF dir[d].listed THEN dir[d].at ELSE head IN
  [flags |-> IF dir[d].dirty THEN {"dirty"} ELSE {}, commit |-> at,
   reachable |-> is_ancestor(at, head)]

\* A location under the ledger root needs the registry's entry for the root and
\* the same directory there.
location_root(scope, r) == scope \in {"root", "log"} => r # "missing" /\ root = "same"

\* probe_path: a link anywhere on the way, or a missing component, ends the look.
probe_path(d) ==
  IF dir[d].presence = "Reparse" THEN flagged({"reparse"})
  ELSE IF dir[d].presence = "Missing" THEN flagged({"missing"})
  ELSE IF d \in Outside THEN flagged({"outside"}) ELSE git_facts(d)

\* observe_entry.  The diagnostic of a driver is a file.
observe_entry(e, r) ==
  LET d == e.key[2]
      scope == e.key[1]
  IN IF scope = "withheld" THEN flagged({"outside"})
     ELSE IF scope = "run" THEN flagged({})
     ELSE IF ~location_root(scope, r) THEN flagged({"outside", "missing"})
     ELSE IF scope = "log" THEN Unknown ELSE probe_path(d)

\* Mutant: only what git reports counts, the inventory's doubts do not.
reasons_for_unowned(c) == c.flags \cup (IF c.reachable THEN {} ELSE {"unique-commit"})

\* reasons_for; the digest has been compared before.
reasons_for(c) ==
  (c.flags \cap {"dirty"})
  \cup (IF "unproven" \in c.flags \/ (c.commit # NoCommit /\ ~c.reachable)
        THEN {"unique-commit"} ELSE {})
  \cup (IF "driver-active" \in c.blockers THEN {"active-process"} ELSE {})
  \cup (IF \/ c.flags \cap {"reparse", "outside"} # {} \/ c.class = "inaccessible"
           \/ c.blockers \cap {"reparse-blocked", "external-path-withheld",
                               "path-inaccessible"} # {}
        THEN {"unsafe-path"} ELSE {})
  \cup (IF \/ c.owner # "ledger-owned"
           \/ c.blockers \cap {"unknown-ownership", "legacy-ownership-unresolved"} # {}
        THEN {"ambiguous-ownership"} ELSE {})
  \cup (IF \/ "missing" \in c.flags \/ c.class = "missing" \/ "path-missing" \in c.blockers
        THEN {"missing-dependency"} ELSE {})

Eligible(c) == reasons_for(c) = {}

\* CleanupCandidateFacts of every entry.
Candidates(O, ok, r) ==
  {LET e == Entry(o, ok)
       git == observe_entry(e, r)
   IN [key |-> e.key, source |-> e.source, id |-> e.id, run |-> e.run, class |-> e.class,
       owner |-> e.owner, blockers |-> e.blockers, flags |-> git.flags,
       commit |-> git.commit, reachable |-> git.reachable] : o \in merge(O)}

\* CleanupFacts: what the digest binds.
Facts(O, ok, r) == [repo |-> r, retained |-> head, rows |-> Candidates(O, ok, r)]
NoFacts == [repo |-> "missing", retained |-> NoCommit, rows |-> {}]

\* preview_with the registry the fence holds, at one moment.
FactsNow ==
  LET ok == LedgerConfirms(registry)
      conflicts == RegistryConflicts(registry) \/ LedgerConflicts(registry)
      O == (IF ledger = "missing" THEN {} ELSE LedgerObservations(ok))
           \cup GitObservations(ok) \cup ConfiguredObservations(ok)
  IN Facts(O, ~conflicts, registry)

-----------------------------------------------------------------------------
(* Maintenance. *)

\* graph_outcomes: flags over every event of the run.
Outcomes == [d \in Dirs |-> log[d]]
NoOutcomes == [d \in Dirs |-> {}]

OutcomeOf(c, outcomes) == IF c.run THEN outcomes[c.key[2]] ELSE {}

\* Mutant: one accepted task makes up for a failed one.
retain_reason_landed(c, outcomes) ==
  IF "Accepted" \notin OutcomeOf(c, outcomes) THEN "not-landed"
  ELSE IF ~Eligible(c) THEN "not-eligible" ELSE "none"

retain_reason(c, outcomes) ==
  LET states == OutcomeOf(c, outcomes) IN
  IF "Failed" \in states THEN "failed"
  ELSE IF "Cancelled" \in states THEN "cancelled"
  ELSE IF "missing-dependency" \in reasons_for(c) THEN "dependency"
  ELSE IF states = {} THEN "outcome-unknown"
  ELSE IF "Accepted" \notin states THEN "not-landed"
  ELSE IF ~Eligible(c) THEN "not-eligible" ELSE "none"

\* Candidates are in the order of their ids, an owner's before its driver's.
Rank(c) == 2 * c.key[2] + (IF c.key[1] = "log" THEN 1 ELSE 0)

\* MaintenanceCandidate: what the plan's digest binds.
CleanupPlanOf(f, outcomes) ==
  {[id |-> c.key, outcome |-> OutcomeOf(c, outcomes), rank |-> Rank(c),
    dependency |-> "missing-dependency" \in reasons_for(c), eligible |-> Eligible(c),
    retain |-> retain_reason(c, outcomes)] : c \in {c \in f.rows : c.id}}

\* Mutant: the bound on deletions is not looked at.
Selected_all(plan) == {c.id : c \in {c \in plan : c.retain = "none"}}

\* The window, and at most one deletion out of it.
Selected(plan) ==
  LET considered == {c \in plan : Cardinality({b \in plan : b.rank < c.rank}) < MaxConsidered}
      free == {c \in considered : c.retain = "none"}
  IN {c.id : c \in {c \in free : \A b \in free : c.rank <= b.rank}}

-----------------------------------------------------------------------------
(* The commands. *)

\* The command is over.
Return ==
  /\ pc' = "idle" /\ phase' = "show" /\ digest' = NoFacts /\ want' = {}
  /\ reg' = "missing" /\ sure' = FALSE /\ conflict' = FALSE /\ obs' = {}
  /\ facts' = NoFacts /\ seen' = NoOutcomes /\ todo' = {} /\ mark' = 0

Begin(p, d, w) ==
  /\ pc = "idle" /\ commands < MaxCommands /\ commands' = commands + 1
  /\ pc' = "registry" /\ phase' = p /\ digest' = d /\ want' = w
  /\ UNCHANGED <<world, views, facts, seen, todo, mark, operator, proof, changes>>

\* workspace preview --cleanup; apply --cleanup --digest; maintain with and
\* without --apply.
Preview == Begin("show", NoFacts, {})
Apply == \E d \in shown : Begin("apply", d, {})
Maintain == \E w \in planned \cup {{}} : Begin("plan", NoFacts, w)

ReadRegistry ==
  /\ pc = "registry" /\ pc' = "ledger"
  /\ reg' = registry /\ conflict' = RegistryConflicts(registry)
  /\ UNCHANGED <<world, bound, sure, obs, facts, seen, todo, mark, operator, proof,
                 commands, changes>>

\* open_ledger, confirm_identity and the rows, against the registry as read.
ReadLedger ==
  /\ pc = "ledger" /\ pc' = "git"
  /\ sure' = LedgerConfirms(reg) /\ conflict' = (conflict \/ LedgerConflicts(reg))
  /\ obs' = IF ledger = "missing" THEN {} ELSE LedgerObservations(LedgerConfirms(reg))
  /\ UNCHANGED <<world, bound, reg, facts, seen, todo, mark, operator, proof, commands, changes>>

ReadGit ==
  /\ pc = "git" /\ pc' = "observe"
  /\ obs' = obs \cup GitObservations(sure) \cup ConfiguredObservations(sure)
  /\ UNCHANGED <<world, bound, reg, sure, conflict, facts, seen, todo, mark, operator, proof,
                 commands, changes>>

\* observe_cleanup reads the registry again.
Observed == Facts(obs, ~conflict, registry)

Show ==
  /\ pc = "observe" /\ phase = "show"
  /\ shown' = shown \cup {Observed}
  /\ Return
  /\ UNCHANGED <<world, planned, proof, commands, changes>>

Observe ==
  /\ pc = "observe" /\ phase = "plan" /\ pc' = "outcomes"
  /\ facts' = Observed
  /\ UNCHANGED <<world, bound, views, seen, todo, mark, operator, proof, commands, changes>>

\* graph_outcomes and maintenance_plan; with --apply and the plan's own digest
\* the cleanup digest just computed is applied to the one selected id.
Plan ==
  LET plan == CleanupPlanOf(facts, Outcomes) IN
  /\ pc = "outcomes"
  /\ \/ /\ want = plan /\ Selected(plan) # {}
        /\ pc' = "registry" /\ phase' = "apply" /\ digest' = facts /\ seen' = Outcomes
        /\ reg' = "missing" /\ sure' = FALSE /\ conflict' = FALSE /\ obs' = {}
        /\ facts' = NoFacts
        /\ UNCHANGED <<want, todo, mark, planned>>
     \/ /\ want # plan \/ Selected(plan) = {}
        /\ planned' = planned \cup {plan}
        /\ Return
  /\ UNCHANGED <<world, shown, proof, commands, changes>>

\* Mutant: whatever is eligible now is applied, whatever the digest.
Compare_unbound ==
  LET chosen == {c \in Observed.rows :
                   Eligible(c) /\ (want # {} => c.key \in Selected(want))}
  IN /\ pc = "observe" /\ phase = "apply"
     /\ IF chosen # {}
          THEN /\ pc' = "fence" /\ todo' = chosen
               /\ UNCHANGED <<bound, views, facts, seen, mark>>
          ELSE Return
     /\ UNCHANGED <<world, operator, proof, commands, changes>>

\* apply_cleanup: the digest of fresh facts, then the eligible candidates.
Compare ==
  LET only == Selected(want)
      chosen == {c \in Observed.rows : Eligible(c) /\ (want # {} => c.key \in only)}
  IN /\ pc = "observe" /\ phase = "apply"
     /\ IF Observed = digest /\ chosen # {}
          THEN /\ pc' = "fence" /\ todo' = chosen
               /\ UNCHANGED <<bound, views, facts, seen, mark>>
          ELSE Return
     /\ UNCHANGED <<world, operator, proof, commands, changes>>

\* acquire binds the fence to this repository and this ledger.
Fence ==
  /\ pc = "fence"
  /\ IF registry = "ours" /\ ledger = "bound"
       THEN pc' = "next" /\ UNCHANGED process
       ELSE Return
  /\ UNCHANGED <<world, operator, proof, commands, changes>>

\* The candidate is in the fresh facts as it was, and git lists it.
Valid(c) == c \in FactsNow.rows /\ Eligible(c) /\ dir[c.key[2]].listed

Validate(c) ==
  /\ pc = "next" /\ c \in todo
  /\ IF Valid(c)
       THEN /\ pc' = "remove" /\ mark' = changes /\ facts' = [NoFacts EXCEPT !.rows = {c}]
            /\ UNCHANGED <<bound, views, seen, todo>>
       ELSE Return
  /\ UNCHANGED <<world, operator, proof, commands, changes>>

\* git worktree remove, without --force.
GitRemoves(d) == dir[d].listed /\ ~dir[d].dirty /\ dir[d].presence # "Reparse"

Remove(c) ==
  /\ pc = "remove" /\ c \in facts.rows
  /\ \/ /\ GitRemoves(c.key[2])
        /\ dir' = [dir EXCEPT ![c.key[2]].presence = "Missing", ![c.key[2]].listed = FALSE]
        /\ IF todo = {c} THEN Return
           ELSE /\ pc' = "next" /\ todo' = todo \ {c} /\ mark' = 0
                /\ facts' = NoFacts /\ UNCHANGED <<bound, views, seen>>
     \/ ~GitRemoves(c.key[2]) /\ Return /\ UNCHANGED dir
  /\ UNCHANGED <<head, gone, registry, root, ledger, ledgerRows, operator, proof,
                 commands, changes>>

-----------------------------------------------------------------------------
(* The proof of a receipt for the checkout's branch; the planner's worktree   *)
(* is the first directory.                                                    *)

\* resolve_commit, which may fail.
Resolve(r) ==
  /\ pc = "idle" /\ commands = 0 /\ commands' = MaxCommands
  /\ pc' = "prove" /\ receipt' = r /\ tip' \in {head, NoCommit}
  /\ UNCHANGED <<world, process, operator, verdict, changes>>

Prove ==
  /\ pc = "prove" /\ pc' = "proved"
  /\ verdict' = prove_delivery_receipt(receipt, tip, gone, dir[First].dirty)
  /\ UNCHANGED <<world, process, operator, receipt, tip, commands, changes>>

-----------------------------------------------------------------------------
(* Users, drivers and other commands. *)

Change ==
  /\ changes < MaxChanges /\ changes' = changes + 1 /\ pc # "proved"
  /\ UNCHANGED <<pc, process, operator, proof, commands>>

\* Work that is not committed, a commit, a removal by hand, a link.
UserChanges(d) ==
  /\ Change
  /\ dir' \in {[dir EXCEPT ![d].dirty = ~@], [dir EXCEPT ![d].presence = "Missing"],
               [dir EXCEPT ![d].presence = "Reparse"]}
             \cup {[dir EXCEPT ![d].at = c, ![d].dirty = FALSE] : c \in Commits \ gone}
  /\ dir' # dir /\ dir[d].presence = "Present"
  /\ UNCHANGED <<head, gone, registry, root, ledger, ledgerRows>>

HeadMoves ==
  /\ Change
  /\ head' \in {c \in Commits \ {head} : Ancestors[c] \cap gone = {}}
  /\ UNCHANGED <<dir, gone, registry, root, ledger, ledgerRows>>

\* git gc: a commit that no ref holds.
Prune(c) ==
  /\ Change
  /\ c \notin gone \cup Ancestors[head] \cup UNION {Ancestors[dir[d].at] : d \in Dirs}
  /\ gone' = gone \cup {c}
  /\ UNCHANGED <<dir, head, registry, root, ledger, ledgerRows>>

DriverChanges(d) ==
  /\ Change
  /\ rows' = IF <<"driver", d>> \in rows THEN rows \ {<<"driver", d>>}
             ELSE rows \cup {<<"driver", d>>}
  /\ RowsOf(d) # {}
  /\ UNCHANGED <<dir, head, gone, registry, root, ledger, marks, bindings, log>>

\* The run of d goes on, or is restarted: its events and attempts are deleted.
RunMoves(d) ==
  /\ Change
  /\ \/ \E s \in ToStates \ log[d] : log' = [log EXCEPT ![d] = @ \cup {s}] /\ UNCHANGED rows
     \/ /\ log[d] # {} /\ log' = [log EXCEPT ![d] = {}]
        /\ rows' = rows \ {<<"attempt", d>>}
  /\ UNCHANGED <<dir, head, gone, registry, root, ledger, marks, bindings>>

\* workspace adopt --apply.
Adopts(d) ==
  /\ Change
  /\ <<"runs", d>> \in marks /\ <<"generation", d>> \in rows
  /\ registry = "ours" /\ ledger = "bound" /\ root = "same" /\ dir[d].presence = "Present"
  /\ marks' = marks \ {<<"runs", d>>} /\ bindings' = bindings \cup {d}
  /\ UNCHANGED <<dir, head, gone, registry, root, ledger, rows, log>>

\* The registry, the ledger or the root is replaced, or comes back.
Replaced ==
  /\ Change
  /\ \/ registry' \in {"ours", "foreign", "missing"} \ {registry} /\ UNCHANGED <<root, ledger>>
     \/ root' \in {"same", "replaced"} \ {root} /\ UNCHANGED <<registry, ledger>>
     \/ ledger' \in {"bound", "unbound", "other", "doubled", "missing"} \ {ledger}
        /\ UNCHANGED <<registry, root>>
  /\ UNCHANGED <<dir, head, gone, ledgerRows>>

World ==
  \/ HeadMoves \/ Replaced
  \/ \E c \in Commits : Prune(c)
  \/ \E d \in Dirs : UserChanges(d) \/ DriverChanges(d) \/ RunMoves(d) \/ Adopts(d)

-----------------------------------------------------------------------------
\* The first directory is a worktree of a run, of a planner, or of neither, at
\* a commit that has landed or not; the others belong to accepted runs.
Landed(c) == [presence |-> "Present", listed |-> TRUE, dirty |-> FALSE, at |-> c]

InventoryInit ==
  /\ head = 2 /\ gone = {}
  /\ registry = "ours" /\ root = "same" /\ ledger = "bound" /\ bindings = {}
  /\ \E own \in {{"generation"}, {"provisional"}, {"generation", "attempt"},
                 {"generation", "artifact"}, {"attempt"}, {}}, c \in {1, 3} :
       /\ rows = {<<s, First>> : s \in own} \cup {<<"generation", d>> : d \in Dirs \ {First}}
       /\ dir = [d \in Dirs |-> Landed(IF d = First THEN c ELSE 1)]
       /\ marks \in SUBSET {<<"runs", First>> : s \in own \ {"provisional"}}
  /\ log \in {[d \in Dirs |-> IF d = First THEN S ELSE {"Accepted"}] :
              S \in {{}, {"Accepted"}, {"Accepted", "Failed"}}}
  /\ pc = "idle" /\ phase = "show" /\ digest = NoFacts /\ want = {}
  /\ reg = "missing" /\ sure = FALSE /\ conflict = FALSE /\ obs = {}
  /\ facts = NoFacts /\ seen = NoOutcomes /\ todo = {} /\ mark = 0
  /\ shown = {} /\ planned = {}
  /\ receipt = (CHOOSE r \in Receipts : TRUE) /\ tip = NoCommit /\ verdict = {}
  /\ commands = 0 /\ changes = 0

Command ==
  \/ Preview \/ Apply \/ Maintain \/ ReadRegistry \/ ReadLedger \/ ReadGit
  \/ Show \/ Observe \/ Plan \/ Compare \/ Fence
  \/ \E c \in todo : Validate(c) \/ Remove(c)

InventoryNext == Command \/ World \/ Prove \/ \E r \in Receipts : Resolve(r)

InventorySpec == InventoryInit /\ [][InventoryNext]_inventoryVars

-----------------------------------------------------------------------------

Pcs == {"idle", "registry", "ledger", "git", "observe", "outcomes", "fence", "next", "remove",
        "prove", "proved"}

\* Types; and maintenance never has more than one removal ahead of it.
InventoryTypeOK ==
  /\ \A d \in Dirs : /\ dir[d].presence \in Presences /\ dir[d].listed \in BOOLEAN
                     /\ dir[d].dirty \in BOOLEAN /\ dir[d].at \in Commits
  /\ head \in Commits \ gone /\ gone \subseteq Commits
  /\ rows \subseteq RowSources \X Dirs /\ marks \subseteq {"runs", "attempts"} \X Dirs
  /\ bindings \subseteq Dirs /\ log \in [Dirs -> SUBSET ToStates]
  /\ pc \in Pcs /\ phase \in {"show", "plan", "apply"}
  /\ \A c \in todo : c.flags \subseteq Flags /\ Eligible(c)
  /\ want # {} => Cardinality(todo) <= 1
  /\ receipt \in Receipts /\ tip \in Commits \cup {NoCommit} /\ verdict \subseteq DeliveryReason
  /\ commands \in 0..MaxCommands /\ changes \in 0..MaxChanges /\ mark \in 0..changes

\* A worktree is taken off git's list, and nobody has changed anything since the
\* candidate was checked under the fence.
Removes(d) == dir[d].listed /\ ~dir'[d].listed
Undisturbed == mark = changes

\* A record of the ledger names d as part of a run or plan this ledger owns.
Named(d) ==
  \/ "provisional" \in RowsOf(d)
  \/ /\ RowsOf(d) \cap {"generation", "artifact", "attempt"} # {}
     /\ <<"runs", d>> \notin marks /\ ~(legacy_run(d) /\ RowsOf(d) = {"attempt"})

\* Whatever was discovered in pieces, merged, classified and judged, a cleanup
\* removes only a clean worktree inside the checkout that a record of this
\* repository's own ledger names, that no run still marked legacy claims, and
\* whose commit HEAD contains.
OnlyOwnedRemoved ==
  [][\A d \in Dirs : Removes(d) /\ Undisturbed =>
       /\ registry = "ours" /\ ledger = "bound" /\ d \notin Outside /\ Named(d)
       /\ \A c \in facts.rows : c.key[1] = "root" => root = "same"
       /\ ~dir[d].dirty /\ is_ancestor(dir[d].at, head)]_inventoryVars

\* A removal is one the operator was shown: by a preview, as an eligible
\* candidate at that commit; by a maintenance plan, as its selection.
RemovedAsShown ==
  [][\A d \in Dirs : Removes(d) =>
       IF want = {}
         THEN \E f \in shown : \E c \in f.rows :
                /\ c.key[2] = d /\ Eligible(c)
                /\ Undisturbed => c.commit = dir[d].at
         ELSE \E p \in planned : \E k \in Selected(p) : k[2] = d]_inventoryVars

\* Maintenance removes a worktree only of a run whose events, as it read them,
\* show an acceptance and neither a failure nor a cancellation; it has not read
\* them again when it removes.
MaintainRemovesLanded ==
  [][\A d \in Dirs : Removes(d) /\ want # {} =>
       "Accepted" \in seen[d] /\ seen[d] \cap {"Failed", "Cancelled"} = {}]_inventoryVars

\* The two previews of one inventory agree: nothing is at once up for removal
\* and up for adoption, and what removal holds back for its ownership is shown
\* as open to adoption.
AdoptOrClean ==
  pc \in {"idle", "next"} =>
    \A c \in FactsNow.rows :
      /\ Eligible(c) => ~adoption_candidate(c)
      /\ "ambiguous-ownership" \in reasons_for(c) => adoption_candidate(c)

\* A receipt that passes is about content the destination held when its ref was
\* resolved: the accepted commit, or its tree where the receipt names it; and
\* nothing it promises to keep has been pruned.
PassedMeansLanded ==
  pc = "proved" /\ verdict = {} =>
    /\ tip # NoCommit /\ contained(receipt, tip)
    /\ receipt.recorded \in {NoCommit, tip} /\ receipt.recovery \cap gone = {}

\* The previews of one inventory agree with each other.
InventoryAgrees == InventoryTypeOK /\ AdoptOrClean

\* What a cleanup or a maintenance removes is owned, clean and contained in HEAD,
\* was shown to the operator, and for maintain belongs to a run that landed.
RemovalIsOwned == OnlyOwnedRemoved /\ RemovedAsShown /\ MaintainRemovesLanded
=============================================================================
