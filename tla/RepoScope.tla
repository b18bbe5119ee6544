------------------------------- MODULE RepoScope -------------------------------
(***************************************************************************)
(* Which checkouts steuerboard may act in: the local config, the scope of a *)
(* path, the inventory with its shadows, the duplicates report and the      *)
(* operational policy.  All of it is pure; a path stands for one directory  *)
(* of the host and Disk says what is there.                                *)
(***************************************************************************)
EXTENDS Naturals, FiniteSets

CONSTANTS Path,       \* absolute directories the config or a call may name
          Disk,       \* Disk[p]: what the file system and git say about p
          PathOrder,  \* how the paths sort
          Absent      \* an optional value that is missing

PolicyFields == {"allow_mutating_actions", "allow_branch_switch", "allow_network_fetch"}

ASSUME ScopeAssumption ==
  /\ Disk \in [Path -> [above : SUBSET Path,     \* its proper ancestors
                        gdrive : BOOLEAN, backup : BOOLEAN,  \* a segment says so
                        link : BOOLEAN,          \* a symbolic link
                        marker : BOOLEAN,        \* holds an entry .git
                        git : BOOLEAN,           \* inside a worktree, says git
                        top : Path \cup {Absent}]]
  /\ PathOrder \in [Path -> Nat]
  /\ \A p, q \in Path : PathOrder[p] = PathOrder[q] => p = q
  /\ Absent \notin Path /\ IsFiniteSet(Path)

(* local-config.v1, as far as anything reads it; found: whether there is one. *)
LocalConfigs == [found : BOOLEAN, canonical : SUBSET Path, excluded : SUBSET Path,
                 policy : [PolicyFields -> BOOLEAN]]

-----------------------------------------------------------------------------
(* The operational policy.                                                 *)

Operations == {"remote-refresh.fetch-origin-prune", "action.run-git-pull-ff-only",
               "action.run-switch-main"}

Required(operation) ==
  CASE operation = "remote-refresh.fetch-origin-prune" -> {"allow_network_fetch"}
    [] operation = "action.run-git-pull-ff-only" ->
         {"allow_mutating_actions", "allow_network_fetch"}
    [] operation = "action.run-switch-main" ->
         {"allow_mutating_actions", "allow_branch_switch"}

OperationAllowed(policy, operation) == \A f \in Required(operation) : policy[f]

-----------------------------------------------------------------------------
(* Scope of a single path.                                                 *)

Scopes == {"scope_canonical", "scope_shadow", "scope_backup", "scope_gdrive",
           "scope_unknown", "scope_excluded"}

IsUnder(p, roots) == p \in roots \/ Disk[p].above \cap roots # {}

(* The order of the tests matters: a canonical root does not rescue an      *)
(* excluded path nor one whose name says backup.                           *)
ClassifyScope(config, p) ==
  IF IsUnder(p, config.excluded) THEN "scope_excluded"
  ELSE IF Disk[p].gdrive THEN "scope_gdrive"
  ELSE IF Disk[p].backup THEN "scope_backup"
  ELSE IF IsUnder(p, config.canonical) THEN "scope_canonical"
  ELSE "scope_unknown"

(* The kind of policy entry an explanation cites.                          *)
MatchedPolicy(config, p) ==
  IF IsUnder(p, config.excluded) THEN "excluded_repo_roots"
  ELSE IF Disk[p].gdrive \/ Disk[p].backup THEN "path_segment"
  ELSE IF IsUnder(p, config.canonical) THEN "canonical_repo_roots"
  ELSE "none"

-----------------------------------------------------------------------------
(* The inventory.                                                          *)

IsFound(p) == Disk[p].marker /\ Disk[p].git

(* The walk from a root follows no link, enters no excluded directory and   *)
(* stops below a repository it has found.                                  *)
Walked(config, root, p) ==
  LET between == {q \in Disk[p].above : root = q \/ root \in Disk[q].above} IN
  /\ p = root \/ (root \in Disk[p].above /\ ~Disk[p].link)
  /\ ~IsUnder(p, config.excluded)
  /\ \A q \in between : ~IsFound(q) /\ (q # root => ~Disk[q].link)

Listed(config) ==
  {p \in Path : IsFound(p) /\ \E root \in config.canonical : Walked(config, root, p)}
    \cup config.excluded

UnsafePrimary == {"scope_excluded", "scope_gdrive", "scope_backup"}

(* The listed checkouts with the toplevel t, and those of them that are     *)
(* candidates for being the one that counts.                               *)
CheckoutsOf(config, t) ==
  {p \in Listed(config) : Disk[p].git /\ Disk[p].top = t}

Candidates(config, t) ==
  {p \in CheckoutsOf(config, t) : ClassifyScope(config, p) \notin UnsafePrimary}

ScopeRank == [s \in Scopes |->
  CASE s = "scope_canonical" -> 0 [] s = "scope_unknown" -> 1
    [] s = "scope_shadow" -> 2 [] s = "scope_excluded" -> 3
    [] s = "scope_gdrive" -> 4 [] s = "scope_backup" -> 5]

Outranks(config, q, p) ==
  LET rankQ == ScopeRank[ClassifyScope(config, q)]
      rankP == ScopeRank[ClassifyScope(config, p)]
  IN rankQ < rankP \/ (rankQ = rankP /\ PathOrder[q] < PathOrder[p])

(* Mutant: only checkouts of the same scope shadow each other by name, but  *)
(* the name is not looked at.                                              *)
ShadowedByRank(config, p) ==
  /\ Disk[p].top # Absent
  /\ p \in Candidates(config, Disk[p].top)
  /\ \E q \in Candidates(config, Disk[p].top) :
       ScopeRank[ClassifyScope(config, q)] < ScopeRank[ClassifyScope(config, p)]

Shadowed(config, p) ==
  /\ Disk[p].top # Absent
  /\ p \in Candidates(config, Disk[p].top)
  /\ \E q \in Candidates(config, Disk[p].top) : Outranks(config, q, p)

InventoryScope(config, p) ==
  IF Shadowed(config, p) THEN "scope_shadow" ELSE ClassifyScope(config, p)

(* The duplicates report: the toplevels listed twice, with their checkouts. *)
DuplicateGroups(config) ==
  {g \in {CheckoutsOf(config, t) : t \in Path} : Cardinality(g) > 1}
=============================================================================
