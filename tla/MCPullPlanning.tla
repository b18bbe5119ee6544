---------------------------- MODULE MCPullPlanning ----------------------------
(* home holds two repositories, alpha and a backup; alias is a symbolic link *)
(* to alpha, configured as a root of its own.  People work in alpha.        *)
EXTENDS PullPlanning, TLC

CONSTANTS home, alpha, alias, backup, early, late, first, second, out

MCPath == {home, alpha, alias, backup}
MCPathOrder == home :> 1 @@ alias :> 2 @@ alpha :> 3 @@ backup :> 4

Directory == [above |-> {}, gdrive |-> FALSE, backup |-> FALSE, link |-> FALSE,
              marker |-> FALSE, git |-> FALSE, top |-> Absent]
MCDisk ==
  home :> Directory
    @@ alpha :> [Directory EXCEPT !.above = {home}, !.marker = TRUE, !.git = TRUE,
                                  !.top = alpha]
    @@ alias :> [Directory EXCEPT !.link = TRUE, !.marker = TRUE, !.git = TRUE,
                                  !.top = alpha]
    @@ backup :> [Directory EXCEPT !.above = {home}, !.backup = TRUE, !.marker = TRUE,
                                   !.git = TRUE, !.top = backup]

Policies(fetch) == [f \in PolicyFields |-> f = "allow_network_fetch" /\ fetch]

MCConfig ==
  {[found |-> TRUE, canonical |-> {home, alias}, excluded |-> {},
    policy |-> Policies(TRUE)],
   [found |-> TRUE, canonical |-> {alias}, excluded |-> {alpha, backup},
    policy |-> Policies(TRUE)],
   [found |-> TRUE, canonical |-> {home}, excluded |-> {alias},
    policy |-> Policies(FALSE)],
   [found |-> FALSE, canonical |-> {}, excluded |-> {}, policy |-> Policies(FALSE)]}

MCAssessor == {early}
MCRefresher == {first, second}
MCTracePath == [r \in MCRefresher |-> out]
MCNamed == {home, alias}
MCExitCodes == {0, -15}
MCSymmetry == Permutations(MCRefresher)
MCRepo == {alpha, backup}

(* A command that fails, somebody who works here, and a second refresher that *)
(* starts before the first has returned: two of the three at most.          *)
Pairwise == \/ changes = 0 \/ \A c \in Call : unread[c] = {}
            \/ \E r \in Refresher : rpc[r] \in {"start", "returned"}
=============================================================================
