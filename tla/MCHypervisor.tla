---------------------------- MODULE MCHypervisor -----------------------------
(***************************************************************************)
(* Concurrent calls on one hypervisor: around its snapshots, for its fuel  *)
(* budgets, and inside its snapshot manager, here with files.  The         *)
(* execution path sees the manager through SnapshotStore, so the three     *)
(* share no state, and in a behaviour one of them, `focus', moves.         *)
(***************************************************************************)
EXTENDS RuntimeSnapshots, AdaptiveFuel, TLC

CONSTANTS a, b   \* page contents

VARIABLES
  focus,
  snapshots, index, diffs, totalSnapshots, totalRollbacks,
  disk, nextId, captured, filesPc, filesLoc               \* SnapshotManager

\* The manager with persistence; one memory has another size.
Files == INSTANCE SnapshotManager WITH
           Pages <- {a, b}, Memories <- {<<a, a>>, <<a, b>>, <<b>>}, Persist <- TRUE,
           MaxRollbacks <- 1, pc <- filesPc, loc <- filesLoc

filesVars == <<snapshots, index, diffs, totalSnapshots, totalRollbacks,
               disk, nextId, captured, filesPc, filesLoc>>
hypervisorVars == <<focus, vars, fuelVars, filesVars>>

HypervisorInit ==
  /\ focus \in {"execution", "fuel", "files"}
  /\ Init /\ FuelInit /\ Files!Init

HypervisorNext ==
  /\ UNCHANGED focus
  /\ \/ focus = "execution" /\ Next /\ UNCHANGED <<fuelVars, filesVars>>
     \/ focus = "fuel" /\ FuelNext /\ UNCHANGED <<vars, filesVars>>
     \/ focus = "files" /\ Files!Next /\ UNCHANGED <<vars, fuelVars>>

HypervisorSpec == HypervisorInit /\ [][HypervisorNext]_hypervisorVars

\* The same two threads execute, are metered and take snapshots.
Sym == Permutations(Threads)

-----------------------------------------------------------------------------
\* With files, failed writes, crashes and restarts too, a memory that is
\* restored or loaded is the one that was captured under its id.
FilesRestoreFaithful == Files!RestoreFaithful
=============================================================================
