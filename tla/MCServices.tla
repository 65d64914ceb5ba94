----------------------------- MODULE MCServices ------------------------------
(***************************************************************************)
(* Small instances of what a hypervisor shares among its callers and with  *)
(* other nodes: the snapshot manager without files, the sandbox and its    *)
(* epochs, the race of branches, retries and the instincts they teach, the *)
(* LLM advice, timeline delivery and snapshot replication.  They share no  *)
(* state, so in a behaviour one of them, `focus', moves and the others     *)
(* stay as they were started.                                              *)
(***************************************************************************)
EXTENDS SnapshotManager, MCTimeline, SandboxRuns, RetryLearning, LlmPolicy, Speculation,
        SnapshotSync, SnapshotLineage, TLC

VARIABLE focus

CONSTANTS i1, i2, i3,   \* instincts: two of one category
          s1, s2, s3,   \* snapshots; the checksum of the third is malformed
          pA, pB        \* page contents

\* Two memories that differ in one page
TwoPages == {<<pA, pA>>, <<pA, pB>>}

CategoryOf == [i \in Instincts |-> IF i = i3 THEN "TIMEOUT" ELSE "TRAP_UNREACHABLE"]
AdviceOf == [i \in Instincts |-> IF i = i1 THEN <<"guard", 0>> ELSE <<"bound", 0>>]
Half == <<1, 2>>
DigestOf == [s \in Snapshots |-> IF s = s3 THEN Malformed ELSE s]

ServiceVars == <<focus, vars, timelineVars, sandboxVars, learningVars, llmVars,
                 raceVars, syncVars, lineageVars>>

ServiceInit ==
  /\ focus \in {"chain", "timeline", "sandbox", "learning", "llm", "race", "sync", "lineage"}
  /\ Init /\ TimelineInit /\ SandboxInit /\ LearningInit /\ LlmInit
  /\ RaceInit /\ SyncInit /\ LineageInit
  /\ focus # "sandbox" => inPool
  /\ focus # "learning" => policy = "static"
  /\ focus # "race" => pooled /\ waitAll /\ exporting = {}
  /\ focus # "sync" => \A n \in Nodes : held[n] = <<>>

ServiceNext ==
  /\ UNCHANGED focus
  /\ \/ /\ focus = "chain" /\ Next
        /\ UNCHANGED <<timelineVars, sandboxVars, learningVars, llmVars, raceVars,
                        syncVars, lineageVars>>
     \/ /\ focus = "timeline" /\ TimelineNext
        /\ UNCHANGED <<vars, sandboxVars, learningVars, llmVars, raceVars,
                        syncVars, lineageVars>>
     \/ /\ focus = "sandbox" /\ SandboxNext
        /\ UNCHANGED <<vars, timelineVars, learningVars, llmVars, raceVars,
                        syncVars, lineageVars>>
     \/ /\ focus = "learning" /\ LearningNext
        /\ UNCHANGED <<vars, timelineVars, sandboxVars, llmVars, raceVars,
                        syncVars, lineageVars>>
     \/ /\ focus = "llm" /\ LlmNext
        /\ UNCHANGED <<vars, timelineVars, sandboxVars, learningVars, raceVars,
                        syncVars, lineageVars>>
     \/ /\ focus = "race" /\ RaceNext
        /\ UNCHANGED <<vars, timelineVars, sandboxVars, learningVars, llmVars,
                        syncVars, lineageVars>>
     \/ /\ focus = "sync" /\ SyncNext
        /\ UNCHANGED <<vars, timelineVars, sandboxVars, learningVars, llmVars,
                        raceVars, lineageVars>>
     \/ /\ focus = "lineage" /\ LineageNext
        /\ UNCHANGED <<vars, timelineVars, sandboxVars, learningVars, llmVars,
                        raceVars, syncVars>>

\* The same two processes take snapshots, deliver, run, retry and advise.
Symmetry == Permutations(Tasks)

ServiceSpec == ServiceInit /\ [][ServiceNext]_ServiceVars
=============================================================================
