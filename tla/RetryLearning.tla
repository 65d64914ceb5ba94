---------------------------- MODULE RetryLearning ----------------------------
(***************************************************************************)
(* execute_with_retry, the recovery policies it consults and the instinct  *)
(* store it teaches.  A failed attempt proposes instincts for its failure  *)
(* category; the outcome of a later attempt of the same call is credited   *)
(* to them, in memory first and then in the category's JSON file.  The MCP *)
(* tools register, import and judge instincts beside it.  Threads share    *)
(* the store, and the process may crash anywhere, also inside fs::write.   *)
(*                                                                         *)
(* An instinct stands for its (category, pattern, description) triple,     *)
(* which the store keeps unique, and for its id.                           *)
(***************************************************************************)
EXTENDS Integers, Sequences, FiniteSets, SequencesExt

CONSTANTS
  Callers,        \* threads calling execute_with_retry and the MCP tools
  Instincts,      \* what may be registered or imported
  Category,       \* instinct -> the failure category it is kept under
  Description,    \* instinct -> its advice
  Applicable,     \* the instincts whose pattern matches the operation
  Failures,       \* how attempts fail
  MinConfidence,  \* <<n, d>>: min_confidence = n / d
  MaxRetries,     \* max_retries
  MaxActs         \* bound: attempts and tool calls ever made

\* FailureMode::category.
FailureModes ==
  {"TIMEOUT", "FUEL_EXHAUSTED", "TRAP_UNREACHABLE", "TRAP_DIV_BY_ZERO", "TRAP_INTEGER_OVERFLOW",
   "TRAP_BAD_FLOAT_TO_INT", "TRAP_STACK_OVERFLOW", "TRAP_MEMORY_OOB", "TRAP_HEAP_MISALIGNED",
   "TRAP_TABLE_OOB", "TRAP_INDIRECT_NULL", "TRAP_BAD_SIGNATURE", "TRAP_NULL_REFERENCE",
   "TRAP_CAST_FAILURE", "TRAP_OTHER", "MEMORY_LIMIT_EXCEEDED", "INVALID_MODULE",
   "MISSING_ENTRYPOINT", "HOST_ERROR"}

ASSUME LearningAssumption ==
  /\ Failures \subseteq FailureModes /\ Applicable \subseteq Instincts
  /\ MaxRetries \in Nat /\ MaxActs \in Nat
  /\ MinConfidence \in Nat \X (Nat \ {0})

VARIABLES
  policy,         \* RecoveryConfig
  learned,        \* InstinctStore.cache: category -> sequence of entries
  files,          \* category -> the entries in its file
  torn,           \* the files a crash left half written
  call,           \* caller -> its call
  acts,           \* attempts and tool calls so far
  credits,        \* history: the feedback given
  unsaved         \* history: the buckets whose last save failed

learningVars == <<policy, learned, files, torn, call, acts, credits, unsaved>>

Categories == {Category[i] : i \in Instincts} \cup Failures

\* recovery_from_config attaches a store and InstinctStore::open succeeded.
Opened == policy = "layered_instinct" /\ torn = {}
NoCall == [pc |-> "idle", outs |-> <<>>, pending |-> <<>>, from |-> 0,
           feed |-> <<>>, fresh |-> <<>>, dirty |-> {}]

LearningInit ==
  /\ policy \in {"static", "layered", "layered_instinct"}
  /\ learned = [k \in Categories |-> <<>>] /\ files = [k \in Categories |-> <<>>]
  /\ torn = {} /\ acts = 0 /\ credits = {} /\ unsaved = {}
  /\ call = [c \in Callers |-> NoCall]

-----------------------------------------------------------------------------
Entry(i, s, f) == [id |-> i, support |-> s, failure |-> f]
EntryIds(entries) == {entries[n].id : n \in DOMAIN entries}

\* recompute_confidence: (s + 1) / (s + f + 2), compared without dividing.
Above(a, b) == (a.support + 1) * (b.support + b.failure + 2)
               > (b.support + 1) * (a.support + a.failure + 2)
Confident(e) == (e.support + 1) * MinConfidence[2]
                >= MinConfidence[1] * (e.support + e.failure + 2)

\* query: by descending confidence, in the order of the bucket among equals.
Query(k) ==
  SortSeq(SelectSeq(learned[k], LAMBDA e : e.id \in Applicable), LAMBDA a, b : Above(a, b))

\* A RecoveryAction: its description and, from the instinct store, an id.
Action(text, id) == [text |-> text, id |-> id]

\* StaticPolicy: one to three fixed texts for each mode; none has an id.
StaticCount(mode) ==
  CASE mode \in {"TIMEOUT", "FUEL_EXHAUSTED", "TRAP_UNREACHABLE", "TRAP_DIV_BY_ZERO"} -> 3
    [] mode \in {"TRAP_INTEGER_OVERFLOW", "TRAP_BAD_FLOAT_TO_INT", "TRAP_STACK_OVERFLOW",
                 "TRAP_MEMORY_OOB", "MEMORY_LIMIT_EXCEEDED", "INVALID_MODULE",
                 "MISSING_ENTRYPOINT"} -> 2
    [] OTHER -> 1
StaticRecover(mode) == [n \in 1 .. StaticCount(mode) |-> Action(<<mode, n>>, {})]

\* InstinctPolicy.
InstinctRecover(mode) ==
  LET confident == SelectSeq(Query(mode), Confident)
  IN  [n \in DOMAIN confident |-> Action(Description[confident[n].id], {confident[n].id})]

\* LayeredPolicy: of one description only the first action is kept.
LayeredRecover(actions) ==
  LET First(n) == \A m \in 1 .. n - 1 : actions[m].text # actions[n].text
      kept == SelectSeq([n \in DOMAIN actions |-> n], First)
  IN  [n \in DOMAIN kept |-> actions[kept[n]]]

\* The policy of recovery_from_config.
Recover(mode) ==
  CASE policy = "static" -> StaticRecover(mode)
    [] policy = "layered" -> LayeredRecover(StaticRecover(mode))
    [] policy = "layered_instinct" -> LayeredRecover(StaticRecover(mode) \o InstinctRecover(mode))

\* The ids among the recovery_actions of a failed attempt's error log.
Proposed(mode) ==
  LET learnt == SelectSeq(Recover(mode), LAMBDA a : a.id # {})
  IN  [n \in DOMAIN learnt |-> CHOOSE i \in learnt[n].id : TRUE]

Bump(e, success) == IF success THEN [e EXCEPT !.support = @ + 1] ELSE [e EXCEPT !.failure = @ + 1]

\* Instinct::record_success and record_failure, on the entry with the id.
Recorded(entries, id, success) ==
  [n \in DOMAIN entries |-> IF entries[n].id = id THEN Bump(entries[n], success) ELSE entries[n]]

-----------------------------------------------------------------------------
Act == acts < MaxActs /\ acts' = acts + 1

\* nexus_instinct_register checks the category; an import does not.
Registrable(i) == Category[i] \in FailureModes

\* What register and import_all make of a bucket: an entry that is there stays
\* as it is.
Added(entries, i, support) ==
  IF i \in EntryIds(entries) THEN entries ELSE Append(entries, Entry(i, support, 0))

\* register: the bucket is saved whether it changed or not.
Register(c, i) ==
  /\ Opened /\ call[c] = NoCall /\ Registrable(i)
  /\ learned' = [learned EXCEPT ![Category[i]] = Added(@, i, 0)]
  /\ call' = [call EXCEPT ![c].dirty = {Category[i]}]
  /\ Act /\ UNCHANGED <<policy, files, torn, credits, unsaved>>

\* import_all of what another host learned: the buckets with a new entry are
\* saved one after the other.
ImportAll(c, given) ==
  LET Incoming(k) == SetToSeq({i \in given : Category[i] = k})
  IN  /\ Opened /\ call[c] = NoCall
      /\ learned' = [k \in Categories |->
           FoldLeft(LAMBDA bucket, i : Added(bucket, i, 1), learned[k], Incoming(k))]
      /\ call' = [call EXCEPT ![c].dirty = {k \in Categories : learned'[k] # learned[k]}]
      /\ Act /\ UNCHANGED <<policy, files, torn, credits, unsaved>>

\* nexus_instinct_record_outcome: a client's own judgement of an instinct.
RecordOutcome(c, i, success) ==
  /\ Opened /\ call[c] = NoCall /\ i \in EntryIds(learned[Category[i]])
  /\ learned' = [learned EXCEPT ![Category[i]] = Recorded(@, i, success)]
  /\ call' = [call EXCEPT ![c].dirty = {Category[i]}]
  /\ Act /\ UNCHANGED <<policy, files, torn, credits, unsaved>>

\* The next attempt; its failure, if any, asks the recovery policy at once.
Attempt(c) ==
  /\ torn = {} /\ call[c].pc = "idle" /\ call[c].dirty = {} /\ Act
  /\ \E out \in {"ok", "err"} \cup Failures :
       LET fails == out \in Failures
           n == Len(call[c].outs) + 1
           step == [call[c] EXCEPT !.outs = Append(@, IF fails THEN "fail" ELSE out)]
       IN  call' = [call EXCEPT ![c] =
             IF out = "err"
             THEN IF n = MaxRetries + 1 THEN NoCall ELSE step
             ELSE [step EXCEPT !.pc = "feedback", !.feed = call[c].pending,
                               !.pending = <<>>, !.fresh = IF fails THEN Proposed(out) ELSE <<>>]]
  /\ UNCHANGED <<policy, learned, files, torn, credits, unsaved>>

\* Mutant of Credited: feedback for what this very attempt proposed.
CreditedOwn(c) == call[c].fresh

\* The instincts that receive the outcome of the attempt just made.
Credited(c) == call[c].feed

\* One instinct of the previous failed attempt gets the outcome: the entry is
\* changed under the write lock, and the bucket is dirty until it is saved.
Credit(c) ==
  /\ call[c].pc = "feedback" /\ call[c].dirty = {} /\ Credited(c) # <<>>
  /\ LET id == Head(Credited(c))
         last == Len(call[c].outs)
     IN  /\ learned' = [learned EXCEPT ![Category[id]] =
                          Recorded(@, id, call[c].outs[last] = "ok")]
         /\ call' = [call EXCEPT ![c].dirty = {Category[id]},
                                 ![c].feed = IF @ = <<>> THEN @ ELSE Tail(@),
                                 ![c].fresh = IF call[c].feed = <<>> THEN Tail(@) ELSE @]
         /\ credits' = credits \cup {[by |-> c, outs |-> call[c].outs, id |-> id,
                                      from |-> call[c].from, decided |-> last]}
  /\ UNCHANGED <<policy, files, torn, acts, unsaved>>

\* Mutant of Saved: the bucket as the file had it, without the change.
SavedStale(k) == files[k]

\* persist_category serialises the bucket as it is now, whoever changed it.
Saved(k) == learned[k]

PersistCategory(c) ==
  \E k \in call[c].dirty :
    /\ files' = [files EXCEPT ![k] = Saved(k)]
    /\ unsaved' = unsaved \ {k}
    /\ call' = [call EXCEPT ![c].dirty = @ \ {k}]
    /\ UNCHANGED <<policy, learned, torn, acts, credits>>

\* A failed save is dropped by the retry loop (let _ = store.record_success)
\* and ends a register or an import, which leaves its other buckets unsaved.
PersistCategoryFails(c) ==
  /\ call[c].dirty # {}
  /\ unsaved' = unsaved \cup call[c].dirty
  /\ call' = [call EXCEPT ![c].dirty = {}]
  /\ UNCHANGED <<policy, learned, files, torn, acts, credits>>

\* The call ends with a success or with the last attempt; otherwise what the
\* failed attempt proposed waits for the next one.
Decide(c) ==
  /\ call[c].pc = "feedback" /\ call[c].dirty = {} /\ Credited(c) = <<>>
  /\ LET last == Len(call[c].outs)
     IN  call' = [call EXCEPT ![c] =
           IF call[c].outs[last] = "ok" \/ last = MaxRetries + 1 THEN NoCall
           ELSE [call[c] EXCEPT !.pc = "idle", !.pending = call[c].fresh,
                                !.fresh = <<>>, !.from = last]]
  /\ credits' = {cr \in credits : cr.by # c}
  /\ UNCHANGED <<policy, learned, files, torn, acts, unsaved>>

\* The process dies, perhaps inside an fs::write of each thread, and
\* InstinctStore::open reads the files: one that does not parse makes it fail.
Crash ==
  /\ policy = "layered_instinct"
  /\ \E writing \in [Callers -> SUBSET Categories] :
       /\ \A c \in Callers : writing[c] \subseteq call[c].dirty /\ Cardinality(writing[c]) <= 1
       /\ torn' = torn \cup UNION {writing[c] : c \in Callers}
  /\ learned' = IF torn' = {} THEN files ELSE [k \in Categories |-> <<>>]
  /\ call' = [c \in Callers |-> NoCall] /\ credits' = {} /\ unsaved' = {}
  /\ UNCHANGED <<policy, files, acts>>

\* The operator deletes the files that do not parse.
Repair ==
  /\ torn # {}
  /\ files' = [k \in Categories |-> IF k \in torn THEN <<>> ELSE files[k]]
  /\ torn' = {} /\ learned' = files'
  /\ UNCHANGED <<policy, call, acts, credits, unsaved>>

LearningNext ==
  \/ \E c \in Callers :
       \/ \E i \in Instincts : Register(c, i) \/ \E success \in BOOLEAN : RecordOutcome(c, i, success)
       \/ \E given \in SUBSET Instincts : ImportAll(c, given)
       \/ Attempt(c) \/ Credit(c) \/ PersistCategory(c) \/ PersistCategoryFails(c) \/ Decide(c)
  \/ Crash \/ Repair

LearningSpec == LearningInit /\ [][LearningNext]_learningVars

-----------------------------------------------------------------------------
\* An outcome is credited only to instincts that an earlier, failed attempt of
\* the same call proposed, and it is the outcome of the first attempt after it
\* that produced an output: attempts refused with an error are passed over.
CreditsAreEarned ==
  \A cr \in credits :
    /\ 0 < cr.from /\ cr.from < cr.decided /\ cr.outs[cr.from] = "fail"
    /\ \A n \in cr.from + 1 .. cr.decided - 1 : cr.outs[n] = "err"

\* What the store learned is on disk, but for the buckets whose save some call
\* still owes or whose last save failed: two calls that save one bucket in
\* either order lose nothing.
FilesLagInFlight ==
  Opened => \A k \in Categories :
    files[k] # learned[k] => k \in unsaved \/ \E c \in Callers : k \in call[c].dirty
=============================================================================
