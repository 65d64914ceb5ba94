---------------------------- MODULE RecallReplay ----------------------------
(***************************************************************************)
(* RecallEnvelopeV2: configuration of the trusted keys, verification of an *)
(* envelope, and consumption of its nonce in the PostgreSQL replay store   *)
(* that all verifier processes share.  verify_json reads the clock, then   *)
(* awaits a transaction of several statements; meanwhile other verifiers   *)
(* present the same nonce, a cleanup purges expired rows, the operation    *)
(* times out, a commit succeeds whose answer is lost, or the process       *)
(* restarts with other keys.                                               *)
(*                                                                         *)
(* PostgreSQL is external: an insert of a key another open transaction     *)
(* inserted waits for it, an update of a row another transaction updated   *)
(* waits for it, and the advisory lock is shared by consumers and          *)
(* exclusive for the purge, to the end of the transaction.                 *)
(***************************************************************************)
EXTENDS Integers, FiniteSets, SequencesExt

CONSTANTS
  Verifiers,      \* verifier processes
  Envelopes,      \* what is presented to them
  Contexts,       \* ExpectedRecallContext of a request
  Startups,       \* the configurations a process is started with
  NoKeys,         \* no verifier: disabled, or startup failed
  ClockOffset,    \* verifier -> how far its clock is from true time
  MaxClock,       \* bound on true time
  MaxTtl,         \* RECALL_MAX_TTL_MS
  FutureSkew,     \* max_future_skew_ms
  OperationTimeout,
  PurgeBatch,     \* batch_size
  PurgeMargin,    \* how far behind the time a cleanup's cutoff stays
  MaxAccepted     \* bound on accepted envelopes

\* purge_expired_before leaves the cutoff to its caller: it must be older than
\* any reading of a clock that a consumption in progress was checked against.
ASSUME SafeCutoff ==
  /\ OperationTimeout \in Nat \ {0} /\ PurgeBatch \in Nat \ {0}
  /\ \A v \in Verifiers : PurgeMargin >= OperationTimeout - ClockOffset[v]

\* Times are milliseconds in an i64.
ASSUME RecallAssumption ==
  /\ MaxClock \in Nat /\ PurgeMargin \in Int
  /\ \A v \in Verifiers : ClockOffset[v] \in Int
  /\ \A e \in Envelopes : e.issued \in Int /\ e.expires \in Int

VARIABLES
  trusted,   \* verifier -> TrustedKeyBundle: key id -> public key
  verify,    \* verifier -> its verify_json in progress
  rows,      \* nexus_recall_replay_nonces: (namespace, nonce) -> expiry
  time,
  accepted   \* history: VerifiedRecallEnvelopes, in the order of their commits

recallVars == <<trusted, verify, rows, time, accepted>>

-----------------------------------------------------------------------------
\* PinnedTrustedAeonKeyProvider::from_json: every id is the canonical one of
\* its key, no id and no key twice, and one key is active.
CanonicalId(key) == <<"ed25519-sha256", key>>

DocumentOk(doc) ==
  /\ doc # <<>>
  /\ \A i \in DOMAIN doc : doc[i].id = CanonicalId(doc[i].key)
  /\ \A i, j \in DOMAIN doc : doc[i].id = doc[j].id \/ doc[i].key = doc[j].key => i = j
  /\ \E i \in DOMAIN doc : doc[i].state = "active"

\* TrustedKeyBundle::new refuses a repeated id and an empty bundle, but takes
\* one key under two ids.
BundleOk(doc) == doc # <<>> /\ \A i, j \in DOMAIN doc : doc[i].id = doc[j].id => i = j
Bundle(doc) ==
  [id \in {doc[i].id : i \in DOMAIN doc} |->
     (CHOOSE r \in ToSet(doc) : r.id = id).key]

\* construct_recall_v2_components, or a bundle built by the embedding program.
\* An enforced configuration starts only with its keys, its database and the
\* schema it expects; nothing falls back to a store in memory.
Loaded(s) ==
  CASE s.mode = "enforced" /\ s.database /\ s.schema /\ DocumentOk(s.keys) -> Bundle(s.keys)
    [] s.mode = "embedded" /\ s.database /\ s.schema /\ BundleOk(s.keys) -> Bundle(s.keys)
    [] OTHER -> NoKeys

-----------------------------------------------------------------------------
\* RecallEnvelopeV2::validate.
WellFormed(e) ==
  e.form /\ e.issued >= 0 /\ e.expires > e.issued /\ e.expires - e.issued <= MaxTtl

\* verify_signature with the key trusted under the envelope's key id.
Signed(v, e) == e.key_id \in DOMAIN trusted[v] /\ trusted[v][e.key_id] = e.signer

InContext(e, ctx) == e.tenant = ctx.tenant /\ e.request = ctx.request

ClockOf(v) == time + ClockOffset[v]
TimeOk(e, read) == read >= 0 /\ read < e.expires /\ e.issued <= read + FutureSkew

\* Mutant of ReplayNamespace: the name under which the key is configured.
ReplayNamespaceById(v, e) == <<e.key_id, e.tenant>>

\* derive_replay_namespace commits to the key itself, not to its id.
ReplayNamespace(v, e) == <<trusted[v][e.key_id], e.tenant>>

NoCall == [at |-> "idle"]

\* verify_json up to consume_once; a refused envelope changes nothing.
VerifyJson(v) ==
  /\ trusted[v] # NoKeys /\ verify[v] = NoCall /\ Len(accepted) < MaxAccepted
  /\ \E e \in Envelopes, ctx \in Contexts :
       /\ WellFormed(e) /\ Signed(v, e) /\ InContext(e, ctx) /\ TimeOk(e, ClockOf(v))
       /\ verify' = [verify EXCEPT ![v] =
            [at |-> "begin", env |-> e, row |-> <<ReplayNamespace(v, e), e.nonce>>,
             read |-> ClockOf(v), since |-> time]]
  /\ UNCHANGED <<trusted, rows, time, accepted>>

-----------------------------------------------------------------------------
\* consume_transaction, one statement at a time.
InTransaction == {v \in Verifiers : verify[v].at \in {"inserted", "conflict", "extended"}}
Others(v, at) == {w \in InTransaction \ {v} : verify[w].at = at /\ verify[w].row = verify[v].row}
Phase(v, at) == verify' = [verify EXCEPT ![v].at = at]

\* CONSUME_INSERT_SQL: the shared lock, and the row unless the key exists.
InsertNonce(v) ==
  /\ verify[v].at = "begin" /\ Others(v, "inserted") = {}
  /\ Phase(v, IF verify[v].row \in DOMAIN rows THEN "conflict" ELSE "inserted")
  /\ UNCHANGED <<trusted, rows, time, accepted>>

\* EXTEND_EXPIRY_SQL; a row that needs no extension is only looked up.
Extend(v) ==
  /\ verify[v].at = "conflict" /\ Others(v, "extended") = {}
  /\ verify[v].row \in DOMAIN rows
  /\ Phase(v, "extended")
  /\ UNCHANGED <<trusted, rows, time, accepted>>

\* The row as the commit leaves it: the new one, or the later expiry.
Larger(a, b) == IF a >= b THEN a ELSE b
Committed(v) ==
  LET r == verify[v].row IN
  IF verify[v].at = "inserted"
  THEN [k \in DOMAIN rows \cup {r} |-> IF k = r THEN verify[v].env.expires ELSE rows[k]]
  ELSE [rows EXCEPT ![r] = Larger(@, verify[v].env.expires)]

\* transaction.commit; Fresh is accepted, Replayed refused.
Commit(v) ==
  /\ verify[v].at \in {"inserted", "extended"}
  /\ rows' = Committed(v)
  /\ accepted' = IF verify[v].at = "inserted" THEN Append(accepted, verify[v]) ELSE accepted
  /\ verify' = [verify EXCEPT ![v] = NoCall]
  /\ UNCHANGED <<trusted, time>>

\* The commit took effect, but its answer was lost or came after the timeout:
\* an error, the nonce is consumed.
CommitUnanswered(v) ==
  /\ verify[v].at \in {"inserted", "extended"}
  /\ rows' = Committed(v)
  /\ verify' = [verify EXCEPT ![v] = NoCall]
  /\ UNCHANGED <<trusted, time, accepted>>

\* timeout_sqlx or a database error: the transaction is rolled back.
Abort(v) ==
  /\ verify[v] # NoCall
  /\ verify' = [verify EXCEPT ![v] = NoCall]
  /\ UNCHANGED <<trusted, rows, time, accepted>>

\* The process ends, with what it was doing, and starts again.
Restart(v) ==
  /\ \E s \in Startups : trusted' = [trusted EXCEPT ![v] = Loaded(s)]
  /\ verify' = [verify EXCEPT ![v] = NoCall]
  /\ UNCHANGED <<rows, time, accepted>>

-----------------------------------------------------------------------------
\* PURGE_SQL under the exclusive lock: of the rows that expired before the
\* cutoff, at most a batch, the oldest first.
Expired(cutoff) == {k \in DOMAIN rows : rows[k] < cutoff}
Batch(cutoff) ==
  {s \in SUBSET Expired(cutoff) :
     /\ Cardinality(s) <= PurgeBatch
     /\ Cardinality(s) = PurgeBatch \/ s = Expired(cutoff)
     /\ \A k \in s, l \in Expired(cutoff) \ s : rows[k] <= rows[l]}

PurgeUnlocked ==
  \E cutoff \in 0..(time - PurgeMargin) :
    \E purged \in Batch(cutoff) :
      /\ rows' = [k \in DOMAIN rows \ purged |-> rows[k]]
      /\ UNCHANGED <<trusted, verify, time, accepted>>

PurgeExpiredBefore ==
  /\ InTransaction = {}
  /\ PurgeUnlocked

\* Time passes; a consumption that reached its timeout is cancelled first.
RecallTick ==
  /\ time < MaxClock
  /\ \A v \in Verifiers : verify[v] # NoCall => time - verify[v].since < OperationTimeout
  /\ time' = time + 1
  /\ UNCHANGED <<trusted, verify, rows, accepted>>

RecallInit ==
  /\ trusted \in [Verifiers -> {Loaded(s) : s \in Startups}]
  /\ verify = [v \in Verifiers |-> NoCall]
  /\ rows = <<>> /\ time = 0 /\ accepted = <<>>

RecallNext ==
  \/ \E v \in Verifiers :
       \/ VerifyJson(v) \/ InsertNonce(v) \/ Extend(v) \/ Commit(v) \/ CommitUnanswered(v)
       \/ Abort(v) \/ Restart(v)
  \/ PurgeExpiredBefore \/ RecallTick

RecallSpec == RecallInit /\ [][RecallNext]_recallVars

-----------------------------------------------------------------------------
SameNonce(d, e) == d.signer = e.signer /\ d.tenant = e.tenant /\ d.nonce = e.nonce

\* ReplayStore's contract, over all processes: a nonce accepted under a key for
\* a tenant is accepted again only by a verification whose clock had reached the
\* expiry it was accepted with.  So no envelope is accepted twice, whatever id
\* its key goes by, whatever times out, restarts or is purged in between.
ReplayDetected ==
  \A i, j \in DOMAIN accepted :
    i < j /\ SameNonce(accepted[i].env, accepted[j].env) =>
      accepted[j].read >= accepted[i].env.expires

\* A consumer that met a conflict finds the row when it looks for it: the
\* RowNotFound branch of consume_transaction is not reached.
ConflictRowStays ==
  \A v \in Verifiers : verify[v].at \in {"conflict", "extended"} => verify[v].row \in DOMAIN rows
=============================================================================
