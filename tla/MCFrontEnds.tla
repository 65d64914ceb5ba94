----------------------------- MODULE MCFrontEnds -----------------------------
(***************************************************************************)
(* Small instances of what stands between callers and the hypervisor: the  *)
(* daemon's pool, the MCP server, its capability manager on its own, the   *)
(* mounts of WASI calls, the tenant registry, the profile parser and the   *)
(* recall verifier.  In a behaviour one of them, `focus', moves and what   *)
(* it does not use stays as it was started.                                *)
(***************************************************************************)
EXTENDS MCDaemonPool, McpServer, MCMounts, MCTenants, ProfileManifest, RecallReplay

VARIABLE focus

CONSTANTS v1, v2   \* verifiers

-----------------------------------------------------------------------------
\* The MCP server: one directory tree, one agent.
Preview == [kind |-> "memory_preview"]
ReadData == File("read_file", <<"data", "x">>)
WriteData == File("write_file", <<"data">>)
Escape == File("read_file", <<"data", "..", "etc">>)
Module == [asked |-> <<"mods", "tool">>, real |-> <<"mods", "tool">>]

AsJson(type, path) == [json |-> TRUE, type |-> type, path |-> path]
Pair(type, path) == [json |-> FALSE, type |-> type, path |-> path]
AskRead == AsJson("read_file", <<"data", "x">>)
AskWrite == AsJson("write_file", <<"data">>)
AskPreview == AsJson("memory_preview", Absent)
AskMemory == AsJson("read_memory", [kind |-> "agent", agent |-> "a", session |-> ""])

Plain == [tool |-> "execute", specs |-> <<>>, caller |-> Absent, parent |-> FALSE, agent |-> "a",
          session |-> Absent, query |-> FALSE, mode |-> Absent, parses |-> TRUE, name |-> "iq",
          file |-> Module, digest |-> FALSE, restore |-> FALSE, source |-> Absent, base |-> FALSE]
ServerRequests ==
  {[Plain EXCEPT !.tool = "issue_token", !.caller = <<AskWrite>>],
   [Plain EXCEPT !.tool = "attenuate_token", !.parent = TRUE, !.caller = <<AskRead>>],
   [Plain EXCEPT !.tool = "execute_wasi", !.parent = TRUE, !.specs = <<AskRead>>],
   [Plain EXCEPT !.tool = "execute_wasi", !.specs = <<AsJson("read_file", <<"data", "..", "etc">>)>>],
   [Plain EXCEPT !.tool = "snapshot_create", !.source = "latest_runtime"],
   [Plain EXCEPT !.tool = "snapshot_rollback", !.caller = <<AskPreview>>, !.digest = TRUE, !.restore = TRUE],
   [Plain EXCEPT !.tool = "fork_and_race", !.source = "latest_runtime"],
   [Plain EXCEPT !.tool = "aeon_execute_timeline", !.specs = <<AskRead, AsJson("execute", <<"bin">>)>>,
      !.caller = <<AskRead>>, !.session = "s"],
   [Plain EXCEPT !.tool = "iq_execute", !.specs = <<Pair("read", <<"data", "x">>), Pair("exec", <<"bin">>)>>,
      !.session = "s", !.query = TRUE, !.mode = "required"],
   [Plain EXCEPT !.tool = "iq_execute", !.specs = <<Pair("all", "x")>>, !.query = TRUE],
   [Plain EXCEPT !.tool = "iq_execute", !.name = "other"],
   [Plain EXCEPT !.tool = "execute", !.file.real = <<"etc">>],
   [Plain EXCEPT !.tool = "execute_retry"],
   [Plain EXCEPT !.tool = "get_stats"]}

NoAeon == [on |-> FALSE, hmac |-> FALSE, vkey |-> FALSE]
Open == [transport |-> "stdio", numbers |-> TRUE, cwd |-> <<"mods">>, dirs |-> Absent, profile |-> Absent,
         allow |-> Absent, iq |-> Absent, aeon |-> NoAeon]
SomeTools == {"issue_token", "execute_wasi", "iq_execute", "snapshot_rollback", "fork_and_race"}
\* The last two do not start: "all" in the allowlist, and no such directory.
ServerEnvironments ==
  {[Open EXCEPT !.transport = "http", !.aeon.on = TRUE, !.allow = <<AskWrite>>],
   [Open EXCEPT !.allow = <<AskWrite, AskPreview, AskMemory>>, !.iq = [valid |-> TRUE, names |-> {"iq", ""}],
      !.aeon = [on |-> TRUE, hmac |-> TRUE, vkey |-> TRUE]],
   [Open EXCEPT !.allow = <<AskWrite, AskPreview>>, !.aeon = [on |-> TRUE, hmac |-> TRUE, vkey |-> FALSE],
      !.dirs = {Absent},
      !.profile = [valid |-> TRUE, tools |-> SomeTools, flags |-> {"proof", "wasi", "snapshot"},
                   caps |-> {File("read_file", <<"data">>)}, dirs |-> {<<"mods">>}]],
   [Open EXCEPT !.allow = <<AskWrite, AsJson("all", Absent)>>],
   [Open EXCEPT !.dirs = {Absent, <<"mods">>}]}
Memory(scope) == [kind |-> "read_memory", at |-> scope]
SessionMemory(s) == Memory([scope |-> "session", agent |-> "a", session |-> s])
TokenCaps == {ReadData, WriteData, Escape, Preview, Memory([scope |-> "namespace", agent |-> "a"]),
              SessionMemory("s"), SessionMemory("t")}

-----------------------------------------------------------------------------
\* Profiles: every manifest of a few of these lines.
Table(n) == [form |-> "table", name |-> n]
Bool(b) == [is |-> "bool", value |-> b]
Text(s) == [is |-> "string", value |-> s]
Setting(k, v) == [form |-> "assign", key |-> k, rhs |-> v]
ManifestLines ==
  {Table("capabilities"), Table("mcp"), Table("execution"), Table("limits"), [form |-> "junk"],
   Setting("type", Text("memory_preview")), Setting("type", Text("all")), Setting("type", Text("http_get")),
   Setting("path", Text("host")), Setting("pattern", Text("")),
   Setting("fork_enabled", Bool(TRUE)), Setting("fork_enabled", Bool(FALSE)),
   Setting("daemon_auth_required", Bool(TRUE))}

-----------------------------------------------------------------------------
\* Recall: one clock is behind, one start-up gives a key a second id, and one
\* is refused.
Clocks == (v1 :> 0) @@ (v2 :> -1)
Key(id) == [id |-> id, key |-> "k1", state |-> "active"]
Startup(mode, ids) == [mode |-> mode, database |-> TRUE, schema |-> TRUE,
                       keys |-> [n \in DOMAIN ids |-> Key(ids[n])]]
RecallStartups == {Startup("enforced", <<CanonicalId("k1")>>),
                   Startup("embedded", <<CanonicalId("k1"), <<"alias">>>>),
                   Startup("enforced", <<<<"alias">>>>)}
Envelope(id, r, i, x) ==
  [key_id |-> id, signer |-> "k1", form |-> TRUE, tenant |-> "t", request |-> r, nonce |-> "n",
   issued |-> i, expires |-> x]
RecallEnvelopes ==
  {Envelope(CanonicalId("k1"), "q", 0, 2), Envelope(<<"alias">>, "q", 0, 2),
   Envelope(CanonicalId("k1"), "q", 0, 3), Envelope(CanonicalId("k1"), "q", 1, 4),
   Envelope(CanonicalId("k1"), "q", 0, 9), Envelope(CanonicalId("k2"), "q", 0, 3),
   Envelope(CanonicalId("k1"), "p", 0, 2)}
RecallContexts == {[tenant |-> "t", request |-> "q"]}

-----------------------------------------------------------------------------
FrontVars == <<focus, vars, serverVars, mountVars, tenantVars, profileVars, recallVars>>

FrontInit ==
  /\ focus \in {"daemon", "server", "tokens", "mounts", "tenants", "profile", "recall"}
  /\ Init /\ ServerInit /\ MountInit /\ TenantInit /\ ProfileInit /\ RecallInit
  /\ focus # "daemon" => daemon.token
  /\ focus # "server" => ~cfg.http /\ cfg.profile = Absent
  /\ focus # "tenants" => source = "postgres" /\ db = Empty /\ dbUp
  /\ focus # "recall" => \A v \in Verifiers : trusted[v] = NoKeys

\* An error in a profile is final, so no line is read after the first.
FrontNext ==
  /\ UNCHANGED focus
  /\ \/ focus = "daemon" /\ Next /\ UNCHANGED <<serverVars, mountVars, tenantVars, profileVars, recallVars>>
     \/ focus = "server" /\ ServerNext /\ UNCHANGED <<vars, mountVars, tenantVars, profileVars, recallVars>>
     \/ focus = "tokens" /\ TokenNext
        /\ UNCHANGED <<vars, cfg, call, known, bucket, captured, calls>>
        /\ UNCHANGED <<mountVars, tenantVars, profileVars, recallVars>>
     \/ focus = "mounts" /\ MountNext /\ UNCHANGED <<vars, serverVars, tenantVars, profileVars, recallVars>>
     \/ focus = "tenants" /\ TenantNext /\ UNCHANGED <<vars, serverVars, mountVars, profileVars, recallVars>>
     \/ focus = "profile" /\ ProfileNext /\ (errors => manifest' # NoValue)
        /\ UNCHANGED <<vars, serverVars, mountVars, tenantVars, recallVars>>
     \/ focus = "recall" /\ RecallNext /\ UNCHANGED <<vars, serverVars, mountVars, tenantVars, profileVars>>

\* Clients are connections too; the third connection stays in place.
Symmetry == Permutations(Clients)

FrontSpec == FrontInit /\ [][FrontNext]_FrontVars
=============================================================================
