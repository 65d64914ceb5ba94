-------------------------- MODULE ProfileManifest ---------------------------
(***************************************************************************)
(* Loading a capability profile: parse_profile walks the manifest line by  *)
(* line, keeping the active table, and load_and_validate accepts the       *)
(* result only if no line and no capability entry was in error.            *)
(*                                                                         *)
(* A line is what is left after its comment is stripped: blank, a table    *)
(* header, junk (no unquoted = or no key), or an assignment whose right    *)
(* hand side reads as a boolean, an array of strings, a string, or         *)
(* nothing.                                                                *)
(***************************************************************************)
EXTENDS Integers, Sequences, FiniteSets, SequencesExt

CONSTANTS
  Lines,      \* the lines manifests are made of
  NoValue,    \* None
  MaxLines    \* bound: lines of a manifest

Flags == {"snapshot_enabled", "fork_enabled", "proof_enabled", "wasi_enabled",
          "instinct_enabled", "retry_enabled"}

\* A line is one of the four forms, and only what could not be read has no value.
LineOK(line) ==
  \/ line.form \in {"blank", "junk"}
  \/ line.form = "table" /\ line = [form |-> "table", name |-> line.name]
  \/ line.form = "assign" /\ (line.rhs.is # "none" => line.rhs.value # NoValue)

ASSUME LinesBound == MaxLines \in Nat
ASSUME LinesAssumption == \A line \in Lines : LineOK(line)

VARIABLES
  lines,     \* the lines read so far
  section,   \* the active table
  raw,       \* RawProfile
  errors,    \* whether a ValidationError was pushed
  manifest   \* the outcome: NoValue while reading, {} rejected, {m} accepted

profileVars == <<lines, section, raw, errors, manifest>>

\* Option::or and unwrap_or; an optional table is the set of it.
Or(value, other) == IF value = NoValue THEN other ELSE value
Inserted(table, new) == IF table = {} THEN {new} ELSE table
TableOr(table, new) == CHOOSE t \in Inserted(table, new) : TRUE

RawMcp == [tool_allowlist |-> NoValue, flags |-> [f \in Flags |-> NoValue]]
RawExecution == [module_dirs |-> NoValue, daemon_auth_required |-> NoValue]
RawCapability == [type |-> NoValue, path |-> NoValue, pattern |-> NoValue]
RawProfile == [name |-> NoValue, capabilities |-> <<>>, mcp |-> {}, execution |-> {}]

-----------------------------------------------------------------------------
\* parse_mcp_assignment: an unknown key and a value of another kind are errors,
\* and set nothing.
McpKeyOk(key, rhs) ==
  \/ key = "tool_allowlist" /\ rhs.is = "array"
  \/ key \in Flags /\ rhs.is = "bool"

\* Mutant of McpSet: the first value given to a flag stays.
McpSetFirst(mcp, key, rhs) ==
  IF ~McpKeyOk(key, rhs) THEN mcp
  ELSE IF key = "tool_allowlist" THEN [mcp EXCEPT !.tool_allowlist = rhs.value]
  ELSE [mcp EXCEPT !.flags[key] = Or(@, rhs.value)]

McpSet(mcp, key, rhs) ==
  IF ~McpKeyOk(key, rhs) THEN mcp
  ELSE IF key = "tool_allowlist" THEN [mcp EXCEPT !.tool_allowlist = rhs.value]
  ELSE [mcp EXCEPT !.flags[key] = rhs.value]

\* parse_execution_assignment, likewise.
ExecutionKeyOk(key, rhs) ==
  \/ key = "module_dirs" /\ rhs.is = "array"
  \/ key = "daemon_auth_required" /\ rhs.is = "bool"

ExecutionSet(execution, key, rhs) ==
  IF ~ExecutionKeyOk(key, rhs) THEN execution ELSE [execution EXCEPT ![key] = rhs.value]

\* The string assignments of the other sections: unknown keys are skipped.
CapabilitySet(entry, key, value) ==
  IF key \in DOMAIN entry THEN [entry EXCEPT ![key] = value] ELSE entry

-----------------------------------------------------------------------------
ProfileInit ==
  /\ lines = <<>> /\ section = "top" /\ raw = RawProfile
  /\ errors = FALSE /\ manifest = NoValue

\* A header opens its table; a second [mcp] goes on with the first.  A table
\* that is not supported is an error and leaves the active one as it is.
OpensCapability == [raw EXCEPT !.capabilities = Append(@, RawCapability)]
Header(name) ==
  CASE name = "capabilities" ->
         section' = name /\ raw' = OpensCapability /\ UNCHANGED errors
    [] name = "mcp" ->
         section' = name /\ raw' = [raw EXCEPT !.mcp = Inserted(@, RawMcp)] /\ UNCHANGED errors
    [] name = "execution" ->
         section' = name /\ raw' = [raw EXCEPT !.execution = Inserted(@, RawExecution)] /\ UNCHANGED errors
    [] OTHER -> errors' = TRUE /\ UNCHANGED <<section, raw>>

Assign(key, rhs) ==
  /\ UNCHANGED section
  /\ CASE section = "mcp" ->
            /\ raw' = [raw EXCEPT !.mcp = {McpSet(mcp, key, rhs) : mcp \in @}]
            /\ errors' = (errors \/ ~McpKeyOk(key, rhs))
       [] section = "execution" ->
            /\ raw' = [raw EXCEPT !.execution = {ExecutionSet(execution, key, rhs) : execution \in @}]
            /\ errors' = (errors \/ ~ExecutionKeyOk(key, rhs))
       [] section \in {"top", "capabilities"} /\ rhs.is # "string" -> errors' = TRUE /\ UNCHANGED raw
       [] section = "capabilities" /\ rhs.is = "string" ->
            /\ raw' = [raw EXCEPT !.capabilities[Len(raw.capabilities)] =
                         CapabilitySet(@, key, rhs.value)]
            /\ UNCHANGED errors
       [] section = "top" /\ rhs.is = "string" ->
            /\ raw' = IF key = "name" THEN [raw EXCEPT !.name = rhs.value] ELSE raw
            /\ UNCHANGED errors

ReadLine(line) ==
  /\ manifest = NoValue /\ Len(lines) < MaxLines
  /\ lines' = Append(lines, line)
  /\ CASE line.form = "blank" -> UNCHANGED <<section, raw, errors>>
       [] line.form = "table" -> Header(line.name)
       [] line.form = "junk" -> errors' = TRUE /\ UNCHANGED <<section, raw>>
       [] line.form = "assign" -> Assign(line.key, line.rhs)
  /\ UNCHANGED manifest

-----------------------------------------------------------------------------
\* The spellings of a capability type and the kind they stand for.
Canonical(type) ==
  CASE type \in {"read_file", "Read-File"} -> "read_file"
    [] type = "write_file" -> "write_file"
    [] type \in {"list_dir", "list_directory"} -> "list_dir"
    [] type \in {"http_get", "http_post"} -> type
    [] type \in {"execute", "execute_binary"} -> "execute"
    [] type = "mount_tmpfs" -> "mount_tmpfs"
    [] type \in {"memory_preview", "nexus:memory_preview"} -> "memory_preview"
    [] OTHER -> "unknown"

\* required_path and required_pattern: the pattern falls back to the path, and
\* an empty value counts as missing.
RequiredValue(entry, kind) ==
  LET value == IF kind \in {"http_get", "http_post"} THEN Or(entry.pattern, entry.path)
               ELSE entry.path
  IN IF value = "" THEN NoValue ELSE value

\* validate_capabilities, for one entry: the set of the capability it declares,
\* or nothing when it is in error.  "all" and "none" are sentinels.
Declared(entry) ==
  LET kind == Canonical(entry.type) IN
  IF entry.type = NoValue \/ kind = "unknown" THEN {}
  ELSE IF kind = "memory_preview" THEN {[kind |-> kind]}
  ELSE IF RequiredValue(entry, kind) = NoValue THEN {}
  ELSE {[kind |-> kind, at |-> RequiredValue(entry, kind)]}

CapabilitiesOk ==
  /\ raw.capabilities # <<>>
  /\ \A i \in DOMAIN raw.capabilities : Declared(raw.capabilities[i]) # {}

\* mcp_policy_from_raw and execution_policy_from_raw: what was not said is off.
McpPolicy ==
  LET mcp == TableOr(raw.mcp, RawMcp)
  IN [tool_allowlist |-> mcp.tool_allowlist, flags |-> [f \in Flags |-> Or(mcp.flags[f], FALSE)]]

ExecutionPolicy ==
  LET execution == TableOr(raw.execution, RawExecution)
  IN [module_dirs |-> Or(execution.module_dirs, {}),
      daemon_auth_required |-> Or(execution.daemon_auth_required, FALSE)]

\* load_and_validate, at the end of the file; a blank name is the file's stem.
Finish ==
  /\ manifest = NoValue
  /\ manifest' = IF errors \/ ~CapabilitiesOk THEN {}
       ELSE {[name |-> IF raw.name \in {NoValue, ""} THEN "stem" ELSE raw.name,
              capabilities |-> [i \in DOMAIN raw.capabilities |->
                                  CHOOSE c \in Declared(raw.capabilities[i]) : TRUE],
              mcp |-> McpPolicy, execution |-> ExecutionPolicy]}
  /\ UNCHANGED <<lines, section, raw, errors>>

ProfileNext == Finish \/ \E line \in Lines : ReadLine(line)

ProfileSpec == ProfileInit /\ [][ProfileNext]_profileVars

-----------------------------------------------------------------------------
\* Where line i stands: the last supported header above it.
TableOf(i) ==
  LET above == {j \in 1..(i - 1) : /\ lines[j].form = "table"
                                   /\ lines[j].name \in {"capabilities", "mcp", "execution"}}
  IN IF above = {} THEN "top" ELSE lines[CHOOSE j \in above : \A k \in above : k <= j].name

\* The last value given to a key in a table, or the default.
LastIn(table, key, default) ==
  LET given == {i \in DOMAIN lines : /\ lines[i].form = "assign" /\ lines[i].key = key
                                     /\ TableOf(i) = table}
  IN IF given = {} THEN default ELSE lines[CHOOSE i \in given : \A k \in given : k <= i].rhs.value

\* An accepted profile says what its file says, read as a whole: every flag and
\* list is the last value given to it in its own table and off when none is
\* given; there are as many capabilities as entries, none of them a sentinel
\* and none without its value; and no line of an accepted file is one the
\* parser has no meaning for.
ManifestIsFaithful ==
  manifest \notin {NoValue, {}} => \A m \in manifest :
    /\ \A f \in Flags : m.mcp.flags[f] = LastIn("mcp", f, FALSE)
    /\ m.mcp.tool_allowlist = LastIn("mcp", "tool_allowlist", NoValue)
    /\ m.execution.daemon_auth_required = LastIn("execution", "daemon_auth_required", FALSE)
    /\ m.execution.module_dirs = LastIn("execution", "module_dirs", {})
    /\ Len(m.capabilities) =
         Cardinality({i \in DOMAIN lines : lines[i] = [form |-> "table", name |-> "capabilities"]})
    /\ \A i \in DOMAIN m.capabilities :
         /\ m.capabilities[i].kind \notin {"all", "none", "unknown"}
         /\ m.capabilities[i].kind # "memory_preview" => m.capabilities[i].at \notin {NoValue, ""}
    /\ \A i \in DOMAIN lines :
         \/ lines[i].form = "blank"
         \/ lines[i].form = "table" /\ lines[i].name \in {"capabilities", "mcp", "execution"}
         \/ lines[i].form = "assign" /\
              CASE TableOf(i) = "mcp" -> lines[i].key \in Flags \cup {"tool_allowlist"}
                [] TableOf(i) = "execution" -> lines[i].key \in {"module_dirs", "daemon_auth_required"}
                [] OTHER -> lines[i].rhs.is = "string"
=============================================================================
