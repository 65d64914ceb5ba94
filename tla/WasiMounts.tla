----------------------------- MODULE WasiMounts -----------------------------
(***************************************************************************)
(* The directories a WASI call opens.  A call either names its mounts, and *)
(* the capabilities they need are worked out without touching the disk,    *)
(* authorized, and only then are missing directories created; or it has no *)
(* mounts and its declared capabilities become its preopens.               *)
(*                                                                         *)
(* The disk is a set of directories, a set of files and some links to      *)
(* directories.  A path is the sequence of its components; a host path     *)
(* says whether it is absolute, and a guest path whether it has the        *)
(* characters it may have.  Other processes create directories and files,  *)
(* remove what there is and put links in its place, at any moment; they    *)
(* leave no link without its directory.                                    *)
(***************************************************************************)
EXTENDS CapabilityTokens, FiniteSetsExt

CONSTANTS
  WasiCallers,   \* tasks that execute one WASI tool each
  WasiTools,     \* what they may ask for
  TreeDirs,      \* the directories there are at first, the root included
  TreeFiles,     \* the files
  TreeLinks,     \* link -> the directory it stands for
  OtherEntries,  \* what other processes may create
  OtherLinks,    \* what they may remove, and the link they leave there
  WorkDir,       \* the current directory
  NoPath         \* "no such path", and what an error returns

\* A name is a component that is not "..".  The directories, files and links
\* of a disk t make a tree: everything is in a directory, a name stands for one
\* thing, and a link for a directory.
Names == STRING \ {".."}
TreeOK(t) ==
  /\ t.dirs \cup t.files \subseteq Seq(Names) /\ <<>> \in t.dirs
  /\ \A p \in (t.dirs \cup t.files) \ {<<>>} : Front(p) \in t.dirs
  /\ t.dirs \cap t.files = {} /\ (t.dirs \cup t.files) \cap DOMAIN t.links = {}
  /\ \A p \in DOMAIN t.links : p # <<>> /\ Front(p) \in t.dirs /\ t.links[p] \in t.dirs
Tree(d, f, l) == [dirs |-> d, files |-> f, links |-> l]

ASSUME TreeAssumption == TreeOK(Tree(TreeDirs, TreeFiles, TreeLinks))
ASSUME OthersAssumption == \A e \in OtherEntries : e.at \in Seq(Names)
ASSUME PathsAssumption ==
  /\ WorkDir \in Seq(STRING) /\ NoPath \notin Seq(STRING)
  /\ \A tool \in WasiTools : tool.mounts # NoPath =>
       /\ DOMAIN tool.mounts = 1 .. Len(tool.mounts) /\ Len(tool.mounts) \in Nat
       /\ \A i \in DOMAIN tool.mounts : tool.mounts[i].host.at \in Seq(STRING)

VARIABLES disk, wasi

mountVars == <<disk, wasi>>

-----------------------------------------------------------------------------
\* How the operating system walks a path from the root of a disk t, following
\* links, and where it is after each component.
Step(t, at, c) ==
  IF at \notin t.dirs THEN NoPath
  ELSE IF c = ".." THEN IF at = <<>> THEN at ELSE Front(at)
  ELSE LET next == Append(at, c)
       IN IF next \in DOMAIN t.links THEN t.links[next]
          ELSE IF next \in t.dirs \cup t.files THEN next ELSE NoPath
Walk(t, path) ==
  LET at[n \in 0 .. Len(path)] == IF n = 0 THEN <<>> ELSE Step(t, at[n - 1], path[n])
  IN  at
Canonicalize(t, path) == Walk(t, path)[Len(path)]

\* absolute_mount_path.
Absolute(host) == IF host.rooted THEN host.at ELSE WorkDir \o host.at

\* canonicalize_existing_mount_dir, of a path that leads to `at'.
ExistingDir(t, at) == IF at \in t.dirs THEN at ELSE NoPath

\* Mutant of RequiredDir: the path is normalized as text.
RequiredDirLexical(t, host) == NormalizePath(Absolute(host))

\* The part of a path that exists, and the components that do not.
Reach(t, path) == Max({n \in 0..Len(path) : Walk(t, path)[n] # NoPath})
Reached(t, path) == ExistingDir(t, Walk(t, path)[Reach(t, path)])
Missing(t, path) == SubSeq(path, Reach(t, path) + 1, Len(path))

\* required_capability_mount_dir: what the path will be once its missing
\* components are created below its last existing ancestor.
RequiredDir(t, host) ==
  LET path == Absolute(host)
  IN IF Reached(t, path) = NoPath \/ Contains(Missing(t, path), "..") THEN NoPath
     ELSE NormalizePath(Reached(t, path) \o Missing(t, path))

\* prepare_mount_dir: create_dir_all goes down the path and makes what it does
\* not find in a directory; a file in the way is an error.
WithDirs(t, new) == Tree(t.dirs \cup new, t.files, t.links)
MakeNext(t, made, c) ==
  LET next == Step(WithDirs(t, made.new), made.at, c)
  IN IF made.at \in t.dirs \cup made.new /\ next = NoPath
     THEN [at |-> Append(made.at, c), new |-> made.new \cup {Append(made.at, c)}]
     ELSE [at |-> next, new |-> made.new]
MakeDirs(t, path) ==
  LET made[n \in 0 .. Len(path)] ==
        IF n = 0 THEN [at |-> <<>>, new |-> {}] ELSE MakeNext(t, made[n - 1], path[n])
  IN  made
PrepareDir(t, path) ==
  LET made == MakeDirs(t, path)[Len(path)]
  IN  [at |-> ExistingDir(WithDirs(t, made.new), made.at), new |-> made.new]

\* normalize_guest_path: absolute, below the root, and no "..".
NormalizeGuest(guest) == SelectSeq(guest.at, LAMBDA c : c # ".")
GuestAccepted(guest) ==
  guest.rooted /\ ~guest.odd /\ ~Contains(guest.at, "..") /\ NormalizeGuest(guest) # <<>>
GuestOverlaps(left, right) == IsPrefix(left, right) \/ IsPrefix(right, left)

\* normalized_mounts.
MountsAccepted(mounts) ==
  /\ \A i \in DOMAIN mounts : GuestAccepted(mounts[i].guest)
  /\ \A i, j \in DOMAIN mounts : i # j =>
       ~GuestOverlaps(NormalizeGuest(mounts[i].guest), NormalizeGuest(mounts[j].guest))

\* WasiToolConfig::required_capabilities.
CapsFor(path, write) ==
  {[kind |-> k, at |-> path] : k \in IF write THEN {"read_file", "write_file"} ELSE {"read_file"}}
MountCaps(t, mounts) == UNION {CapsFor(RequiredDir(t, m.host), m.write) : m \in Range(mounts)}

\* WasiSandboxConfig::from_capabilities: one preopen per path, writable when
\* any capability for that path is.
FromCapabilities(caps) ==
  LET file == SelectSeq(caps, LAMBDA c : c.kind \in {"read_file", "list_dir", "write_file"})
      at(i) == NormalizePath(file[i].at)
      first == {i \in DOMAIN file : \A j \in 1 .. i - 1 : at(j) # at(i)}
  IN {[host |-> at(i), guest |-> at(i),
       write |-> \E j \in DOMAIN file : at(j) = at(i) /\ file[j].kind = "write_file"] : i \in first}

-----------------------------------------------------------------------------
Unborn == [pc |-> "idle"]

MountInit ==
  /\ disk = Tree(TreeDirs, TreeFiles, TreeLinks)
  /\ wasi = [c \in WasiCallers |-> Unborn]

At(c, label) == wasi[c].pc = label
SetCall(c, call) == wasi' = [wasi EXCEPT ![c] = call]
Leave(c, label) == SetCall(c, [wasi[c] EXCEPT !.pc = label])

\* execute_tool_wasi_with_config, and execute_tool_wasi for a tool that names
\* no mounts: its own capabilities are all it needs.  `opened' is where the
\* directories it has open are, and `moved' says that one of its mounts came to
\* lead elsewhere after its capabilities were derived.
BeginWasi(c, tool) ==
  /\ At(c, "idle")
  /\ SetCall(c, [pc |-> IF tool.mounts = NoPath THEN "authorize" ELSE "derive", tool |-> tool,
                 caps |-> Range(tool.caps), opens |-> {}, made |-> {}, done |-> 0,
                 opened |-> {}, moved |-> FALSE])
  /\ UNCHANGED disk

DeriveCaps(c) ==
  /\ At(c, "derive")
  /\ LET mounts == wasi[c].tool.mounts
     IN IF MountsAccepted(mounts) /\ \A m \in Range(mounts) : RequiredDir(disk, m.host) # NoPath
        THEN SetCall(c, [wasi[c] EXCEPT !.pc = "authorize", !.caps = @ \cup MountCaps(disk, mounts)])
        ELSE Leave(c, "failed")
  /\ UNCHANGED disk

\* CapabilityManager::authorize over the caller's valid tokens.
AuthorizeWasi(c) ==
  /\ At(c, "authorize")
  /\ LET call == wasi[c]
     IN IF \E cap \in call.caps : \A h \in call.tool.held : ~Allows(h, cap) THEN Leave(c, "refused")
        ELSE IF call.tool.mounts = NoPath
        THEN SetCall(c, [call EXCEPT !.pc = "open", !.opens = FromCapabilities(call.tool.caps)])
        ELSE Leave(c, "prepare")
  /\ UNCHANGED disk

\* prepare_mounts, one mount: prepare_mount_dir looks the path up again, and
\* what it finds is not compared with what was authorized.
PrepareMount(c) ==
  /\ At(c, "prepare") /\ wasi[c].done < Len(wasi[c].tool.mounts)
  /\ LET call == wasi[c]
         m == call.tool.mounts[call.done + 1]
         made == PrepareDir(disk, Absolute(m.host))
     IN /\ disk' = WithDirs(disk, made.new)
        /\ SetCall(c, [call EXCEPT
             !.pc = IF made.at = NoPath THEN "failed" ELSE @,
             !.opens = IF made.at = NoPath THEN @
                       ELSE @ \cup {[host |-> made.at, guest |-> NormalizeGuest(m.guest), write |-> m.write]},
             !.made = @ \cup made.new, !.done = @ + 1])

MountsPrepared(c) ==
  /\ At(c, "prepare") /\ wasi[c].done = Len(wasi[c].tool.mounts)
  /\ Leave(c, "open")
  /\ UNCHANGED disk

\* Bytes that do not compile fail the call before a worker is started.
InvalidModule(c) ==
  /\ At(c, "open")
  /\ Leave(c, "failed")
  /\ UNCHANGED disk

\* The worker opens every preopen, by its path once more; one that is not a
\* directory fails the run.
OpenMounts(c) ==
  /\ At(c, "open")
  /\ IF \A p \in wasi[c].opens : Canonicalize(disk, p.host) \in disk.dirs
     THEN SetCall(c, [wasi[c] EXCEPT
            !.pc = "running",
            !.opened = {[at |-> Canonicalize(disk, p.host), write |-> p.write] : p \in wasi[c].opens}])
     ELSE Leave(c, "failed")
  /\ UNCHANGED disk

\* Another process makes a directory or a file ...
OtherCreates ==
  /\ \E e \in OtherEntries :
       /\ e.at \notin disk.dirs \cup disk.files \cup DOMAIN disk.links /\ Front(e.at) \in disk.dirs
       /\ disk' = IF e.dir THEN WithDirs(disk, {e.at})
                  ELSE Tree(disk.dirs, disk.files \cup {e.at}, disk.links)
  /\ UNCHANGED wasi

\* ... or removes what is at a name, and may put a link there.
Replaced(t, e) ==
  LET gone(S) == {p \in S : IsPrefix(e.at, p)}
      kept == DOMAIN t.links \ gone(DOMAIN t.links)
  IN  Tree(t.dirs \ gone(t.dirs), t.files \ gone(t.files),
           [p \in kept \cup (IF e.to = NoPath THEN {} ELSE {e.at}) |-> IF p = e.at THEN e.to ELSE t.links[p]])

\* A mount of the call no longer leads where it did.
Diverted(t, u, call) ==
  /\ call.pc \in {"authorize", "prepare", "open"} /\ call.tool.mounts # NoPath
  /\ \E m \in Range(call.tool.mounts) :
       RequiredDir(u, m.host) = NoPath \/ RequiredDir(u, m.host) # RequiredDir(t, m.host)

OtherReplaces ==
  /\ \E e \in OtherLinks : disk' = Replaced(disk, e)
  /\ TreeOK(disk') /\ disk' # disk
  /\ wasi' = [c \in WasiCallers |->
       IF Diverted(disk, disk', wasi[c]) THEN [wasi[c] EXCEPT !.moved = TRUE] ELSE wasi[c]]

MountNext ==
  \/ \E c \in WasiCallers :
       \/ \E tool \in WasiTools : BeginWasi(c, tool)
       \/ DeriveCaps(c) \/ AuthorizeWasi(c) \/ PrepareMount(c) \/ MountsPrepared(c)
       \/ InvalidModule(c) \/ OpenMounts(c)
  \/ OtherCreates \/ OtherReplaces

MountSpec == MountInit /\ [][MountNext]_mountVars

-----------------------------------------------------------------------------
\* A directory the call has open, where the disk said it was, is one its tokens
\* let it read, and write if it is writable; and what the call created on the
\* way lies above a path it was authorized for.
CallAuthorized(call) ==
  LET may(cap) == \E h \in call.tool.held : Allows(h, cap)
  IN /\ call.tool.mounts # NoPath =>
          \A p \in call.opened : \A cap \in CapsFor(p.at, p.write) : may(cap)
     /\ \A d \in call.made : \E cap \in call.caps : may(cap) /\ IsPrefix(d, NormalizePath(cap.at))

\* The doc comment of the call says filesystem access is "always derived from
\* caller-held capability tokens": every call that opens mounts, or creates
\* directories for them, may.  It is not so: the path is looked up once to
\* authorize and again to create and to open, and a link put there in between
\* takes the call elsewhere.
MountsAreAuthorized == \A c \in WasiCallers : ~At(c, "idle") => CallAuthorized(wasi[c])

\* That is all that can go wrong: unless a mount of the call itself was made to
\* lead elsewhere between the two looks, the call stays within its tokens,
\* whatever other processes and other calls create, remove and link meanwhile,
\* and whatever links and ".." its own paths hold.
UndivertedAuthorized ==
  \A c \in WasiCallers : ~At(c, "idle") /\ ~wasi[c].moved => CallAuthorized(wasi[c])
=============================================================================
