------------------------------ MODULE MCMounts ------------------------------
(***************************************************************************)
(* A small disk and the WASI tools called on it: a link out of the way its *)
(* text goes, a tree that grows, and names that change what they mean.     *)
(***************************************************************************)
EXTENDS WasiMounts

Disk == {<<>>, <<"data">>, <<"data", "sub">>, <<"etc">>}
DiskWork == <<"data">>
DiskLinks == <<"link">> :> <<"data", "sub">>
Entry(path, dir) == [at |-> path, dir |-> dir]
DiskEntries == {Entry(<<"data", "new">>, TRUE), Entry(<<"data", "new">>, FALSE), Entry(<<"data", "sub", "x">>, FALSE)}
\* A link that appears where a mount is or is to be created, one that is turned
\* round, and a removal, which leaves every mount where it was.
DiskSwaps == {[at |-> <<"data", "new">>, to |-> <<"etc">>], [at |-> <<"link">>, to |-> <<"etc">>],
              [at |-> <<"data", "new">>, to |-> NoPath]}
File(kind, path) == [kind |-> kind, at |-> path]
Mount(path, guest, write) ==
  [host |-> [rooted |-> TRUE, at |-> path], guest |-> [rooted |-> TRUE, odd |-> FALSE, at |-> guest], write |-> write]
Tool(mounts, held) == [mounts |-> mounts, caps |-> <<>>, held |-> held]
ReadUnder(path) == File("read_file", path)
DiskTools ==
  {Tool(<<Mount(<<"link", "..", "new", "deep">>, <<"a">>, TRUE), Mount(<<"data", "sub", "x">>, <<"b", ".">>, FALSE)>>,
        {ReadUnder(<<"data">>), File("write_file", <<"data", "new", "deep">>)}),
   Tool(<<Mount(<<"link", "..", "etc">>, <<"a">>, FALSE)>>, {ReadUnder(<<"etc">>)}),
   Tool(<<Mount(<<"gone", "..", "etc">>, <<"a">>, FALSE)>>, {ReadUnder(<<>>)}),
   Tool(<<Mount(<<"data">>, <<"a">>, FALSE), Mount(<<"etc">>, <<"a", "b">>, FALSE)>>, {ReadUnder(<<>>)}),
   Tool(<<[Mount(<<"new">>, <<"a">>, FALSE) EXCEPT !.host.rooted = FALSE]>>, {ReadUnder(<<"data", "new">>)}),
   [Tool(NoPath, {ReadUnder(<<>>), File("write_file", <<"data", "new">>)}) EXCEPT
      !.caps = <<ReadUnder(<<"data", "sub", "..", "new">>), File("write_file", <<"data", "new">>), ReadUnder(<<"etc">>)>>]}

\* One call that may read the directory it mounts, and one link.
OneTool == {Tool(<<Mount(<<"data", "new">>, <<"a">>, FALSE)>>, {ReadUnder(<<"data">>)})}
OneSwap == {[at |-> <<"data", "new">>, to |-> <<"etc">>]}

-----------------------------------------------------------------------------
\* The mounts on their own; no token is issued while a call runs.
MountRun == TokenInit /\ MountInit /\ [][MountNext /\ UNCHANGED tokenVars]_<<mountVars, tokenVars>>
=============================================================================
