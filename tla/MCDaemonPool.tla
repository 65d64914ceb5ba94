---------------------------- MODULE MCDaemonPool -----------------------------
(***************************************************************************)
(* Small instances of the daemon's pool: the frames its peers send and the *)
(* environments it is started in.                                          *)
(***************************************************************************)
EXTENDS DaemonPool

CONSTANTS w1, w2   \* WASM byte strings

Bytes(wasm) == [type |-> "execute", token |-> TRUE, bytes |-> wasm, path |-> NoHv, proof |-> FALSE]
AtPath(real, wasm) == [Bytes(NoHv) EXCEPT !.path = [real |-> real, file |-> TRUE, wasm |-> wasm]]
Frame(type) == [type |-> type, token |-> TRUE]

\* A cached tool and one that is always given by its path; a ping, a request
\* without the token, one whose path is not listed, and a shutdown.
SomeFrames ==
  {Bytes(w1), [AtPath(<<"mods", "w2">>, w2) EXCEPT !.proof = TRUE], AtPath(<<"mods", "w2">>, w2),
   AtPath(<<"etc">>, w1), Frame("ping"), [Frame("shutdown") EXCEPT !.token = FALSE], Frame("shutdown")}
OneFrame == {Bytes(w1)}

Unset == [token |-> FALSE, releaseBuild |-> FALSE, release |-> FALSE, profile |-> NoHv, dirs |-> {}]
WithToken == [Unset EXCEPT !.token = TRUE]
\* The last three do not start.
SomeDaemons ==
  {[WithToken EXCEPT !.releaseBuild = TRUE, !.dirs = {<<"mods">>}], [Unset EXCEPT !.dirs = {<<"mods">>}],
   [Unset EXCEPT !.releaseBuild = TRUE], [Unset EXCEPT !.release = TRUE],
   [Unset EXCEPT !.profile = [valid |-> TRUE, authRequired |-> TRUE]]}
OneDaemon == {WithToken}
=============================================================================
