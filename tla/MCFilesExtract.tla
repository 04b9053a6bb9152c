---------------------------- MODULE MCFilesExtract ----------------------------
(***************************************************************************)
(* Small datasets for FilesExtract: one tree with every kind of file, one  *)
(* with damaged metadata, one deeper than the walk goes.                   *)
(***************************************************************************)
EXTENDS FilesExtract, TLC

CONSTANTS a, b, A, up, manifest

MCNames == {a, b, A, up, manifest}
MCFolded == [n \in MCNames |-> IF n = A THEN a ELSE n]

E(n, o) == [name |-> n, object |-> o, dir |-> FALSE]
D(n, o) == [name |-> n, object |-> o, dir |-> TRUE]
Of(default, f) == [o \in Objects |-> IF o \in DOMAIN f THEN f[o] ELSE default]
Healthy ==
  [root |-> 1, kind |-> Of("free", <<"dir">>), extra |-> Of(0, <<>>), found |-> TRUE,
   master |-> TRUE, unread |-> {}, lost |-> {}, spilt |-> {}, torn |-> {}, dirs |-> Of(<<>>, <<>>), links |-> Of(1, <<>>), good |-> Of(<<>>, <<>>),
   locked |-> {}, folds |-> FALSE]

\* / = {A, a/ (read-only), manifest.json}; a = {a -> symlink, b = /A}, and one
\* where a file in a has the name manifest.json in / too
Home == [Healthy EXCEPT
  !.kind = Of("free", <<"dir", "dir", "file", "symlink", "file">>),
  !.dirs = Of(<<>>, <<<<E(A, 3), D(a, 2), E(manifest, 5)>>, <<E(a, 4), E(b, 3)>>>>),
  !.links = Of(1, 3 :> 2),
  !.good = Of(<<>>, 3 :> <<TRUE, TRUE>> @@ 5 :> <<TRUE>>)]
Shared == [Home EXCEPT
  !.dirs = Of(<<>>, <<<<D(a, 2), E(manifest, 5)>>, <<E(b, 5)>>>>), !.links = Of(1, 5 :> 2)]
Locked == [Home EXCEPT !.locked = {2, 5}]
\* The same with blocks and metadata that do not read
Rotten == [Home EXCEPT !.good = Of(<<>>, 3 :> <<TRUE, FALSE>> @@ 4 :> <<FALSE>> @@ 5 :> <<TRUE>>)]
Lossy == [Home EXCEPT !.lost = {2, 4}, !.spilt = {5}, !.torn = {2}]
Masterless == [Home EXCEPT !.master = FALSE]
Absent == [Home EXCEPT !.found = FALSE]
\* Directories inside each other, a name that climbs, names that fold, and
\* an object no filesystem tool can write
Tangle == [Healthy EXCEPT
  !.kind = Of("free", <<"dir", "dir", "dir", "other", "file">>),
  !.dirs = Of(<<>>, <<<<D(A, 2), D(b, 3), E(up, 5)>>, <<D(b, 3), E(manifest, 4)>>,
                      <<D(a, 1), D(b, 2), E(A, 5)>>>>),
  !.good = Of(<<>>, 5 :> <<TRUE>>),
  !.folds = TRUE]
\* A chain of directories deeper than MaxDepth
Chain == [Healthy EXCEPT
  !.kind = Of("free", <<"dir", "dir", "dir", "dir", "file">>),
  !.dirs = Of(<<>>, <<<<D(a, 2)>>, <<D(a, 3)>>, <<D(a, 4), E(b, 5)>>, <<E(b, 5)>>>>),
  !.good = Of(<<>>, 5 :> <<TRUE>>)]
\* The root directory is gone and a dnode owns the two slots after it
Slots == [Healthy EXCEPT
  !.kind = Of("free", <<"dir", "file", "inside", "inside", "file", "file">>),
  !.extra = Of(0, 2 :> 2), !.torn = {1},
  !.good = Of(<<>>, 2 :> <<TRUE, FALSE>> @@ 5 :> <<TRUE>>), !.unread = {6}]

MCDatasets == {Home, Shared, Locked, Rotten, Lossy, Tangle, Chain, Slots, Masterless, Absent}

Line(command, paths, deep, strict, mode, super, full) ==
  [command |-> command, paths |-> paths, deep |-> deep, strict |-> strict, mode |-> mode,
   super |-> super, full |-> full]
Places == {<<>>, <<<<a>>>>, <<<<A>>>>, <<<<a>>, <<A>>>>, <<<<a, b>>, <<>>>>, <<<<manifest>>, <<A>>, <<A>>>>}
MCCommandLines ==
  {Line("extract", ps, TRUE, s, m, u, f) : ps \in Places, s, m, u, f \in BOOLEAN}
    \cup {Line("list", ps, d, FALSE, FALSE, FALSE, FALSE) : ps \in {<<>>, <<<<a>>>>, <<<<A>>>>}, d \in BOOLEAN}
    \cup {Line("objects", <<>>, FALSE, s, FALSE, FALSE, f) : s, f \in BOOLEAN}
=============================================================================
