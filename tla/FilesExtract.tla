----------------------------- MODULE FilesExtract -----------------------------
(***************************************************************************)
(* `zvolfiles`: a filesystem dataset walked into a list of names (`list`), *)
(* written out as a tree with a manifest (`extract`), or written out       *)
(* object by object when the names are gone (`objects`).                   *)
(*                                                                         *)
(* The tree on disk may be damaged: an object under several names, a       *)
(* directory inside itself, metadata that does not read.  The tree written *)
(* is the host's: a directory has to be there and writable before a file   *)
(* can be made in it, and two names may be one file.                       *)
(*                                                                         *)
(* Simplifications:                                                        *)
(*  - what reads is a fact of the dataset (PoolReader is about reading);   *)
(*  - a file is a sequence of whole blocks, its digest is its contents;    *)
(*  - of a mode only the owner's write bit is kept, and of the platform    *)
(*    only that a superuser may write whatever the mode;                   *)
(*  - a run starts with an empty output directory;                         *)
(*  - extended attributes, owners and times are left out.                  *)
(***************************************************************************)
EXTENDS Naturals, Sequences, FiniteSets

CONSTANTS
  NObjects,   \* the highest object number
  Names,      \* directory entry names
  Folded,     \* Folded[n]: the name as case folding and normalization give it
  Climbing,   \* the names safe_join refuses: "..", a NUL inside
  Manifest,   \* "manifest.json"
  MaxDepth,   \* MAX_DEPTH of the walk
  Datasets,   \* the datasets on disk
  CommandLines \* the command lines

Objects == 1 .. NObjects
Nowhere == 0
Paths == Seq(Names)
Kinds == {"dir", "file", "symlink", "other", "free", "inside"}
Zeros == <<0, 0>>
Listed == <<0, 1>>           \* the text of the manifest
TargetOf(o) == <<o, 0>>
Block(o, i) == <<o, i>>
Contents == Seq(Nat \X Nat)
Commands == {"list", "extract", "objects"}
Exits == {"running", "0", "PARTIAL", "INTERRUPTED", "MEDIUM", "USAGE", "REFUSED", "UNRECOVERABLE"}

DirEntries == [name : Names, object : Objects, dir : BOOLEAN]
DatasetType ==
  [root   : Objects,
   kind   : [Objects -> Kinds],            \* "inside": a slot another dnode owns
   extra  : [Objects -> Nat],              \* dn_extra_slots
   found  : BOOLEAN,                       \* a readable TXG has the dataset, its key fits
   master : BOOLEAN,                       \* the object set and the master node read
   unread : SUBSET Objects,                \* the dnode does not read
   lost   : SUBSET Objects,                \* its attributes do not: no such layout
   spilt  : SUBSET Objects,                \* nor do those in its spill block
   torn   : SUBSET Objects,                \* the directory ZAP does not read
   dirs   : [Objects -> Seq(DirEntries)],  \* entries in byte order
   links  : [Objects -> Nat],
   good   : [Objects -> Seq(BOOLEAN)],     \* which blocks read
   locked : SUBSET Objects,                \* mode without the owner's write bit
   folds  : BOOLEAN]                       \* casesensitivity or normalization says so
OptionsType ==
  [command : Commands, paths : Seq(Paths), deep : BOOLEAN, strict : BOOLEAN,
   mode : BOOLEAN,                         \* --preserve mode
   super : BOOLEAN, full : BOOLEAN]        \* full: the output disk may fill up

ASSUME NamesAssumption ==
  /\ NObjects \in Nat \ {0} /\ MaxDepth \in Nat
  /\ Manifest \in Names /\ Climbing \subseteq Names /\ Folded \in [Names -> Names]
\* A ZAP holds a name once.  A dnode and the slots it owns are in one block:
\* they read together or not at all.
NamesOnce(d) ==
  \A o \in Objects : \A i, j \in DOMAIN d.dirs[o] :
    d.dirs[o][i].name = d.dirs[o][j].name => i = j
Owns(d, o, s) == d.kind[o] # "inside" /\ s \in o + 1 .. o + d.extra[o]
SlotsOwned(d) ==
  /\ \A s \in Objects : d.kind[s] = "inside" => \E o \in Objects : Owns(d, o, s)
  /\ \A o, s \in Objects :
       Owns(d, o, s) => d.kind[s] = "inside" /\ (o \in d.unread <=> s \in d.unread)

ASSUME DatasetsAssumption ==
  \A d \in Datasets : d \in DatasetType /\ NamesOnce(d) /\ SlotsOwned(d)
ASSUME CommandLinesAssumption ==
  \A c \in CommandLines : c \in OptionsType /\ (c.command = "extract" => c.deep)

VARIABLES
  disk,     \* the dataset
  opt,      \* the command line
  flag,     \* the interrupt flag
  phase,    \* where the run is
  roots,    \* the requested places still to do: <<object, path>>
  stack,    \* the recursion of walk_into
  walked,   \* seen_dirs
  listing,  \* what walk_from returned, less what was handled
  out,      \* the output directory: its names and the host's inodes
  copy,     \* copy_file in progress
  written,  \* written_objects: object -> path and digest
  files,    \* the lines of the manifest
  slot,     \* the object number `objects` is at
  cut,      \* the manifest's `interrupted`
  exit      \* the exit status

vars == <<disk, opt, flag, phase, roots, stack, walked, listing, out, copy, written,
          files, slot, cut, exit>>
source == <<disk, opt>>
walk == <<stack, walked>>
ledger == <<written, files>>

-----------------------------------------------------------------------------
(* The dataset                                                             *)

\* open_filesystem
Opening == disk.found /\ disk.master

\* DnodeArray::get
Gets(o) == o \notin disk.unread

\* spilled_attrs: half the attributes are no attributes
Spill(o) == o \notin disk.spilt

\* znode
Reads(o) == Gets(o) /\ disk.kind[o] \notin {"free", "inside"} /\ o \notin disk.lost /\ Spill(o)

\* read_dir
Lists(o) == Gets(o) /\ disk.kind[o] = "dir" /\ o \notin disk.torn

\* lookup_bytes and matched_as_text, one component: the exact name wins
Child(o, n) ==
  LET of == disk.dirs[o]
      exact == {i \in DOMAIN of : of[i].name = n}
      alike == {i \in DOMAIN of : Folded[of[i].name] = Folded[n]}
      first(S) == CHOOSE i \in S : \A j \in S : i <= j
  IN  IF o = Nowhere \/ ~Lists(o) THEN Nowhere
      ELSE IF exact # {} THEN of[first(exact)].object
      ELSE IF disk.folds /\ alike # {} THEN of[first(alike)].object
      ELSE Nowhere

\* lookup_bytes
Lookup(path) ==
  LET at[i \in 0 .. Len(path)] ==
        IF i = 0 THEN disk.root
        ELSE IF at[i - 1] = Nowhere THEN Nowhere ELSE Child(at[i - 1], path[i])
  IN  at[Len(path)]

-----------------------------------------------------------------------------
(* The host                                                                *)

Put(f, k, v) == [x \in DOMAIN f \cup {k} |-> IF x = k THEN v ELSE f[x]]
Parent(path) == SubSeq(path, 1, Len(path) - 1)
Upto(path, n) == SubSeq(path, 1, n)

Dir == [dir |-> TRUE, locked |-> FALSE, cells |-> <<>>]
File(cells) == [dir |-> FALSE, locked |-> FALSE, cells |-> cells]
At(h, path) == h.inodes[h.tree[path]]
Allows(inode) == opt.super \/ ~inode.locked

\* A new name can be made at path
Makes(h, path) ==
  /\ path # <<>> /\ path \notin DOMAIN h.tree
  /\ Parent(path) \in DOMAIN h.tree
  /\ At(h, Parent(path)).dir /\ Allows(At(h, Parent(path)))

\* File::create and fs::write can open path
Opens(h, path) ==
  IF path \in DOMAIN h.tree THEN ~At(h, path).dir /\ Allows(At(h, path)) ELSE Makes(h, path)

\* path opened, and these cells in it
WriteTo(h, path, cells) ==
  IF path \in DOMAIN h.tree
  THEN [h EXCEPT !.inodes[h.tree[path]].cells = cells]
  ELSE [tree |-> Put(h.tree, path, Len(h.inodes) + 1), inodes |-> Append(h.inodes, File(cells))]

\* hard_link
LinkTo(h, from, path) == [h EXCEPT !.tree = Put(h.tree, path, h.tree[from])]

\* create_dir_all: whether it succeeds, and what it leaves
Deepest(h, path) ==
  CHOOSE n \in 0 .. Len(path) :
    /\ Upto(path, n) \in DOMAIN h.tree
    /\ \A m \in (n + 1) .. Len(path) : Upto(path, m) \notin DOMAIN h.tree
MakesDirs(h, path) ==
  LET base == Upto(path, Deepest(h, path))
  IN  At(h, base).dir /\ (base # path => Allows(At(h, base)))
MakeDirs(h, path) ==
  LET n == Deepest(h, path)
      new == {Upto(path, m) : m \in (n + 1) .. Len(path)}
  IN  IF ~MakesDirs(h, path) THEN h
      ELSE [tree |-> [x \in DOMAIN h.tree \cup new |->
                        IF x \in DOMAIN h.tree THEN h.tree[x] ELSE Len(h.inodes) + Len(x) - n],
            inodes |-> h.inodes \o [m \in 1 .. Len(path) - n |-> Dir]]

\* set_mode, where --preserve says mode
SetMode(h, path, o) ==
  IF opt.mode THEN [h EXCEPT !.inodes[h.tree[path]].locked = (o \in disk.locked)] ELSE h

\* safe_join
Safe(path) == path # <<>> /\ \A i \in DOMAIN path : path[i] \notin Climbing

-----------------------------------------------------------------------------
(* The records                                                             *)

Entry(path, o, known) == [path |-> path, object |-> o, known |-> known]
\* digest: the contents a SHA-256 was recorded of, if any
Record(e, digest, errors, failed) ==
  [path |-> e.path, object |-> e.object, digest |-> digest, errors |-> errors, failed |-> failed]
Failed(e) == Record(e, {}, 0, TRUE)
Made(e) == Record(e, {}, 0, FALSE)
Copied(e, cells, errors) == Record(e, {cells}, errors, FALSE)
Linked(e, cells) == Record(e, {cells}, 0, FALSE)

NoCopy == [entry |-> Entry(<<>>, 1, FALSE), at |-> 0, ino |-> 0, errors |-> 0]

-----------------------------------------------------------------------------
Init ==
  /\ disk \in Datasets /\ opt \in CommandLines
  /\ flag = FALSE /\ phase = "open"
  /\ roots = <<>> /\ stack = <<>> /\ walked = {} /\ listing = <<>>
  /\ out = [tree |-> [x \in {<<>>} |-> 1], inodes |-> <<Dir>>]
  /\ copy = NoCopy /\ written = <<>> /\ files = <<>>
  /\ slot = 1 /\ cut = FALSE /\ exit = "running"

\* A signal; `list` and `objects` install no handler and end
Interrupt ==
  /\ phase # "ended" /\ opt.command = "extract" /\ ~flag
  /\ flag' = TRUE
  /\ UNCHANGED <<source, phase, roots, walk, listing, out, copy, ledger, slot, cut, exit>>

Ends(code) == phase' = "ended" /\ exit' = code

\* with_dataset, refuse_if_evidence, create_dir_all of the output, or a path
\* that leads nowhere
OpenFails ==
  /\ phase = "open"
  /\ \/ ~disk.found /\ \E code \in {"USAGE", "UNRECOVERABLE", "MEDIUM"} : Ends(code)
     \/ ~Opening /\ Ends("UNRECOVERABLE")
     \/ opt.command # "list" /\ \E code \in {"REFUSED", "USAGE"} : Ends(code)
     \/ /\ Opening /\ opt.command # "objects" /\ \E i \in DOMAIN opt.paths : Lookup(opt.paths[i]) = Nowhere
        /\ Ends("UNRECOVERABLE")
  /\ UNCHANGED <<source, flag, roots, walk, listing, out, copy, ledger, slot, cut>>

\* The paths asked for, or the whole dataset
Open ==
  /\ phase = "open" /\ Opening
  /\ \A i \in DOMAIN opt.paths : Lookup(opt.paths[i]) # Nowhere
  /\ IF opt.command = "objects"
     THEN phase' = "objects" /\ UNCHANGED roots
     ELSE /\ phase' = "roots"
          /\ roots' = IF opt.paths = <<>> THEN <<Entry(<<>>, disk.root, TRUE)>>
                      ELSE [i \in DOMAIN opt.paths |->
                              Entry(opt.paths[i], Lookup(opt.paths[i]), TRUE)]
  /\ UNCHANGED <<source, flag, walk, listing, out, copy, ledger, slot, cut, exit>>

-----------------------------------------------------------------------------
(* walk_into                                                               *)

Frame(path, o, depth) == [path |-> path, rest |-> disk.dirs[o], depth |-> depth]

\* A directory is walked: one more frame, or an entry saying it did not read
Entered(path, o, depth) == IF Lists(o) THEN <<Frame(path, o, depth)>> ELSE <<>>
NotRead(path, o) == IF Lists(o) THEN <<>> ELSE <<Entry(path, o, FALSE)>>

\* The next place asked for: a directory is walked, anything else is one entry
TakeRoot ==
  /\ phase = "roots" /\ roots # <<>> /\ ~flag
  /\ LET r == Head(roots)
     IN  IF opt.command = "list" \/ (Reads(r.object) /\ disk.kind[r.object] = "dir")
         THEN /\ stack' = Entered(r.path, r.object, 0)
              /\ listing' = NotRead(r.path, r.object)
              /\ walked' = {r.object} /\ phase' = "walk"
         ELSE /\ listing' = <<Entry(r.path, r.object, Reads(r.object))>>
              /\ phase' = "entry" /\ UNCHANGED walk
  /\ UNCHANGED <<source, flag, roots, out, copy, ledger, slot, cut, exit>>

\* One entry of the directory on top: the znode says whether it is a
\* directory, and where there is none the entry does
IsDir(e) == IF Reads(e.object) THEN disk.kind[e.object] = "dir" ELSE e.dir
Walks(e, depth) == opt.deep /\ IsDir(e) /\ depth <= MaxDepth /\ e.object \notin walked

WalkEntry ==
  /\ phase = "walk" /\ stack # <<>>
  /\ LET n == Len(stack)
         top == stack[n]
         e == Head(top.rest)
         path == Append(top.path, e.name)
         below == [stack EXCEPT ![n].rest = Tail(@)]
         met == Append(listing, Entry(path, e.object, Reads(e.object)))
     IN  /\ top.rest # <<>>
         /\ IF Walks(e, top.depth + 1)
            THEN /\ stack' = below \o Entered(path, e.object, top.depth + 1)
                 /\ listing' = met \o NotRead(path, e.object)
                 /\ walked' = walked \cup {e.object}
            ELSE stack' = below /\ listing' = met /\ UNCHANGED walked
  /\ UNCHANGED <<source, flag, phase, roots, out, copy, ledger, slot, cut, exit>>

WalkReturn ==
  /\ phase = "walk" /\ stack # <<>> /\ stack[Len(stack)].rest = <<>>
  /\ stack' = SubSeq(stack, 1, Len(stack) - 1)
  /\ UNCHANGED <<source, flag, phase, roots, walked, listing, out, copy, ledger, slot, cut, exit>>

WalkEnds ==
  /\ phase = "walk" /\ stack = <<>>
  /\ IF opt.command = "extract"
     THEN phase' = "entries" /\ UNCHANGED exit
     ELSE \E stopped \in BOOLEAN :
            Ends(IF stopped THEN "MEDIUM"
                 ELSE IF \E i \in DOMAIN listing : ~listing[i].known THEN "PARTIAL" ELSE "0")
  /\ UNCHANGED <<source, flag, roots, walk, listing, out, copy, ledger, slot, cut>>

-----------------------------------------------------------------------------
(* extract_entry                                                           *)

NextEntry ==
  /\ phase = "entries" /\ listing # <<>> /\ ~flag
  /\ phase' = "entry"
  /\ UNCHANGED <<source, flag, roots, walk, listing, out, copy, ledger, slot, cut, exit>>

EndEntries ==
  /\ phase = "entries" /\ (listing = <<>> \/ flag)
  /\ phase' = "roots" /\ roots' = Tail(roots) /\ listing' = <<>>
  /\ UNCHANGED <<source, flag, walk, out, copy, ledger, slot, cut, exit>>

Now == Head(listing)
Kind == disk.kind[Now.object]
Writable(kind) == phase = "entry" /\ Now.known /\ Safe(Now.path) /\ Kind = kind

\* The entry is handled, with this line in the manifest
Handled(record) ==
  /\ files' = Append(files, record)
  /\ listing' = Tail(listing) /\ phase' = "entries"
  /\ UNCHANGED <<source, flag, roots, walk, copy, slot, cut, exit>>

EntryRefused ==
  /\ phase = "entry" /\ (~Now.known \/ ~Safe(Now.path) \/ Kind = "other")
  /\ Handled(Failed(Now)) /\ UNCHANGED <<out, written>>

EntryDir ==
  /\ Writable("dir")
  /\ IF MakesDirs(out, Now.path)
     THEN /\ out' = SetMode(MakeDirs(out, Now.path), Now.path, Now.object)
          /\ Handled(Made(Now))
     ELSE UNCHANGED out /\ Handled(Failed(Now))
  /\ UNCHANGED written

\* A symbolic link is written as a file holding its target
TargetReads == \A i \in DOMAIN disk.good[Now.object] : disk.good[Now.object][i]
EntrySymlink ==
  /\ Writable("symlink")
  /\ IF TargetReads /\ Opens(out, Now.path)
     THEN \/ /\ out' = SetMode(WriteTo(out, Now.path, <<TargetOf(Now.object)>>),
                               Now.path, Now.object)
             /\ Handled(Made(Now))
          \/ /\ opt.full /\ out' = WriteTo(out, Now.path, <<>>)
             /\ Handled(Failed(Now))
     ELSE UNCHANGED out /\ Handled(Failed(Now))
  /\ UNCHANGED written

\* The directories above a regular file are made first
Above == MakeDirs(out, Parent(Now.path))

\* An object already written under another name
EntryLinkAnyway ==  \* mutant: recorded as linked whether or not hard_link succeeds
  /\ Writable("file") /\ Now.object \in DOMAIN written
  /\ out' = IF Makes(Above, Now.path) THEN LinkTo(Above, written[Now.object].path, Now.path) ELSE Above
  /\ Handled(Linked(Now, written[Now.object].cells))
  /\ UNCHANGED written

EntryLink ==
  /\ Writable("file") /\ Now.object \in DOMAIN written
  /\ LET first == written[Now.object]
     IN  IF Makes(Above, Now.path)
         THEN out' = LinkTo(Above, first.path, Now.path) /\ Handled(Linked(Now, first.cells))
         ELSE out' = Above /\ Handled(Failed(Now))
  /\ UNCHANGED written

EntryFile ==
  /\ Writable("file") /\ Now.object \notin DOMAIN written
  /\ IF Opens(Above, Now.path)
     THEN LET h == WriteTo(Above, Now.path, <<>>)
          IN  /\ out' = h
              /\ copy' = [entry |-> Now, at |-> 0, ino |-> h.tree[Now.path], errors |-> 0]
              /\ listing' = Tail(listing) /\ phase' = "copy"
              /\ UNCHANGED <<source, flag, roots, walk, files, slot, cut, exit>>
     ELSE out' = Above /\ Handled(Failed(Now))
  /\ UNCHANGED written

-----------------------------------------------------------------------------
(* copy_file                                                               *)

Copying == disk.good[copy.entry.object]
Digest == out.inodes[copy.ino].cells

CopyBlock ==
  /\ phase = "copy" /\ copy.at < Len(Copying) /\ ~flag
  /\ LET reads == Copying[copy.at + 1]
         cell == IF reads THEN Block(copy.entry.object, copy.at + 1) ELSE Zeros
     IN  /\ reads \/ ~opt.strict
         /\ out' = [out EXCEPT !.inodes[copy.ino].cells = Append(@, cell)]
         /\ copy' = [copy EXCEPT !.at = @ + 1, !.errors = IF reads THEN @ ELSE @ + 1]
  /\ UNCHANGED <<source, flag, phase, roots, walk, listing, ledger, slot, cut, exit>>

\* The file stays as it is, under its name
CopyStops ==
  /\ phase = "copy" /\ copy.at < Len(Copying)
  /\ flag \/ (opt.strict /\ ~Copying[copy.at + 1]) \/ opt.full
  /\ files' = Append(files, Failed(copy.entry))
  /\ copy' = NoCopy /\ phase' = "entries"
  /\ UNCHANGED <<source, flag, roots, walk, listing, out, written, slot, cut, exit>>

CopyEnds ==
  /\ phase = "copy" /\ copy.at = Len(Copying)
  /\ LET e == copy.entry
     IN  /\ files' = Append(files, Copied(e, Digest, copy.errors))
         /\ written' = IF disk.links[e.object] > 1
                       THEN Put(written, e.object, [path |-> e.path, cells |-> Digest])
                       ELSE written
         /\ out' = SetMode(out, e.path, e.object)
  /\ copy' = NoCopy /\ phase' = "entries"
  /\ UNCHANGED <<source, flag, roots, walk, listing, slot, cut, exit>>

-----------------------------------------------------------------------------
(* The end of a run                                                        *)

\* The flag is read once more
LastRoot ==
  /\ phase = "roots" /\ (roots = <<>> \/ flag)
  /\ phase' = "manifest" /\ cut' = flag
  /\ UNCHANGED <<source, flag, roots, walk, listing, out, copy, ledger, slot, exit>>

CodeOfFailures ==  \* mutant: blocks written as zeros are not counted
  IF cut THEN "INTERRUPTED"
  ELSE IF \E i \in DOMAIN files : files[i].failed THEN "PARTIAL"
  ELSE "0"

Code ==
  IF cut THEN "INTERRUPTED"
  ELSE IF \E i \in DOMAIN files : files[i].failed \/ files[i].errors > 0 THEN "PARTIAL"
  ELSE "0"

WriteManifest ==
  /\ phase = "manifest"
  /\ IF Opens(out, <<Manifest>>)
     THEN \/ /\ out' = WriteTo(out, <<Manifest>>, <<Listed>>)
             /\ \E code \in {Code, "MEDIUM"} : Ends(code)
          \/ opt.full /\ out' = WriteTo(out, <<Manifest>>, <<>>) /\ Ends("USAGE")
     ELSE UNCHANGED out /\ Ends("USAGE")
  /\ UNCHANGED <<source, flag, roots, walk, listing, copy, ledger, slot, cut>>

-----------------------------------------------------------------------------
(* `objects`                                                               *)

Blocks(o) == [i \in DOMAIN disk.good[o] |->
                IF disk.good[o][i] THEN Block(o, i) ELSE Zeros]
Lost(o) == Cardinality({i \in DOMAIN disk.good[o] : ~disk.good[o][i]})
NextSlot(o) == o + 1  \* mutant: the slots a large dnode owns are looked at too
NextObject(o) == o + 1 + disk.extra[o]

\* A dnode that does not read is stepped over, with no line in the index
ObjectSkipped ==
  /\ phase = "objects" /\ slot <= NObjects
  /\ ~Gets(slot) \/ disk.kind[slot] = "free"
  /\ slot' = IF Gets(slot) THEN NextObject(slot) ELSE slot + 1
  /\ UNCHANGED <<source, flag, phase, roots, walk, listing, out, copy, ledger, cut, exit>>

ObjectWritten ==
  /\ phase = "objects" /\ slot <= NObjects
  /\ Gets(slot) /\ disk.kind[slot] # "free"
  /\ LET e == Entry(<<>>, slot, TRUE)
     IN  \/ /\ ~opt.strict \/ Lost(slot) = 0
            /\ files' = Append(files, Copied(e, Blocks(slot), Lost(slot)))
         \/ /\ (opt.strict /\ Lost(slot) > 0) \/ opt.full
            /\ files' = Append(files, Failed(e))
  /\ slot' = NextObject(slot)
  /\ UNCHANGED <<source, flag, phase, roots, walk, listing, out, copy, written, cut, exit>>

ObjectsEnd ==
  /\ phase = "objects" /\ slot > NObjects
  /\ \E code \in {Code, "MEDIUM"} \cup (IF opt.full THEN {"USAGE"} ELSE {}) : Ends(code)
  /\ UNCHANGED <<source, flag, roots, walk, listing, out, copy, ledger, slot, cut>>

-----------------------------------------------------------------------------
Next ==
  \/ Interrupt \/ OpenFails \/ Open
  \/ TakeRoot \/ WalkEntry \/ WalkReturn \/ WalkEnds
  \/ NextEntry \/ EndEntries
  \/ EntryRefused \/ EntryDir \/ EntrySymlink \/ EntryLink \/ EntryFile
  \/ CopyBlock \/ CopyStops \/ CopyEnds
  \/ LastRoot \/ WriteManifest
  \/ ObjectSkipped \/ ObjectWritten \/ ObjectsEnd

Spec == Init /\ [][Next]_vars

-----------------------------------------------------------------------------
(* Properties                                                              *)

\* Every directory has one name, as in a tree nothing has damaged.
TreeShaped ==
  \A o, q \in Objects : \A i \in DOMAIN disk.dirs[o], j \in DOMAIN disk.dirs[q] :
    LET e == disk.dirs[o][i]  f == disk.dirs[q][j]
    IN  disk.kind[e.object] = "dir" =>
          /\ e.object # disk.root
          /\ e.object = f.object => <<o, i>> = <<q, j>>

Extracted(codes) == opt.command = "extract" /\ exit \in codes
Asked == IF opt.paths = <<>> THEN {<<>>} ELSE {opt.paths[i] : i \in DOMAIN opt.paths}
HasRecord(path, o) == \E i \in DOMAIN files : files[i].path = path /\ files[i].object = o

\* The manifest was written over the file of this name, or over another name
\* of the same file.
Overwritten(path) ==
  /\ phase = "ended" /\ {path, <<Manifest>>} \subseteq DOMAIN out.tree
  /\ out.tree[path] = out.tree[<<Manifest>>]

\* A digest in the manifest is of the file that is under that name in the
\* output, however many names share the file and whatever was written after
\* it, in every state of a run.  Left out: a name asked for twice, and the
\* names of the file run() wrote the manifest over.
ManifestTells ==
  opt.command = "extract" =>
    \A i \in DOMAIN files :
      LET r == files[i]
      IN  (/\ r.digest # {} /\ r.path # copy.entry.path /\ ~Overwritten(r.path)
           /\ \A j \in DOMAIN files : j # i => files[j].path # r.path)
          => r.path \in DOMAIN out.tree /\ At(out, r.path).cells \in r.digest

\* Every name in every directory that was reached, within MAX_DEPTH of a place
\* asked for whose attributes read.
NamesHaveLines ==
  LET reached == {<<p, Lookup(p)>> : p \in Asked} \cup
                 {<<files[i].path, files[i].object>> : i \in DOMAIN files}
  IN  \A q \in Asked : \A r \in reached :
        (/\ Reads(Lookup(q)) /\ Reads(r[2]) /\ Lists(r[2])
         /\ Len(r[1]) \in Len(q) .. Len(q) + MaxDepth /\ Upto(r[1], Len(q)) = q)
        => \A i \in DOMAIN disk.dirs[r[2]] :
             HasRecord(Append(r[1], disk.dirs[r[2]][i].name), disk.dirs[r[2]][i].object)

FilesAreWhole ==
  \A i \in DOMAIN files :
    /\ Reads(files[i].object) /\ ~files[i].failed
    /\ disk.kind[files[i].object] = "file" =>
         Lost(files[i].object) = 0 /\ files[i].digest = {Blocks(files[i].object)}

\* A run that nothing interrupted has a line for every name in every
\* directory it reached, and one that exits 0 has read and digested every
\* block of every file among them.
StatusTells ==
  /\ Extracted({"0", "PARTIAL"}) /\ TreeShaped => NamesHaveLines
  /\ Extracted({"0"}) => FilesAreWhole

\* `objects` writes the objects there are: no slot a large dnode owns is
\* taken for one, and none whose dnode reads is passed over.
ObjectsAreTheDataset ==
  opt.command = "objects" =>
    LET there == {o \in Objects : Gets(o) /\ disk.kind[o] \notin {"free", "inside"}}
    IN  /\ \A i \in DOMAIN files : files[i].object \in there
        /\ exit \in {"0", "PARTIAL"} => \A o \in there : HasRecord(<<>>, o)
=============================================================================
