------------------------------ MODULE FileCmds ------------------------------
(***************************************************************************)
(* The shell's file commands (shell.c): edit, write, touch, rm, cp, mv,    *)
(* mkdir and cd, over the volume that the FAT32 driver promises            *)
(* (module Volume): each call of the driver has its whole effect or none,  *)
(* but for a write or a delete that gives up once it has freed the entry's *)
(* clusters.  A command is several such calls, and what it does depends on *)
(* what the earlier ones answered.                                         *)
(*                                                                         *)
(* A directory is the path that leads to it from the root; a name is in    *)
(* 8.3 form; a file is who wrote it and how long it is.                    *)
(***************************************************************************)
EXTENDS Integers, Sequences, SequencesExt

CONSTANTS
  Dotted, Plain,    \* names with an extension, and without
  Writers,          \* tells apart what the user writes
  EditMax, CopyMax, \* EDIT_BUF_SIZE - 1 and CP_BUF_MAX, in units of length
  MaxLength,        \* the longest file a program leaves behind
  Tokens,           \* destinations: [abs, slash, dir, base]
  CdPaths,          \* [abs, dir]
  MaxCommands       \* bound

Dir == [who |-> "directory", len |-> 0]
Lost == [who |-> "freed", len |-> 0]   \* an entry whose clusters are free
NoName == "none"    \* a destination that ends with its slash
EntryNames == Dotted \cup Plain

\* A destination without a last component ends with its slash.
ASSUME FilesAssumption ==
  /\ Tokens \subseteq [abs : BOOLEAN, slash : BOOLEAN, dir : Seq(EntryNames \cup {".", ".."}),
                      base : EntryNames \cup {NoName}]
  /\ \A tok \in Tokens : tok.base = NoName => tok.slash
  /\ CdPaths \subseteq [abs : BOOLEAN, dir : Seq(EntryNames \cup {".", ".."})]

VARIABLES tree,     \* what every path stands for: Dir, or a file
          cwd,      \* fat32_cwd
          last,     \* ghost: the last command, and the entries it was about
          commands

fileVars == <<tree, cwd, last, commands>>

Data(who, len) == [who |-> who, len |-> len]
Smaller(a, b) == IF a < b THEN a ELSE b
Cut(data, max) == [data EXCEPT !.len = Smaller(@, max)]

IsDir(p) == p \in DOMAIN tree /\ tree[p] = Dir
IsFile(p) == p \in DOMAIN tree /\ tree[p] # Dir
Under(p, top) == IsPrefix(top, p)

FilesInit == /\ tree = [p \in {<<>>} |-> Dir] /\ cwd = <<>> /\ commands = 0
             /\ last = [cmd |-> "boot", ok |-> TRUE, from |-> <<>>, to |-> <<>>]

(* ------------------------------ the driver ----------------------------- *)
\* fat32_chdir stays where the first component that fails left it.
Enter1(w, name) ==
  IF ~w.ok \/ name = "." THEN w
  ELSE IF name = ".." THEN [w EXCEPT !.at = IF @ = <<>> THEN @ ELSE Front(@)]
  ELSE IF IsDir(Append(w.at, name)) THEN [w EXCEPT !.at = Append(@, name)]
  ELSE [w EXCEPT !.ok = FALSE]
ChdirFrom(start, path) ==
  FoldLeft(Enter1, [at |-> IF path.abs THEN <<>> ELSE start, ok |-> TRUE], path.dir)

Put(t, p, data) == [q \in DOMAIN t \cup {p} |-> IF q = p THEN data ELSE t[q]]
Gone(t, p) == [q \in {r \in DOMAIN t : ~Under(r, p)} |-> t[q]]
\* What fat32_delete leaves when it fails: its search did, or its last write.
DeleteFails(t, p) == {t, Put(Gone(t, p), p, Lost)}
\* fat32_rename carries a directory's contents along.
Moved(p, to) ==
  LET new(q) == IF Under(q, p) THEN to \o SubSeq(q, Len(p) + 1, Len(q)) ELSE q
      old(q) == IF Under(q, to) THEN p \o SubSeq(q, Len(to) + 1, Len(q)) ELSE q
  IN [q \in {new(r) : r \in DOMAIN tree} |-> tree[old(q)]]

(* ------------------------------ commands ------------------------------- *)
\* What commands do on a volume with a lost entry is not modelled.
Did(cmd, ok, from, to) ==
  /\ \A p \in DOMAIN tree : tree[p] # Lost
  /\ commands < MaxCommands /\ commands' = commands + 1
  /\ last' = [cmd |-> cmd, ok |-> ok, from |-> from, to |-> to]
Fails(cmd, from, to) == Did(cmd, FALSE, from, to) /\ UNCHANGED tree
\* fat32_write_file fails on a directory, on a full disk and when a transfer
\* fails; by then it may have freed the file it was to replace.
WriteFails(cmd, from, to) ==
  \/ Fails(cmd, from, to)
  \/ IsFile(to) /\ Did(cmd, FALSE, from, to) /\ tree' = Put(tree, to, Lost)
Stores(cmd, from, to, data) ==
  \/ ~IsDir(to) /\ Did(cmd, TRUE, from, to) /\ tree' = Put(tree, to, data)
  \/ WriteFails(cmd, from, to)

Write(n) == /\ \E who \in Writers : Stores("write", cwd \o <<n>>, cwd \o <<n>>, Data(who, 1))
            /\ UNCHANGED cwd
\* A program leaves a long file behind (SYS_WRITE_FILE, SYS_WGET).
Produce(n) == /\ \E who \in Writers :
                   Stores("program", cwd \o <<n>>, cwd \o <<n>>, Data(who, MaxLength))
              /\ UNCHANGED cwd
\* cmd_touch writes no bytes, whether or not the file exists.
Touch(n) == /\ \E who \in Writers : Stores("touch", cwd \o <<n>>, cwd \o <<n>>, Data(who, 0))
            /\ UNCHANGED cwd

\* cmd_edit, left with ^X: it saved what it had loaded, or something else.
Loaded(p) == IF IsFile(p) THEN {Cut(tree[p], EditMax)} ELSE {}
Edit(n) ==
  LET p == cwd \o <<n>>
  IN /\ \E data \in Loaded(p) \cup {Data(who, EditMax) : who \in Writers} :
          Stores("edit", p, p, data)
     /\ UNCHANGED cwd

\* fat32_delete takes directories too, with all that is in them.
Rm(n) ==
  LET p == cwd \o <<n>>
  IN /\ IF p \in DOMAIN tree
        THEN \/ Did("rm", TRUE, p, p) /\ tree' = Gone(tree, p)
             \/ Did("rm", FALSE, p, p) /\ tree' \in DeleteFails(tree, p)
        ELSE Fails("rm", p, p)
     /\ UNCHANGED cwd

\* cp_resolve_dest: a last component without a dot that is a directory is
\* entered, and the source's name kept.
Dest(w, base, n) ==
  IF base = NoName \/ (base \in Plain /\ IsDir(Append(w.at, base)))
  THEN (IF base = NoName THEN w.at ELSE Append(w.at, base)) \o <<n>>
  ELSE Append(w.at, base)

Copied(cmd, n, tok) ==
  LET from == cwd \o <<n>>
      w == ChdirFrom(cwd, tok)
  IN IF ~IsFile(from) \/ ~w.ok THEN Fails(cmd, from, from)
     ELSE Stores(cmd, from, Dest(w, tok.base, n), Cut(tree[from], CopyMax))
Cp(n, tok) == Copied("cp", n, tok) /\ UNCHANGED cwd

\* mv to another directory copies, and deletes the source when the copy was
\* written, whatever the delete answers; within the directory it renames.
Across(tok) == tok.slash \/ (tok.base \in Plain /\ IsDir(Append(cwd, tok.base)))
\* Mutant of MvAcross: the source is deleted whether or not the copy was written.
MvAcrossAlways(n, tok) ==
  LET from == cwd \o <<n>>
      w == ChdirFrom(cwd, tok)
      to == Dest(w, tok.base, n)
  IN /\ Across(tok) /\ IsFile(from) /\ w.ok
     /\ \E ok \in BOOLEAN : Did("mv", ok, from, to)
     /\ tree' = Gone(tree, from) /\ UNCHANGED cwd
MvAcross(n, tok) ==
  LET from == cwd \o <<n>>
      w == ChdirFrom(cwd, tok)
      to == Dest(w, tok.base, n)
  IN /\ Across(tok)
     /\ IF ~IsFile(from) \/ ~w.ok THEN Fails("mv", from, from)
        ELSE \/ LET copied == Put(tree, to, Cut(tree[from], CopyMax))
                IN /\ ~IsDir(to) /\ Did("mv", TRUE, from, to)
                   /\ tree' \in {Gone(copied, from)} \cup DeleteFails(copied, from)
             \/ WriteFails("mv", from, to)
     /\ UNCHANGED cwd
\* A new name that is taken would become the name of two entries; that is left out.
MvHere(n, tok) ==
  LET from == cwd \o <<n>>
      to == cwd \o <<tok.base>>
  IN /\ ~Across(tok) /\ (to = from \/ to \notin DOMAIN tree)
     /\ \/ from \in DOMAIN tree /\ Did("mv", TRUE, from, to) /\ tree' = Moved(from, to)
        \/ Fails("mv", from, to)
     /\ UNCHANGED cwd

Mkdir(n) ==
  LET p == cwd \o <<n>>
  IN /\ \/ p \notin DOMAIN tree /\ Did("mkdir", TRUE, p, p) /\ tree' = Put(tree, p, Dir)
        \/ Fails("mkdir", p, p)
     /\ UNCHANGED cwd

\* mkdir -p makes and enters one component after the other, as far as the disk
\* has room, and stays where it came to.
MadeIn(w, n) ==
  LET p == Append(w.at, n)
  IN IF ~w.ok THEN w
     ELSE IF p \in DOMAIN w.tree THEN [w EXCEPT !.ok = w.tree[p] = Dir,
                                               !.at = IF w.tree[p] = Dir THEN p ELSE @]
     ELSE [w EXCEPT !.at = p, !.tree = [q \in DOMAIN @ \cup {p} |-> IF q = p THEN Dir ELSE @[q]]]
MkdirParents(path) ==
  \E made \in 0..Len(path.dir) :
    LET w == FoldLeft(MadeIn, [at |-> IF path.abs THEN <<>> ELSE cwd, ok |-> TRUE, tree |-> tree],
                      SubSeq(path.dir, 1, made))
        whole == made = Len(path.dir)
    IN /\ ToSet(path.dir) \subseteq Plain
       /\ \A full \in DOMAIN path.dir \ 1..made :
            full = made + 1 => w.ok /\ Append(w.at, path.dir[full]) \notin DOMAIN w.tree
       /\ tree' = w.tree /\ cwd' = w.at
       /\ Did("mkdir -p", w.ok /\ whole, w.at, w.at)

Cd(path) == LET w == ChdirFrom(cwd, path)
            IN /\ cwd' = w.at /\ UNCHANGED tree
               /\ Did("cd", w.ok, cwd, w.at)

FilesNext ==
  \/ \E n \in EntryNames : Write(n) \/ Produce(n) \/ Touch(n) \/ Edit(n) \/ Rm(n)
  \/ \E n \in EntryNames, tok \in Tokens : Cp(n, tok) \/ MvAcross(n, tok) \/ MvHere(n, tok)
  \/ \E n \in Plain : Mkdir(n)
  \/ \E path \in CdPaths : MkdirParents(path) \/ Cd(path)

FilesSpec == FilesInit /\ [][FilesNext]_fileVars

(* ------------------------------ properties ----------------------------- *)
Same(p) == p \in DOMAIN tree' /\ tree'[p] = tree[p]
\* The entry to be written or deleted is left on clusters that are free.
GaveUp == last'.to \in DOMAIN tree' /\ tree'[last'.to] = Lost

\* A command changes nothing but the entry it names, and nothing at all when it
\* reports a failure, unless the driver gave up half way through that entry.
OnlyNamed ==
  \A p \in DOMAIN tree :
    \/ Same(p)
    \/ /\ last'.ok \/ GaveUp
       /\ p = last'.to \/ (last'.cmd \in {"rm", "mv"} /\ Under(p, last'.from))
FailedIsNothing == ~last'.ok /\ last'.cmd # "mkdir -p" => tree' = tree \/ GaveUp

\* A copy or a move that succeeds has put the source where it says, whole up to
\* CP_BUF_MAX (shell.c:1436 says of any size), unless it moved a file onto
\* itself; and a moved file is gone where it was, unless its delete, whose
\* answer mv ignores, failed.
Arrived ==
  last'.ok /\ last'.cmd \in {"cp", "mv"} /\ last'.to # last'.from /\ IsFile(last'.from)
    => /\ last'.to \in DOMAIN tree'
       /\ tree'[last'.to] \in {tree[last'.from], Cut(tree[last'.from], CopyMax)}
       /\ last'.cmd = "mv" => \/ last'.from \notin DOMAIN tree'
                              \/ tree'[last'.from] \in {tree[last'.from], Lost}

\* cp, mv and the rest come back to the directory they were called in.
CwdBack == last'.cmd \notin {"cd", "mkdir -p"} => cwd' = cwd
FileStep == OnlyNamed /\ FailedIsNothing /\ Arrived /\ CwdBack

\* Whether fat32_write_file, fat32_delete and fat32_rename succeed, fail or give
\* up half way, no file is lost or changed that the user did not name, and a file
\* that was moved is where it was moved to (shell.c, the file commands).
FilesKept == [][FileStep]_fileVars
=============================================================================
