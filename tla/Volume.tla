------------------------------- MODULE Volume -------------------------------
(***************************************************************************)
(* What the FAT32 driver promises the shell and SYS_WRITE_FILE, SYS_MKDIR, *)
(* SYS_DELETE and `mv' (fat32.h, "Public API"): a tree of directories in   *)
(* which every call either has its whole effect at once or none at all.    *)
(***************************************************************************)
CONSTANTS Root,       \* the root directory
          Dirs,       \* identities a directory may get
          Names,      \* 8.3 names, upper case
          Contents    \* what a file may hold

VARIABLE tree         \* for every directory, what each of its names stands for

File(data) == [kind |-> "file", data |-> data]
Directory(id) == [kind |-> "dir", id |-> id]

Empty == [n \in {} |-> Root]

Init == tree = [d \in {Root} |-> Empty]

Missing(d, n) == d \in DOMAIN tree /\ n \notin DOMAIN tree[d]
IsFile(d, n) == /\ d \in DOMAIN tree /\ n \in DOMAIN tree[d]
                /\ tree[d][n].kind = "file"
IsDirectory(d, n) == /\ d \in DOMAIN tree /\ n \in DOMAIN tree[d]
                     /\ tree[d][n].kind = "dir"

With(d, n, node) ==
  [tree EXCEPT ![d] = [m \in DOMAIN @ \cup {n} |-> IF m = n THEN node ELSE @[m]]]
Without(t, d, n) == [t EXCEPT ![d] = [m \in DOMAIN @ \ {n} |-> @[m]]]
Opened(t, id) == [d \in DOMAIN t \cup {id} |-> IF d = id THEN Empty ELSE t[d]]

WriteFile(d, n, data) ==
  /\ Missing(d, n) \/ IsFile(d, n)
  /\ tree' = With(d, n, File(data))

MakeDirectory(d, n, id) ==
  /\ Missing(d, n) /\ id \notin DOMAIN tree
  /\ tree' = Opened(With(d, n, Directory(id)), id)

DeleteFile(d, n) ==
  /\ IsFile(d, n)
  /\ tree' = Without(tree, d, n)

\* Only an empty directory can go.
DeleteDirectory(d, n) ==
  /\ IsDirectory(d, n) /\ DOMAIN tree[tree[d][n].id] = {}
  /\ tree' = [e \in DOMAIN tree \ {tree[d][n].id} |-> Without(tree, d, n)[e]]

RenameEntry(d, old, new) ==
  /\ IsFile(d, old) \/ IsDirectory(d, old)
  /\ Missing(d, new)
  /\ tree' = Without(With(d, new, tree[d][old]), d, old)

Next ==
  \E d \in DOMAIN tree, n \in Names :
    \/ \E data \in Contents : WriteFile(d, n, data)
    \/ \E id \in Dirs : MakeDirectory(d, n, id)
    \/ DeleteFile(d, n) \/ DeleteDirectory(d, n)
    \/ \E new \in Names : RenameEntry(d, n, new)

Spec == Init /\ [][Next]_tree
=============================================================================
