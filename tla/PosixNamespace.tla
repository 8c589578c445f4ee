--------------------------- MODULE PosixNamespace ---------------------------
(***************************************************************************)
(* What the namespace requests of a file system promise the kernel: the   *)
(* names visible from the root form a tree of entries, and each request   *)
(* either changes it the way its POSIX operation does, in one step, or    *)
(* leaves it as it was.  Inode numbers are only identities here: a new    *)
(* file or directory gets one that no name leads to.                      *)
(***************************************************************************)
EXTENDS FiniteSets

CONSTANTS
    Inos,   \* inode numbers
    Names,  \* names a request may use
    Root    \* the root directory

VARIABLE tree   \* the visible entries: [dir, name, ino, sub], sub = a directory

Entry == [dir : Inos, name : Names, ino : Inos, sub : BOOLEAN]

Named == {e.ino : e \in tree}
Dirs  == {Root} \cup {e.ino : e \in {x \in tree : x.sub}}
At(d, n) == {e \in tree : e.dir = d /\ e.name = n}
Empty(i) == \A e \in tree : e.dir # i

\* The directories at or below directory i.
RECURSIVE Below(_)
Below(S) ==
    LET T == S \cup {e.ino : e \in {x \in tree : x.dir \in S /\ x.sub}}
    IN  IF T = S THEN S ELSE Below(T)

ATypeOK == tree \subseteq Entry

AInit == tree = {}

\* creat or mkdir: a new inode under a name that is free.
Make(d, n, i, sub) ==
    /\ d \in Dirs /\ At(d, n) = {} /\ i \notin Named \cup {Root}
    /\ tree' = tree \cup {[dir |-> d, name |-> n, ino |-> i, sub |-> sub]}

\* link: a second name for a file.
Link(d, n, i) ==
    /\ d \in Dirs /\ At(d, n) = {}
    /\ \E e \in tree : e.ino = i /\ ~e.sub
    /\ tree' = tree \cup {[dir |-> d, name |-> n, ino |-> i, sub |-> FALSE]}

\* unlink of a file name, rmdir of an empty directory.
Remove(d, n) ==
    \E e \in At(d, n) :
        /\ ~e.sub \/ Empty(e.ino)
        /\ tree' = tree \ {e}

\* rename: the source's name moves to the new place, replacing a target of
\* the same kind (an empty one for a directory); a directory is never moved
\* below itself.
Rename(d, n, nd, nn) ==
    \E e \in At(d, n) :
        /\ nd \in Dirs
        /\ e.sub => nd \notin Below({e.ino})
        /\ \A t \in At(nd, nn) :
              /\ t.ino # e.ino /\ t.sub = e.sub
              /\ t.sub => Empty(t.ino)
        /\ tree' = (tree \ ({e} \cup At(nd, nn)))
                   \cup {[dir |-> nd, name |-> nn, ino |-> e.ino, sub |-> e.sub]}

\* A request's inputs: a directory and a name, a source among the entries,
\* a free inode number for a new file.
ANext ==
    \/ \E d \in Dirs, n \in Names, i \in Inos \ Named :
          Make(d, n, i, FALSE) \/ Make(d, n, i, TRUE)
    \/ \E d \in Dirs, n \in Names, e \in tree : Link(d, n, e.ino)
    \/ \E e \in tree : Remove(e.dir, e.name)
    \/ \E e \in tree, nd \in Dirs, nn \in Names : Rename(e.dir, e.name, nd, nn)

ASpec == AInit /\ [][ANext]_tree
=============================================================================
