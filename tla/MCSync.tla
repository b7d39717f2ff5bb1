------------------------------- MODULE MCSync -------------------------------
(* Instances of DirectoryOps and Sync for TLC.  Two directories of the root: /1
   with files at three depths, an empty directory and more files than a page; /2
   with one file.  And a directory, /5, that differs between the two sides. *)
EXTENDS Sync

Tree(files, dirs) ==
  LET all == files \cup dirs \cup UNION {Parents(p) : p \in files \cup dirs}
  IN  [p \in all |-> IF p \in files THEN Cardinality({q \in files : q = p \/ Before(q, p)}) ELSE Dir]

CallTrees ==
  {Tree({<<1, 1>>, <<1, 2>>, <<1, 3>>, <<2, 5>>}, {}),
   Tree({<<1, 1>>, <<1, 3>>, <<1, 4, 1>>, <<1, 4, 2>>, <<2, 5>>}, {<<1, 5>>}),
   Tree({<<1, 1>>, <<1, 2, 1, 1>>, <<2, 5>>}, {<<1, 3, 1>>})}

Operation(t, p, d) == [type |-> t, path |-> p, dest |-> d]

\* Single calls, calls whose batches NextBatch cuts, and two operations of one batch:
\* two that keep out of each other's way, a move into a directory that is deleted,
\* one that Process rejects, one that Verify does.
SmallCalls ==
  {<<Operation("Delete", <<1>>, <<>>)>>,
   <<Operation("Delete", <<>>, <<>>)>>,
   <<Operation("Copy", <<1>>, <<2>>)>>,
   <<Operation("Move", <<1>>, <<2>>)>>,
   <<Operation("Rename", <<1>>, 3)>>,
   <<Operation("Delete", <<1, 1>>, <<>>), Operation("Move", <<1>>, <<2>>)>>,
   <<Operation("Move", <<1, 1>>, <<2>>), Operation("CreateDir", <<1, 1>>, <<>>),
     Operation("Rename", <<2>>, 4)>>,
   <<Operation("Copy", <<1, 4>>, <<2>>)>>,
   <<Operation("Delete", <<1, 1>>, <<>>), Operation("Copy", <<2>>, <<1>>)>>,
   <<Operation("Move", <<2, 5>>, <<1>>), Operation("Delete", <<1>>, <<>>)>>,
   <<Operation("Delete", <<1, 1>>, <<>>), Operation("Rename", <<2>>, 2)>>,
   <<Operation("Copy", <<2>>, <<1>>), Operation("Rename", <<>>, 1)>>}

SmallUploads == {<<1, 2>>, <<1, 4, 7>>}
HiddenPaths == {<<4>>}

\* Before a call the replica is in step: the round after it brings the local tree
\* up to date.
InStep == {[tree |-> t, local |-> t, prev |-> t] : t \in CallTrees}

\* Two files of a directory, in the snapshot, here and there: every way to add,
\* change and delete the first, six for the second, with and without the directory
\* when it has no file.  0 is no file.
First == {[prev |-> p, local |-> l, tree |-> t] : p \in {0, 1}, l \in {0, 1, 2}, t \in {0, 1, 3}}
Second == {[prev |-> c[1], local |-> c[2], tree |-> c[3]] :
             c \in {<<0, 0, 0>>, <<0, 4, 0>>, <<0, 0, 5>>, <<4, 4, 4>>, <<4, 0, 4>>, <<4, 4, 0>>}}
Directory(a, b, empty) ==
  LET files == {x \in {<<5, 1>>, <<5, 2>>} : (IF x = <<5, 1>> THEN a ELSE b) # 0}
  IN  [p \in files \cup (IF files # {} \/ empty THEN {<<5>>} ELSE {}) |->
         IF p = <<5>> THEN Dir ELSE IF p = <<5, 1>> THEN a ELSE b]
OutOfStep ==
  {[tree |-> Directory(a.tree, b.tree, e), local |-> Directory(a.local, b.local, e),
    prev |-> Directory(a.prev, b.prev, FALSE)] : a \in First, b \in Second, e \in BOOLEAN}

SmallReplicas == InStep \cup OutOfStep
SmallTrees == {r.tree : r \in SmallReplicas}
=============================================================================
