------------------------------ MODULE MCRepair ------------------------------
(* Instances of Repair for TLC. *)
EXTENDS Repair

CONSTANTS b1, b2, b3

\* Files 1 to 3, at most n of them, with these hashes, and the directory 4.
Trees(n, hashes) ==
  UNION {[ps -> hashes] : ps \in {qs \in SUBSET (1 .. 3) : Cardinality(qs) <= n}}
WithDir(t) == [p \in DOMAIN t \cup {4} |-> IF p = 4 THEN Dir ELSE t[p]]
All(n, hashes) == Trees(n, hashes) \cup {WithDir(t) : t \in Trees(n, hashes)}

\* The versions 1 and 2 are older ones, 3 is the latest; b1 has it.
Case(trees, v2, v3, requests) ==
  [history |-> trees, requests |-> requests,
   version |-> [b \in Blobbers |-> CASE b = b1 -> 3 [] b = b2 -> v2 [] b = b3 -> v3]]

Files(t) == {p \in DOMAIN t : t[p] # Dir}

\* What a repair does put right: a latest version of less than a page, and
\* blobbers that only miss objects or have old ones, or only have objects that
\* were deleted since.
Mergeable(trees) ==
  LET new == Last(trees)
  IN  /\ Cardinality(Files(new)) < PageLimit
      /\ \A i \in DOMAIN trees : \/ DOMAIN trees[i] \subseteq DOMAIN new
                                 \/ DOMAIN new \subseteq DOMAIN trees[i]

\* One blobber is behind; or two are, at one version; or at two; or two repairs
\* overlap.
OneBehind ==
  {Case(<<old, old, new>>, 2, 3, 1) : old \in All(3, {1, 2}), new \in All(2, {1})}
TwoBehind ==
  {Case(<<old, old, new>>, 2, 2, 1) : old \in Trees(2, {2}), new \in Trees(2, {1})}
TwoVersions ==
  {Case(<<older, old, new>>, 2, 1, 1) :
     older \in {<<>>, <<1>>}, old \in Trees(1, {1}), new \in Trees(2, {1})}
Overlapping ==
  {Case(<<old, old, new>>, 2, 3, 2) : old \in {<<>>, <<2>>}, new \in {<<1>>, <<1, 1>>}}

Repairable ==
  {c \in OneBehind \cup TwoBehind \cup TwoVersions \cup Overlapping : Mergeable(c.history)}

\* A blobber that missed a deletion and two uploads.
MissedBoth == {Case(<<<<1>>, <<1>>, [p \in {2, 3} |-> 1]>>, 2, 3, 1)}
=============================================================================
