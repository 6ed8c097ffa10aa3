---------------------------- MODULE MCTagHandler ----------------------------
(***************************************************************************)
(* Queries of four vertices, 1 - 2 - 3 and 1 - 4: each edge with or        *)
(* without @fold, a tag "a" in one of three places and a tag, which may    *)
(* have the same name, on vertex 2 or on a @fold's count, up to two        *)
(* filters at vertices and one on a @fold's count, and an error of another *)
(* kind at one of the vertices.                                            *)
(***************************************************************************)
EXTENDS TagHandler

MCName == {"a", "b"}

Parent == <<1, 1, 2, 1>>

Close == <<[kind |-> "close"]>>
TagItem(name) == <<[kind |-> "tag", name |-> name]>>
When(condition, items) == IF condition THEN items ELSE << >>

\* a is where the tag "a" is: at vertex 1 before the edges, at vertex 3, or at
\* vertex 1 between them.
MCItems(folded, bad, a, b, second) ==
  LET edge(v) == <<[kind |-> "edge", fold |-> v \in folded, bad |-> v = bad]>>
  IN When(a = 1, TagItem("a")) \o edge(2) \o When(b = 0, TagItem(second)) \o edge(3)
       \o When(a = 3, TagItem("a")) \o Close \o Close
       \o When(a = 4, TagItem("a")) \o edge(4) \o Close \o Close

\* The filters of a component, in the order of its vertices.
MCUses == [i \in 1..8 |-> [vid |-> (i + 1) \div 2, name |-> IF i % 2 = 1 THEN "a" ELSE "b"]]

MCRoot(folded) ==
  LET root[v \in 1..4] == IF v = 1 \/ v \in folded THEN v ELSE root[Parent[v]] IN root

MCFilters(root, uses) ==
  [r \in {root[v] : v \in 1..4} |->
     SelectSeq(MCUses, LAMBDA u : u \in uses /\ root[u.vid] = r)]

\* b is 0 for a second tag at vertex 2, or the fold on whose count it is.
MCQuery(folded, bad, a, b, second, uses, post) ==
  [items |-> MCItems(folded, bad, a, b, second),
   filters |-> MCFilters(MCRoot(folded), uses),
   post |-> [v \in {u.vid : u \in post} |-> SetToSeq(post)],
   count |-> [v \in {b} \ {0} |-> second]]

MCUseSets == {{}} \cup {{MCUses[i], MCUses[j]} : i \in 1..8, j \in 1..8}

MCPosts == {{}} \cup {{[vid |-> v, name |-> n]} : v \in {2, 3, 4}, n \in MCName}

MCParameters ==
  {p \in [folded : SUBSET {2, 3, 4}, bad : {0, 2, 3}, a : {1, 3, 4}, b : {0, 2, 3},
          second : MCName, uses : MCUseSets, post : MCPosts] :
     p.b \in p.folded \cup {0} /\ \A u \in p.post : u.vid \in p.folded}

MCQueries == {MCQuery(p.folded, p.bad, p.a, p.b, p.second, p.uses, p.post) : p \in MCParameters}

\* A tag "b" on the count of a fold with an error, used in another fold.
BadFoldQueries ==
  {MCQuery(p.folded, p.bad, p.a, p.b, p.second, p.uses, p.post) :
     p \in {q \in MCParameters : q.b = 2 /\ q.second = "b" /\ q.bad = 2 /\ q.a = 1 /\ q.post = {}}}
=============================================================================
