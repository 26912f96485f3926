---------------------------- MODULE MCPropPatch ----------------------------
(* Bodies for the model checker. *)
EXTENDS PropPatch, TLC

CONSTANTS r1, r2, p, q, a, b

Set(name, value) == [op |-> "set", name |-> name, value |-> value, opens |-> FALSE]
Remove(name) == [op |-> "remove", name |-> name, value |-> a, opens |-> FALSE]
Opens(instruction) == [instruction EXCEPT !.opens = TRUE]

\* One request's bodies: every pair of instructions on a dead property, the
\* display name, the date and the protected one, in one element, some in two ...
First == {Set(p, a), Remove(p), Set("displayname", b), Remove("displayname"),
          Set("getlastmodified", b), Set("getetag", b), Remove("lastmodified")}
Second == First \cup {Set(p, b)} \cup
          {Opens(i) : i \in {Set(p, b), Remove(p), Set("displayname", b), Set("getetag", b)}}
Pairs == {<<Opens(i), j>> : i \in First, j \in Second}
\* ... and triples in which the last one fails or comes back to the first.
Triples == {<<Opens(i), j, k>> : i \in {Set(p, a), Remove(p)},
                                 j \in {Set(p, a), Set(p, b), Set("displayname", b),
                                        Opens(Remove(p))},
                                 k \in {Set("getetag", b), Opens(Remove("etag")), Set(p, a)}}

\* The other one is about a property of its own, or about one of the first
\* request's as well and fails.  All of them show in one entity tag.
Bystander == {<<Opens(Remove(q)), Set(q, a)>>,
              <<Opens(Set(p, b)), Remove("etag")>>}

Together == (r1 :> Pairs \cup Triples) @@ (r2 :> Bystander)

\* The removal of a stored property, then something that fails.
RemovalThenFailure == [r \in {r1} |-> {<<Opens(Remove(p)), Opens(Set("getetag", b))>>}]
============================================================================
