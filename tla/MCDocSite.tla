----------------------------- MODULE MCDocSite -----------------------------
(* DocSite with a few members, operations, articles and search words.      *)
EXTENDS DocSite

\* The repositories of the source, of texts that overwrite comments, and of the
\* contributions are three different ones.
Repo(name, ssh, suffix) == [host |-> "github", name |-> name, ssh |-> ssh, suffix |-> suffix]
Remote == [repo |-> Repo("source", TRUE, TRUE), branch |-> "tag", path |-> <<"file">>]
Elsewhere == [Remote EXCEPT !.repo.host = "other"]
Overwrite == [repo |-> Repo("texts", FALSE, TRUE), branch |-> "texts", path |-> <<"text">>]
From(remote) == [remote |-> remote, startLine |-> 7]
Sources == {Null} \cup {From(remote) : remote \in {Null, Remote, Elsewhere, [Remote EXCEPT !.branch = Null]}}
Contributes == {Null} \cup [repo : {Null, Repo("docs", FALSE, FALSE)}, branch : {Null, "master"}]

Member(name, type, isEii, overload, syntax) ==
  [uid |-> <<"C", ".", name>>, type |-> type, isEii |-> isEii, syntax |-> syntax,
   overload |-> overload, source |-> From(Remote), documentation |-> Null]
Returns == [return |-> "int", value |-> Null]
Members ==
  {Member("m", "method", FALSE, <<"C", ".", "m", "*">>, Returns),
   Member("p", "property", FALSE, <<"C", ".", "p", "*">>, Returns),
   Member("f", "field", FALSE, Null, Returns),
   Member("e", "property", TRUE, Null, Returns),
   Member("g", "method", FALSE, <<"C", ".", "m", "*">>, Null)}
Types == {Member("c", "class", FALSE, Null, Null), Member("i", "interface", FALSE, Null, Null)}

TypeModel(type, children, source, documentation, contribute, pattern) ==
  [uid |-> <<"C">>, type |-> type, isEii |-> FALSE, overload |-> Null, syntax |-> Null,
   source |-> source, documentation |-> documentation, children |-> children,
   gitContribute |-> contribute, gitUrlPattern |-> pattern]

MCReferenceModels ==
  {TypeModel("class", children, From(Remote), Null, Null, Null) :
     children \in SeqOf(Members, 2) \cup [1..3 -> Members]}
    \cup {TypeModel("namespace", children, Null, Null, Null, Null) : children \in SeqOf(Types, 2)}
    \cup {TypeModel("class", <<>>, source, documentation, contribute, pattern) :
            source \in Sources, documentation \in {Null, From(Overwrite)},
            contribute \in Contributes, pattern \in {Null, "github", "unknown"}}

Value(kind, fields, required) == [kind |-> kind, fields |-> fields, required |-> required]
Text1 == Value("scalar", {}, Null)
Text2 == Value("scalar", {}, <<>>)
List == Value("array", {"x", "y"}, <<"x">>)
Object == Value("object", {"x"}, <<"x">>)
Schema(properties, required, allOf) ==
  [properties |-> properties, required |-> required, allOf |-> allOf]
Part(properties, required) == Schema(properties, required, Null)
Parts == {Part([a |-> Text1, b |-> Text1], <<"b", "a">>), Part([a |-> Text2], Null),
          Part([c |-> List, b |-> Object], <<"c">>), Part(Null, <<"a">>)}
Schemas == {Schema(p.properties, p.required, allOf) :
              p \in Parts \cup {Part(Null, Null)}, allOf \in SeqOf(Parts, 2)}

Param(name, required) == [name |-> name, in |-> "query", required |-> required]
Params == {Param("u", TRUE), Param("v", FALSE), [Param("w", TRUE) EXCEPT !.in = "body"]}
Operation(name, tags, parameters, schema) ==
  [uid |-> <<"A", ".", name>>, tags |-> tags, path |-> <<"/path">>,
   parameters |-> parameters, schema |-> schema]
Tag(name, uid, bookmark) == [name |-> name, uid |-> uid, bookmark |-> bookmark]
RestModel(tags, children) == [uid |-> <<"A">>, tags |-> tags, children |-> children]

MCRestModels ==
  {RestModel(<<>>, <<Operation("o", <<>>, parameters, Null)>>) : parameters \in SeqOf(Params, 3)}
    \cup {RestModel(<<>>, <<Operation("o", <<>>, <<>>, schema)>>) : schema \in Schemas}
    \cup {RestModel(tags, <<Operation("o", t1, <<>>, Null), Operation("q", t2, <<>>, Null)>>) :
            tags \in {<<>>, <<Tag(2, <<"A", ".", "t">>, Null)>>,
                      <<Tag(1, <<"A", ".", "t">>, <<"mark">>), Tag(2, Null, Null)>>},
            t1 \in SeqOf({1, 2, 3}, 2), t2 \in {<<>>, <<2>>}}

\* The table of contents of the articles: a branch, a leaf, and a deep branch.
Items ==
  [parent |-> [a |-> Nothing, a1 |-> "a", b |-> Nothing, c |-> Nothing, d |-> "c", d1 |-> "d",
               d2 |-> "d"],
   words |-> [a |-> {"x"}, a1 |-> {}, b |-> {"y"}, c |-> {}, d |-> {}, d1 |-> {"x"},
              d2 |-> {"y"}],
   order |-> <<"a", "a1", "b", "c", "d", "d1", "d2">>,
   path |-> [item \in {"a", "a1", "b", "c", "d", "d1", "d2"} |-> <<"articles", item>>]]

MCPages ==
  {[path |-> <<"articles", "d1">>, tocPath |-> <<"articles", "toc">>, navPath |-> <<"toc">>,
    disableToc |-> FALSE, items |-> Items, self |-> "d1"],
   [path |-> <<"index">>, tocPath |-> <<"toc">>, navPath |-> <<"toc">>,
    disableToc |-> FALSE, items |-> Items, self |-> "b"]}
MCNavBar ==
  <<[path |-> <<"api", "index">>, toc |-> <<"api", "toc">>],
    [path |-> <<"articles", "a">>, toc |-> <<"articles", "toc">>],
    [path |-> <<"index">>, toc |-> Nothing]>>

Header(level, id) == [level |-> level, id |-> id]
Outlines == {<<Header(1, 1)>> \o h : h \in SeqOf({Header(2, 1), Header(3, 1), Header(2, 0)}, 4)}
              \cup [1..3 -> {Header(1, 1), Header(2, 1), Header(3, 1)}]
Ranges == {<<>>, <<[from |-> 2, to |-> 3]>>, <<[from |-> 1, to |-> 2], [from |-> 2, to |-> 9]>>,
           <<[from |-> 3, to |-> 0], [from |-> 3, to |-> 2]>>,
           <<[from |-> 9, to |-> 9], [from |-> 0, to |-> 0], [from |-> 1, to |-> 1]>>}
MCTexts ==
  {[headers |-> h, lines |-> 3, ranges |-> <<>>] : h \in Outlines}
    \cup {[headers |-> <<>>, lines |-> 3, ranges |-> r] : r \in Ranges}

MCDocs == {"lock", "file"}
MCWordsOf == [lock |-> {"the", "lock"}, file |-> {"file"}]
MCQueries == {{"lock"}, {"file", "the"}, {"the"}}
=============================================================================
