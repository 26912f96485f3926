------------------------------ MODULE DocSite ------------------------------
(***************************************************************************)
(* The documentation site: DocFX transforms the models of the pages        *)
(* (DocModel), and a visitor opens one of them in a browser (DocPage).     *)
(***************************************************************************)
EXTENDS DocModel, DocPage

CONSTANTS
  ReferenceModels,  \* models of namespaces and types, as `docfx metadata' makes them
  RestModels,       \* models of REST APIs
  Pages,            \* conceptual pages: [path, tocPath, navPath, disableToc, items, self]
  Texts             \* what may stand in an article: [headers, lines, ranges]

VARIABLE built      \* the page built last, with what it was built from

vars == <<built, pageVars>>

Init == built = Null /\ PageInit
-----------------------------------------------------------------------------
(* Building *)

LinksOf(out) ==
  LET items == {out.head} \cup UNION {ToSet(out.groups[i].children) : i \in DOMAIN out.groups}
  IN  {item.docurl : item \in items} \cup {item.sourceurl : item \in items}

\* ManagedReference.html.primary.js: docfx asks for the bookmarks of the model
\* first; an exception in either ends the build.
BuildReference(model) ==
  LET out == TransformReference(model)
  IN  /\ page = Nothing
      /\ built' = [kind |-> "reference", model |-> model, bookmarks |-> GetBookmarks(model),
                   out |-> IF TypeError \in LinksOf(out) THEN TypeError ELSE out]
      /\ UNCHANGED pageVars

\* RestApi.html.primary.js
BuildRest(model) ==
  /\ page = Nothing
  /\ built' = [kind |-> "rest", model |-> model, out |-> TransformRest(model),
               bookmarks |-> GetRestBookmarks(model.uid, model.tags, ToSet(model.children))]
  /\ UNCHANGED pageVars

\* toc.html.js and conceptual.html.primary.js; then the page is published, and
\* a visitor opens it.
Visit(p, text, activity, atBottom) ==
  LET marks == TransformItem(p.items.parent)
      toc == [parent |-> p.items.parent, words |-> p.items.words, order |-> p.items.order,
              path |-> p.items.path, self |-> p.self,
              leaf |-> [item \in DOMAIN marks |-> marks[item].leaf]]
  IN  /\ Open(p.path, p.tocPath, toc, DisableToc(p), text, activity, atBottom)
      /\ built' = Null
-----------------------------------------------------------------------------
OnPage(action) == action /\ UNCHANGED built

\* Bound: a visitor reads, searches or uses the sidebar; article, search and
\* sidebar share nothing but the navigation bar, which always loads.
EmptyText == [headers |-> <<>>, lines |-> 1, ranges |-> <<>>]

Next ==
  \/ \E model \in ReferenceModels : BuildReference(model)
  \/ \E model \in RestModels : BuildRest(model)
  \/ \E p \in Pages, text \in Texts : Visit(p, text, "reading", FALSE)
  \/ \E p \in Pages : Visit(p, EmptyText, "search", FALSE)
  \/ \E p \in Pages, atBottom \in BOOLEAN : Visit(p, EmptyText, "sidebar", atBottom)
  \/ OnPage(Refresh) \/ OnPage(NavArrives) \/ OnPage(SideArrives)
  \/ \E text \in FilterTexts \cup {""} : OnPage(FilterInput(text))
  \/ \E atBottom \in BOOLEAN : OnPage(Scroll(atBottom))
  \/ OnPage(FooterFaded)
  \/ \E ok \in BOOLEAN : OnPage(StopWordsArrive(ok)) \/ OnPage(IndexArrives(ok))
  \/ \E q \in Queries \cup {TooShort} : OnPage(KeyUp(q))
  \/ OnPage(Answer) \/ OnPage(OnMessage) \/ OnPage(TurnPage)

\* The browser delivers messages; nobody has to answer requests or to type.
Spec == Init /\ [][Next]_vars
FairSpec == Spec /\ WF_vars(OnPage(Answer)) /\ WF_vars(OnPage(OnMessage))
-----------------------------------------------------------------------------
(* Properties of the build *)

Built(kind) == built # Null /\ built.kind = kind
Complete == built.out # TypeError

\* A link to a member leads to an anchor that is on the page: getBookmarks and
\* the ids of the transformed model are made apart and have to agree.
BookmarksLand ==
  /\ Built("reference") /\ Complete /\ built.bookmarks # Null =>
       \A uid \in DOMAIN built.bookmarks :
          built.bookmarks[uid] \in ReferenceAnchors(built.out) \cup {<<>>}
  /\ Built("rest") =>
       \A uid \in DOMAIN built.bookmarks :
          built.bookmarks[uid] \in RestAnchors(built.out) \cup {<<>>}

\* Grouping loses no member, lists none twice, keeps their order within a group,
\* and what a member returns or is stays with it.
MembersKept ==
  Built("reference") /\ Complete =>
    LET groups == built.out.groups
        members == built.model.children
        Value(m) == IF m.syntax = Null THEN Null ELSE OrElse(m.syntax.return, m.syntax.value)
        listed == FlattenSeq([i \in DOMAIN groups |-> groups[i].children])
    IN  /\ Len(listed) = Len(members)
        /\ \A i \in DOMAIN groups :
             LET own == SelectSeq(members, LAMBDA m : GroupOf(m) = groups[i].key)
             IN  /\ [k \in DOMAIN own |-> <<own[k].uid, Value(own[k])>>]
                      = [k \in DOMAIN groups[i].children |->
                           <<groups[i].children[k].uid, Value(groups[i].children[k])>>]

\* Every operation stands on the page, below all of its tags or else below none,
\* and a link made before the operations were moved is one made afterwards.
OperationsKept ==
  Built("rest") =>
    LET out == built.out
        sections == {out.tags[i].children : i \in DOMAIN out.tags}
    IN  /\ {c.uid : c \in OperationsOf(out)} = {c.uid : c \in ToSet(built.model.children)}
        /\ \A c \in ToSet(out.children) : \A s \in sections : c \notin ToSet(s)
        /\ built.bookmarks = GetRestBookmarks(out.uid, [i \in DOMAIN out.tags |-> out.tags[i].tag],
                                              OperationsOf(out))

\* The path of an operation reads as a query: one "?" before its first
\* parameter, "&" before all others, whether they are required or optional.
QueriesReadWell ==
  Built("rest") =>
    \A c \in OperationsOf(built.out) :
      LET marks == SelectSeq(c.path, LAMBDA token : token \in {"?", "&"})
      IN  \A i \in DOMAIN marks : (marks[i] = "?") = (i = 1)

\* The page of a type or an API shows all of its model, in order.
ModelsAreShown == MembersKept /\ OperationsKept /\ QueriesReadWell

\* What a schema says itself wins over the parts of its allOf, an earlier part
\* over a later one, and no property of a part is lost (parts without an allOf).
AllOfIsMerged ==
  Built("rest") =>
    \A c \in ToSet(built.model.children) : c.schema # Null =>
      LET schema == c.schema
          parts == <<schema>> \o schema.allOf
          Said(name) == {i \in DOMAIN parts : parts[i].properties # Null
                                              /\ name \in DOMAIN parts[i].properties}
          names == {name \in UNION {DOMAIN parts[i].properties :
                                      i \in {k \in DOMAIN parts : parts[k].properties # Null}} :
                      Said(name) # {}}
          resolved == ResolveAllOf(schema).properties
      IN  (\A i \in DOMAIN schema.allOf : schema.allOf[i].allOf = Null) =>
            IF names = {} THEN resolved = Null
            ELSE resolved = [name \in names |-> parts[Min(Said(name))].properties[name]]

\* A property that is no object is marked as required exactly if its schema lists
\* it, and so are the fields of an array's items.
RequiredIsShown ==
  Built("rest") =>
    \A c \in ToSet(built.model.children) : c.schema # Null =>
      LET resolved == ResolveAllOf(c.schema)
          Listed(name) == resolved.required # Null /\ name \in ToSet(resolved.required)
      IN  \A p \in TransformProperties(resolved) :
            LET value == resolved.properties[p.key]
                list == IF value.required = Null THEN {} ELSE ToSet(value.required)
            IN  value.kind # "object" =>
                  /\ p.required = Listed(p.key)
                  /\ {f.key : f \in {f \in p.items : f.required}} = value.fields \cap list

\* The schema of a body is handed to the template whole and with the right marks
\* (rest.child.tmpl.partial, which comes with the site, prints the parameters
\* without their schemas; a template in its place shows what it is handed).
SchemasAreShown == AllOfIsMerged /\ RequiredIsShown

\* A link with a browsable address that leads to this branch of this repository.
LeadsTo(url, repo, branch) ==
  /\ url.branch = branch
  /\ url.repo.host = repo.host /\ url.repo.name = repo.name
  /\ ~ url.repo.ssh /\ ~ url.repo.suffix

\* A link to the source leads to the file, in the repository and the commit the
\* documentation was made from.  One to improve it leads to where contributions
\* go, as far as that is said, and else to where the text is from: to the text
\* that was overwritten, or to a new file for the item.  There are such links
\* whenever the repository is known; only sources without one end the build.
LinksLeadHome ==
  Built("reference") =>
    LET model == built.model
        written == model.documentation # Null
        remote == IF written THEN model.documentation.remote ELSE model.source.remote
        Own(x, y) == IF model.gitContribute = Null THEN y ELSE OrElse(x, y)
        Known(r) == Null \notin {r.repo, r.branch, r.path} /\ r.repo.host = "github"
    IN  /\ built.out = TypeError =>
             \E item \in {model} \cup ToSet(model.children) :
                item.source # Null /\ item.source.remote = Null
        /\ Complete => LET head == built.out.head IN
             /\ model.source # Null /\ model.source.remote # Null /\ Known(model.source.remote) =>
                  head.sourceurl # Null
             /\ head.sourceurl # Null =>
                  /\ LeadsTo(head.sourceurl, model.source.remote.repo, model.source.remote.branch)
                  /\ head.sourceurl.file = model.source.remote.path
             /\ head.docurl # Null =>
                  /\ LeadsTo(head.docurl, Own(model.gitContribute.repo, remote.repo),
                             Own(model.gitContribute.branch, remote.branch))
                  /\ head.docurl.file = IF written THEN remote.path ELSE head.id
-----------------------------------------------------------------------------
(* Properties of the page *)

\* The state of the page; no item of the sidebar is shown and hidden at once.
PageTypeOK ==
  /\ nav \in {"off", "requested", "loaded"} /\ side \in {"off", "requested", "loaded"}
  /\ footer \in {"shown", "fading", "hidden"}
  /\ query \in Queries \cup {TooShort, Nothing} /\ asked \in Queries \cup {Nothing}
  /\ \A item \in DOMAIN classes : /\ classes[item] \subseteq {"show", "hide", "filtered"}
                                  /\ ~ {"show", "hide"} \subseteq classes[item]
  /\ worker.index = "ready" <=> DOMAIN worker.entries = Docs

\* The breadcrumb leads to the page, whichever of the navigation bar and the
\* sidebar comes last: first the item of the bar with the page's table of
\* contents, if there is one, last the page.
BreadcrumbLeadsToPage ==
  nav = "loaded" /\ side = "loaded" =>
    LET bars == {i \in DOMAIN NavBar :
                   NavBar[i].toc # Nothing /\ Folder(NavBar[i].toc) = Folder(page.tocPath)}
    IN  /\ breadcrumb # <<>> /\ Last(breadcrumb) = page.path
        /\ bars # {} => breadcrumb[1] = NavBar[Min(bars)].path

\* The outline lists every header that can be linked to of the highest level that
\* has more than the title, and under the last of these before it every header
\* one level down.
OutlineIsComplete ==
  page # Nothing =>
    LET headers == article.text.headers
        Highest(S) == {j \in S : \A k \in S : headers[j].level <= headers[k].level}
        top == Highest(DOMAIN headers)
        listed == IF Cardinality(top) = 1 THEN Highest(DOMAIN headers \ top) ELSE top
        tops == DOMAIN article.outline
    IN  /\ tops = {j \in listed : headers[j].id # 0}
        /\ \A j \in DOMAIN headers :
             headers[j].id # 0 /\ (\E i \in tops : i < j /\ headers[j].level = headers[i].level + 1) =>
               {i \in tops : j \in article.outline[i]} = {Max({i \in tops : i < j})}

\* The highlighted lines are those of the valid ranges, overlapping or not.
HighlightIsExact ==
  page # Nothing =>
    article.marked =
      {n \in 1..article.text.lines :
         \E i \in DOMAIN article.text.ranges :
            LET r == article.text.ranges[i]
            IN  r.from \in 1..n /\ (n <= r.to \/ r.to = 0)}

\* The article and the state of its page agree.
PageIsConsistent == PageTypeOK /\ OutlineIsComplete /\ HighlightIsExact

\* What the filter leaves: a leaf can be seen exactly if it matches, with all
\* that is above it, and a branch of leaves only if one of them does.
FilterKeepsMatches ==
  side = "loaded" =>
    LET toc == page.toc
        Visible(item) == \A other \in {item} \cup Above(toc, item) : "hide" \notin classes[other]
        Wanted(leaf) ==
          filter = "" \/ \E item \in {leaf} \cup Above(toc, leaf) : filter \in toc.words[item]
        Twigs == {item \in DOMAIN toc.parent : Below(toc, item) # {}
                                               /\ Below(toc, item) \subseteq Leaves(toc)}
    IN  /\ \A leaf \in Leaves(toc) : Visible(leaf) <=> Wanted(leaf)
        /\ \A twig \in Twigs : Visible(twig) => \E leaf \in Below(toc, twig) : Wanted(leaf)

\* When the footer shows, the sidebar leaves room for it, whichever came first.
SidebarLeavesRoom == side = "loaded" /\ footer = "shown" => shiftup

\* Navigation bar, sidebar and footer end up alike in whatever order they come.
SidebarIsOrderFree == BreadcrumbLeadsToPage /\ SidebarLeavesRoom

\* What a query finds with and without a list of stop words.
Plain(q) == {d \in Docs : q \subseteq WordsOf[d]}
WithoutStopWords(q) ==
  IF q \subseteq StopWords THEN {} ELSE {d \in Docs : q \ StopWords \subseteq WordsOf[d]}

\* Two answers to a query are the same, whichever of index and stop words came
\* first: once both are there the stop words count neither for a document nor
\* for a query.
AnswersAreOrderFree ==
  [][\A q \in Queries :
       /\ Len(toPage') > Len(toPage) /\ Last(toPage').e = "query-ready" /\ Last(toPage').q = q
       /\ worker.stopWords = "installed"
       => Last(toPage').d = WithoutStopWords(q)]_vars

\* When all messages have arrived, the results that can be seen are those of the
\* query in the box, if any was sent: answers to earlier queries are gone.
ResultsSettle ==
  toWorker = <<>> /\ toPage = <<>> /\ ~ contents /\ asked # Nothing =>
    /\ shown # Nothing
    /\ asked = query
    /\ shown.query = query
    /\ shown.hits \in {Plain(query), WithoutStopWords(query)}

\* A query that was sent is answered, or another one typed, after a while.
SearchAnswers ==
  \A q \in Queries :
    (asked = q /\ query = q /\ ~ contents)
      ~> \/ query # q
         \/ shown # Nothing /\ shown.query = q
              /\ shown.hits \in {Plain(q), WithoutStopWords(q)}
=============================================================================
