------------------------------ MODULE DocPage ------------------------------
(***************************************************************************)
(* A page of the documentation in the browser: docs/styles/docfx.js, and   *)
(* search-worker.js in its web worker.  The page asks for the navigation   *)
(* bar and the table of contents, the worker for the index and the stop    *)
(* words; the answers come in any order, while the visitor types, filters  *)
(* and scrolls.  An action is one callback of the browser's event loop.    *)
(***************************************************************************)
EXTENDS Integers, SequencesExt, FiniteSetsExt

CONSTANTS
  Nothing,      \* no query was sent, no results are shown
  Docs,         \* the documents of the search index
  WordsOf,      \* WordsOf[d]: the words of document d
  StopWords,    \* the words of search-stopwords.json
  Queries,      \* the sets of words a visitor may type
  TooShort,     \* a query of fewer than three letters
  MaxKeys,      \* bound: how often the visitor types
  NavBar,       \* the items of the root toc: [path, toc], as root-relative paths
  FilterTexts   \* what the visitor types into the filter of the sidebar

ASSUME DocAssumption ==
  /\ WordsOf \in [Docs -> SUBSET (UNION Queries \cup StopWords)]
  /\ TooShort \notin Queries /\ Nothing \notin Queries \cup {TooShort}
  /\ MaxKeys \in Nat

VARIABLES
  page,       \* [path, tocPath, activity]: the page that is open
  nav,        \* the navigation bar: "off", "requested" or "loaded"
  side,       \* the sidebar, likewise
  breadcrumb, \* what stands in #breadcrumb: a sequence of paths
  article,    \* the article, its outline (#affix) and its highlighted lines
  classes,    \* the classes show, hide and filtered of the sidebar's items
  filter,     \* the text in the filter, "" at the beginning
  footer,     \* "shown", "fading" (out) or "hidden"
  shiftup,    \* the sidebar leaves room for the footer
  worker,     \* [stopWords, index, entries]: the search worker
  listening,  \* the page's queryReady handler is bound
  query,      \* the variable of that name
  asked,      \* the last query posted to the worker, or Nothing
  contents,   \* the article is visible; otherwise the results are
  shown,      \* [query, hits] as rendered, or Nothing
  keys,       \* how often the visitor has typed
  toWorker,   \* messages on their way to the worker
  toPage      \* and back

searchVars == <<worker, listening, query, asked, contents, shown, keys, toWorker, toPage>>
sidebarVars == <<classes, filter, footer, shiftup>>
pageVars == <<page, nav, side, breadcrumb, article, sidebarVars, searchVars>>
-----------------------------------------------------------------------------
(* Addresses: sequences of names from the root of the site *)

Folder(path) == SubSeq(path, 1, Len(path) - 1)

\* What docfx writes into the meta tags and links: a path relative to a page.
CommonFolders(from, to) ==
  LET n == Min({Len(Folder(from)), Len(Folder(to))})
  IN  CHOOSE k \in 0..n : /\ SubSeq(from, 1, k) = SubSeq(to, 1, k)
                          /\ k = n \/ from[k + 1] # to[k + 1]
RelativePath(from, to) ==
  LET k == CommonFolders(from, to)
  IN  [i \in 1..(Len(from) - 1 - k) |-> ".."] \o SubSeq(to, k + 1, Len(to))

\* util.getAbsolutePath: an anchor resolves a relative path from the page.
RECURSIVE Resolve(_, _)
Resolve(folder, relative) ==
  IF relative = <<>> THEN folder
  ELSE IF Head(relative) = ".." THEN Resolve(Folder(folder), Tail(relative))
  ELSE Resolve(Append(folder, Head(relative)), Tail(relative))
GetAbsolutePath(path, relative) == Resolve(Folder(path), relative)

\* navrel + href: a link in the navigation bar as it is written into the page.
NavHref(path, navPath, item) ==
  LET navrel == Folder(RelativePath(path, navPath)) IN navrel \o RelativePath(navPath, item)

\* The items of the bar that get the class active: by the folder of their table
\* of contents or, without one, by their own address.
IsActive(path, tocPath, navPath, item) ==
  IF item.toc # Nothing
  THEN Folder(GetAbsolutePath(path, NavHref(path, navPath, item.toc)))
         = Folder(GetAbsolutePath(path, RelativePath(path, tocPath)))
  ELSE GetAbsolutePath(path, NavHref(path, navPath, item.path)) = path

NavPath == <<"toc">>
ActiveNav(path, tocPath) ==
  LET active == SelectSeq(NavBar, LAMBDA item : IsActive(path, tocPath, NavPath, item))
  IN  [i \in DOMAIN active |-> GetAbsolutePath(path, NavHref(path, NavPath, active[i].path))]
-----------------------------------------------------------------------------
(* The article *)

\* highlight: a range of lines as written, with 0 for an end left open.
Clip(range, lines) ==
  IF range.to = 0 \/ (range.from # range.to /\ range.to > lines)
  THEN [from |-> range.from, to |-> lines] ELSE range

\* Each range opens a span before its first line and closes it after its last.
Highlight(lines, ranges) ==
  LET clipped == [i \in DOMAIN ranges |-> Clip(ranges[i], lines)]
      valid == SelectSeq(clipped, LAMBDA r : r.from > 0 /\ r.from <= r.to /\ r.from <= lines)
      Opened(n) == Len(SelectSeq(valid, LAMBDA r : r.from <= n))
      Closed(n) == Len(SelectSeq(valid, LAMBDA r : r.to < n))
  IN  {n \in 1..lines : Opened(n) > Closed(n)}

\* getHierarchy: the headers are siblings; one has a level and perhaps an id (0
\* for none).  The list is made for the first level that has more than a title.
ListLevel(headers) ==
  LET At(level) == SelectSeq(headers, LAMBDA h : h.level = level)
      used == {level \in 1..4 : At(level) # <<>>}
      top == Min(used)
      rest == used \ {top}
  IN  IF used = {} THEN 0
      ELSE IF Len(At(top)) > 1 THEN top
      ELSE IF rest = {} THEN 0 ELSE Min(rest)

\* Seeded bug: what an earlier header lists is not excluded from a later one's.
OutlineUnbounded(headers) ==
  LET level == ListLevel(headers)
      tops == {i \in DOMAIN headers : headers[i].level = level /\ headers[i].id # 0}
  IN  [i \in tops |-> {j \in (i + 1)..Len(headers) :
                          headers[j].level = level + 1 /\ headers[j].id # 0}]

\* For every listed header the headers one level down that follow it, but not
\* those that follow the next one listed.
Outline(headers) ==
  LET level == ListLevel(headers)
      tops == {i \in DOMAIN headers : headers[i].level = level /\ headers[i].id # 0}
      Following(i) == {j \in (i + 1)..Len(headers) :
                          headers[j].level = level + 1 /\ headers[j].id # 0}
      Later(i) == {k \in tops : k > i}
  IN  [i \in tops |-> IF Later(i) = {} THEN Following(i)
                      ELSE Following(i) \ Following(Min(Later(i)))]

Render(text) == [text |-> text, outline |-> Outline(text.headers),
                 marked |-> Highlight(text.lines, text.ranges)]
-----------------------------------------------------------------------------
(* Loading *)

\* `items' is the table of contents of the page: [parent, words, leaf, order,
\* self], made by DocModel!TransformItem; self is the item of the page.
PageInit ==
  /\ page = Nothing /\ nav = "off" /\ side = "off" /\ breadcrumb = <<>>
  /\ article = Nothing
  /\ classes = <<>> /\ filter = "" /\ footer = "hidden" /\ shiftup = FALSE
  /\ worker = [stopWords |-> "pending", index |-> "pending", entries |-> <<>>]
  /\ listening = FALSE /\ query = Nothing /\ asked = Nothing
  /\ contents = TRUE /\ shown = Nothing /\ keys = 0
  /\ toWorker = <<>> /\ toPage = <<>>

\* The document is ready: the article is dressed, and the rest asked for.
Open(path, tocPath, toc, disableToc, text, activity, atBottom) ==
  /\ page = Nothing
  /\ page' = [path |-> path, tocPath |-> tocPath, toc |-> toc, activity |-> activity]
  /\ article' = Render(text)
  /\ nav' = "requested"
  /\ side' = IF disableToc THEN "off" ELSE "requested"
  /\ footer' = IF atBottom THEN "shown" ELSE "hidden"
  /\ UNCHANGED <<breadcrumb, classes, filter, shiftup, searchVars>>

\* window.refresh: the article is dressed once more.
Refresh ==
  /\ page # Nothing
  /\ article' = Render(article.text)
  /\ UNCHANGED <<page, nav, side, breadcrumb, sidebarVars, searchVars>>

\* The item of the page and those above it, from the top.
RECURSIVE TrailTo(_, _)
TrailTo(toc, item) ==
  IF item = Nothing THEN <<>> ELSE Append(TrailTo(toc, toc.parent[item]), toc.path[item])

RenderBreadcrumb(navLoaded, sideLoaded) ==
  (IF navLoaded THEN ActiveNav(page.path, page.tocPath) ELSE <<>>)
    \o (IF sideLoaded THEN TrailTo(page.toc, page.toc.self) ELSE <<>>)

\* loadNavbar's callback: the bar, the breadcrumb, and the search box with it.
NavArrives ==
  /\ nav = "requested"
  /\ nav' = "loaded"
  /\ breadcrumb' = RenderBreadcrumb(TRUE, side = "loaded")
  /\ UNCHANGED <<page, side, article, sidebarVars, searchVars>>

\* Seeded bug: the sidebar leaves the breadcrumb to the navigation bar.
RenderSidebarOnly ==
  /\ shiftup' = (footer # "hidden")
  /\ breadcrumb' = breadcrumb

\* A sidebar that has its items: room for the footer, and the breadcrumb anew.
RenderSidebar ==
  /\ shiftup' = (footer # "hidden")
  /\ breadcrumb' = RenderBreadcrumb(nav = "loaded", TRUE)

\* loadToc's callback.
SideArrives ==
  /\ side = "requested"
  /\ side' = "loaded"
  /\ classes' = [item \in DOMAIN page.toc.parent |-> {}]
  /\ RenderSidebar
  /\ UNCHANGED <<page, nav, article, filter, footer, searchVars>>
-----------------------------------------------------------------------------
(* The filter of the sidebar *)

RECURSIVE Above(_, _)
Above(toc, item) ==
  IF toc.parent[item] = Nothing THEN {} ELSE {toc.parent[item]} \cup Above(toc, toc.parent[item])

Leaves(toc) == {item \in DOMAIN toc.parent : toc.leaf[item]}
Below(toc, item) == {other \in DOMAIN toc.parent : item \in Above(toc, other)}

\* Seeded bug: only the leaf's own name is looked at.
MatchesLeafOnly(toc, leaf, text) == text \in toc.words[leaf]

\* filterNavItem on the names from the top down to a leaf.
Matches(toc, leaf, text) ==
  \E item \in {leaf} \cup Above(toc, leaf) : text \in toc.words[item]

\* The leaves are decided first; then the branches from the top down, each by
\* the class show of everything below it, whenever that was given.
RECURSIVE FilterBranches(_, _, _)
FilterBranches(toc, branches, marks) ==
  IF branches = <<>> THEN marks
  ELSE LET branch == Head(branches)
           some == \E item \in Below(toc, branch) : "show" \in marks[item]
       IN  FilterBranches(toc, Tail(branches),
             [marks EXCEPT ![branch] = IF some THEN {"show", "filtered"} ELSE {"hide"}])

FilterLeaves(toc, text) ==
  [item \in DOMAIN toc.parent |->
     IF item \notin Leaves(toc) THEN classes[item]
     ELSE IF Matches(toc, item, text) THEN {"show"} ELSE {"hide"}]

FilterInput(text) ==
  /\ side = "loaded" /\ page.activity = "sidebar"
  /\ filter' = text
  /\ classes' =
       IF text = "" THEN [item \in DOMAIN classes |-> classes[item] \ {"filtered", "hide"}]
       ELSE FilterBranches(page.toc, SelectSeq(page.toc.order,
                                               LAMBDA item : ~ page.toc.leaf[item]),
                           FilterLeaves(page.toc, text))
  /\ UNCHANGED <<page, nav, side, breadcrumb, article, footer, shiftup, searchVars>>

\* showFooterCore: fading out takes time, fading in shows at once.
Scroll(atBottom) ==
  /\ page # Nothing /\ page.activity = "sidebar"
  /\ footer' = IF atBottom THEN "shown" ELSE IF footer = "hidden" THEN "hidden" ELSE "fading"
  /\ shiftup' = (side = "loaded" /\ atBottom)
  /\ UNCHANGED <<page, nav, side, breadcrumb, article, classes, filter, searchVars>>
FooterFaded ==
  /\ footer = "fading"
  /\ footer' = "hidden"
  /\ UNCHANGED <<page, nav, side, breadcrumb, article, classes, filter, shiftup, searchVars>>
-----------------------------------------------------------------------------
(* The search *)

Searching == page # Nothing /\ page.activity = "search"

\* The worker's two requests; either may fail, and nothing is done then.
StopWordsArrive(ok) ==
  /\ Searching /\ worker.stopWords = "pending"
  /\ worker' = [worker EXCEPT !.stopWords = IF ok THEN "installed" ELSE "missing"]
  /\ UNCHANGED <<page, nav, side, breadcrumb, article, sidebarVars, listening, query, asked,
                 contents, shown, keys, toWorker, toPage>>

\* The pipeline at this moment, for documents and queries alike.
Pipeline(words) == IF worker.stopWords = "installed" THEN words \ StopWords ELSE words

IndexArrives(ok) ==
  /\ Searching /\ worker.index = "pending"
  /\ worker' = IF ok THEN [worker EXCEPT !.index = "ready",
                                         !.entries = [d \in Docs |-> Pipeline(WordsOf[d])]]
               ELSE [worker EXCEPT !.index = "missing"]
  /\ toPage' = IF ok THEN Append(toPage, [e |-> "index-ready"]) ELSE toPage
  /\ UNCHANGED <<page, nav, side, breadcrumb, article, sidebarVars, listening, query, asked,
                 contents, shown, keys, toWorker>>

\* Seeded bug: the stop words count in a query.
FoundUnfiltered(q) == {d \in Docs : q \subseteq worker.entries[d]}

\* lunr finds the documents that have all words of a query, none for no word.
Found(q) ==
  LET words == Pipeline(q)
  IN  IF words = {} THEN {} ELSE {d \in Docs : words \subseteq worker.entries[d]}

\* Seeded bug: the latest query is answered first.
AnswerLatest ==
  /\ toWorker # <<>>
  /\ toWorker' = Front(toWorker)
  /\ toPage' = Append(toPage, [e |-> "query-ready", q |-> Last(toWorker),
                               d |-> Found(Last(toWorker))])
  /\ UNCHANGED <<page, nav, side, breadcrumb, article, sidebarVars, worker, listening, query,
                 asked, contents, shown, keys>>

\* Seeded bug: a query nothing is found for is not answered.
AnswerIfFound ==
  /\ toWorker # <<>>
  /\ toWorker' = Tail(toWorker)
  /\ toPage' = IF Found(Head(toWorker)) = {} THEN toPage
               ELSE Append(toPage, [e |-> "query-ready", q |-> Head(toWorker),
                                    d |-> Found(Head(toWorker))])
  /\ UNCHANGED <<page, nav, side, breadcrumb, article, sidebarVars, worker, listening, query,
                 asked, contents, shown, keys>>

\* The worker's onmessage.
Answer ==
  /\ toWorker # <<>>
  /\ toWorker' = Tail(toWorker)
  /\ toPage' = Append(toPage, [e |-> "query-ready", q |-> Head(toWorker),
                               d |-> Found(Head(toWorker))])
  /\ UNCHANGED <<page, nav, side, breadcrumb, article, sidebarVars, worker, listening, query,
                 asked, contents, shown, keys>>

\* The page's worker.onmessage: results are shown under whatever query is now.
OnMessage ==
  /\ toPage # <<>>
  /\ toPage' = Tail(toPage)
  /\ IF Head(toPage).e = "index-ready"
     THEN listening' = TRUE /\ UNCHANGED shown
     ELSE shown' = [query |-> query, hits |-> Head(toPage).d] /\ UNCHANGED listening
  /\ UNCHANGED <<page, nav, side, breadcrumb, article, sidebarVars, worker, query, asked,
                 contents, keys, toWorker>>

\* onPageClick: another page of the same results, labelled with today's query.
TurnPage ==
  /\ shown # Nothing /\ ~ contents
  /\ shown' = [shown EXCEPT !.query = query]
  /\ UNCHANGED <<page, nav, side, breadcrumb, article, sidebarVars, worker, listening, query,
                 asked, contents, keys, toWorker, toPage>>

\* keyup in the search box, which the navigation bar brings along.
KeyUp(q) ==
  /\ Searching /\ nav = "loaded" /\ keys < MaxKeys
  /\ keys' = keys + 1
  /\ query' = q
  /\ contents' = (q = TooShort)
  /\ IF q # TooShort /\ listening
     THEN toWorker' = Append(toWorker, q) /\ asked' = q
     ELSE UNCHANGED <<toWorker, asked>>
  /\ UNCHANGED <<page, nav, side, breadcrumb, article, sidebarVars, worker, listening, shown,
                 toPage>>
=============================================================================
