------------------------------ MODULE DocModel ------------------------------
(***************************************************************************)
(* What DocFX makes of the documentation before it is published: the       *)
(* scripts of tools/docfx-templates/default that turn the model of a page  *)
(* into what its mustache template shows.  Pure functions; DocSite applies *)
(* them and publishes the result.                                          *)
(*                                                                         *)
(* Null stands for what a script finds undefined or null; an object is a   *)
(* record, a dictionary a function, an array a sequence.  TypeError is the *)
(* exception that ends the build.                                          *)
(***************************************************************************)
EXTENDS Integers, SequencesExt, TLC

CONSTANTS Null, TypeError

-----------------------------------------------------------------------------
(* common.js *)

\* A uid is a sequence of characters, some of which an id may not have.
NonWord == {".", "(", ")"}
GetHtmlId(uid) == [i \in DOMAIN uid |-> IF uid[i] \in NonWord THEN "_" ELSE uid[i]]

OrElse(x, y) == IF x = Null THEN y ELSE x

\* Seeded bug: the branch of the contributions, at the address of the source.
GetGitInfoMixed(contribute, remote) ==
  IF remote = Null THEN [repo |-> Null, branch |-> Null, path |-> Null]
  ELSE IF contribute = Null THEN remote
  ELSE [remote EXCEPT !.branch = OrElse(contribute.branch, @)]

\* What a contributor is to edit, or, without gitContribute, where it came from.
GetGitInfo(contribute, remote) ==
  CASE contribute = Null /\ remote = Null ->
         [repo |-> Null, branch |-> Null, path |-> Null]
    [] contribute = Null /\ remote # Null -> remote
    [] contribute # Null /\ remote = Null -> TypeError   \* gitRemote.path
    [] OTHER -> [repo |-> OrElse(contribute.repo, remote.repo),
                 branch |-> OrElse(contribute.branch, remote.branch),
                 path |-> remote.path]

\* The address of a repository: its host and its name, as https or as git@host,
\* with or without ".git".
NormalizeGitUrlToHttps(repo) == [repo EXCEPT !.ssh = FALSE]
WithoutGitSuffix(repo) == [repo EXCEPT !.suffix = FALSE]

\* The pattern that was configured, if it is one of these, or else the one that
\* fits the address.
GitUrlPatternItems == {"github", "vso"}
GetPatternName(repo, pattern) ==
  CASE pattern \in GitUrlPatternItems -> pattern
    [] pattern \notin GitUrlPatternItems /\ repo.host = "github" -> "github"
    [] pattern \notin GitUrlPatternItems /\ repo.host = "vso" /\ ~ repo.ssh -> "vso"
    [] OTHER -> Null

Usable(git) == Null \notin {git.repo, git.branch, git.path}

GetRemoteUrl(remote, startLine, contribute, pattern) ==
  LET git == GetGitInfo(contribute, remote)
      repo == WithoutGitSuffix(git.repo)
      name == GetPatternName(repo, pattern)
  IN  IF git = TypeError THEN TypeError
      ELSE IF ~ Usable(git) THEN Null
      ELSE IF name = Null THEN Null
      ELSE [to |-> "blob", branch |-> git.branch, file |-> git.path, line |-> startLine,
            repo |-> IF name = "github" THEN NormalizeGitUrlToHttps(repo) ELSE repo]

GetNewFileUrl(item, contribute, pattern) ==
  LET git == GetGitInfo(contribute, item.source.remote)
      repo == WithoutGitSuffix(git.repo)
  IN  IF item.source = Null THEN Null
      ELSE IF git = TypeError THEN TypeError
      ELSE IF ~ Usable(git) THEN Null
      ELSE IF GetPatternName(repo, pattern) # "github" THEN Null
      ELSE [to |-> "new", branch |-> git.branch, file |-> GetHtmlId(item.uid), line |-> Null,
            repo |-> NormalizeGitUrlToHttps(repo)]

NextLine(line) == IF line = Null THEN Null ELSE line + 1

GetViewSourceHref(item, pattern) ==
  IF item.source = Null \/ item.source.remote = Null THEN Null
  ELSE GetRemoteUrl(item.source.remote, NextLine(item.source.startLine), Null, pattern)

GetImproveTheDocHref(item, contribute, pattern) ==
  IF item.documentation = Null \/ item.documentation.remote = Null
  THEN GetNewFileUrl(item, contribute, pattern)
  ELSE GetRemoteUrl(item.documentation.remote, NextLine(item.documentation.startLine),
                    contribute, pattern)

-----------------------------------------------------------------------------
(* ManagedReference.common.js: the page of a namespace or of a type *)

NamespaceItems == <<"class", "struct", "interface", "enum", "delegate">>
ClassItems ==
  <<"constructor", "field", "property", "method", "event", "operator", "eii">>

GetDefinitions(model) == IF model.type = "namespace" THEN NamespaceItems ELSE ClassItems

HandleItem(item, contribute, pattern) ==
  [uid |-> item.uid, type |-> item.type, isEii |-> item.isEii, syntax |-> item.syntax,
   id |-> GetHtmlId(item.uid),
   overloadId |-> IF item.overload = Null THEN Null ELSE GetHtmlId(item.overload),
   docurl |-> GetImproveTheDocHref(item, contribute, pattern),
   sourceurl |-> GetViewSourceHref(item, pattern)]

\* The group a member is listed in; explicit implementations have their own.
GroupOf(item) == IF item.isEii THEN "eii" ELSE item.type

\* What a field or a property is, and what an event takes, is not shown as the
\* "return" of its syntax.
MoveReturn(item) ==
  IF item.syntax = Null \/ GroupOf(item) \notin {"field", "property", "event"} THEN item
  ELSE [item EXCEPT !.syntax = [return |-> Null, value |-> item.syntax.return]]

GroupChildren(children, definitions) ==
  LET moved == [i \in DOMAIN children |-> MoveReturn(children[i])]
      group(key) == [key |-> key,
                     children |-> SelectSeq(moved, LAMBDA item : GroupOf(item) = key)]
  IN  SelectSeq([i \in DOMAIN definitions |-> group(definitions[i])],
                LAMBDA g : g.children # <<>>)

TransformReference(model) ==
  LET Handle(item) == HandleItem(item, model.gitContribute, model.gitUrlPattern)
      children == [i \in DOMAIN model.children |-> Handle(model.children[i])]
  IN  [head |-> Handle(model), groups |-> GroupChildren(children, GetDefinitions(model))]

\* Seeded bug: the uid itself is taken for the id.
GetBookmarksRaw(model) ==
  IF model.type = "namespace" THEN Null
  ELSE LET members == ToSet(model.children)
           uids == {m.uid : m \in members} \cup ({m.overload : m \in members} \ {Null})
       IN  [uid \in uids \cup {model.uid} |-> IF uid = model.uid THEN <<>> ELSE uid]

\* Which anchor of the page a link to a uid goes to; <<>> is its top.
GetBookmarks(model) ==
  IF model.type = "namespace" THEN Null
  ELSE LET members == ToSet(model.children)
           uids == {m.uid : m \in members} \cup ({m.overload : m \in members} \ {Null})
       IN  [uid \in uids \cup {model.uid} |->
              IF uid = model.uid THEN <<>> ELSE GetHtmlId(uid)]

\* The ids class.tmpl.partial puts on the page.
ReferenceAnchors(page) ==
  LET members == UNION {ToSet(page.groups[i].children) : i \in DOMAIN page.groups}
  IN  {page.head.id} \cup {m.id : m \in members} \cup ({m.overloadId : m \in members} \ {Null})
-----------------------------------------------------------------------------
(* RestApi.common.js: the page of a REST API *)

FormatParams(path, parameters, isFirst) ==
  path \o FlattenSeq([i \in DOMAIN parameters |->
                        <<IF i = 1 /\ isFirst THEN "?" ELSE "&", parameters[i].name>>])

AppendQueryParamsToPath(path, parameters) ==
  LET required == SelectSeq(parameters, LAMBDA p : p.in = "query" /\ p.required)
      optional == SelectSeq(parameters, LAMBDA p : p.in = "query" /\ ~ p.required)
      whole == FormatParams(path, required, TRUE)
  IN  IF optional = <<>> THEN whole
      ELSE Append(FormatParams(Append(whole, "["), optional, required = <<>>), "]")

\* mergeObjByKey on objects and, by index, on arrays: what the target has stays.
MergeObject(target, source) ==
  IF target = Null THEN source ELSE IF source = Null THEN target ELSE target @@ source
MergeArray(target, source) ==
  IF target = Null THEN source
  ELSE IF source = Null THEN target
  ELSE target \o SubSeq(source, Len(target) + 1, Len(source))

\* Seeded bug: the parts of an allOf replace what the schema says itself.
MergeOver(own, item) ==
  [properties |-> MergeObject(item.properties, own.properties),
   required |-> MergeArray(item.required, own.required)]

MergeSchema(own, item) ==
  [properties |-> MergeObject(own.properties, item.properties),
   required |-> MergeArray(own.required, item.required)]

\* An item's own allOf is a key the schema has as well: it is merged, by index,
\* into the array that is being worked through.
RECURSIVE ProcessAllOfArray(_, _, _)
ProcessAllOfArray(allOf, i, own) ==
  IF i > Len(allOf) THEN own
  ELSE ProcessAllOfArray(MergeArray(allOf, allOf[i].allOf), i + 1, MergeSchema(own, allOf[i]))

ResolveAllOf(schema) ==
  ProcessAllOfArray(schema.allOf, 1,
                    [properties |-> schema.properties, required |-> schema.required])

\* The dictionary of properties becomes a list of keys and values.  A required
\* property is marked by overwriting its own `required', and an object then
\* takes its `required', list or mark, along into its items.
TransformProperties(schema) ==
  LET Marked(name) == schema.required # Null /\ name \in ToSet(schema.required)
      Inner(name) ==
        LET value == schema.properties[name]
            list == IF value.kind = "object" /\ Marked(name) THEN Null ELSE value.required
        IN  {[key |-> key, required |-> list # Null /\ key \in ToSet(list)] :
               key \in value.fields}
  IN  IF schema.properties = Null THEN {}
      ELSE {[key |-> name,
             required |-> Marked(name) /\ schema.properties[name].kind # "object",
             items |-> Inner(name)] : name \in DOMAIN schema.properties}

HandleOperation(child) ==
  [uid |-> child.uid, htmlId |-> GetHtmlId(child.uid), tags |-> child.tags,
   path |-> AppendQueryParamsToPath(child.path, child.parameters),
   schema |-> IF child.schema = Null THEN {}
              ELSE TransformProperties(ResolveAllOf(child.schema))]

\* Tag names are numbered alphabetically.
ChildTags(children) ==
  LET names == UNION {ToSet(children[i].tags) : i \in DOMAIN children}
      sorted == SetToSortSeq(names, LAMBDA x, y : x < y)
  IN  [i \in DOMAIN sorted |-> [name |-> sorted[i], uid |-> Null, bookmark |-> Null]]

TagAnchor(tag) ==
  IF tag.bookmark # Null THEN tag.bookmark
  ELSE IF tag.uid # Null THEN GetHtmlId(tag.uid) ELSE Null

HasTag(child, tag) == tag.name \in ToSet(child.tags)

\* Seeded bug: every tagged operation leaves the list, whatever its tag is.
TransformRestDropping(model) ==
  LET children == [i \in DOMAIN model.children |-> HandleOperation(model.children[i])]
      tags == IF model.tags # <<>> THEN model.tags ELSE ChildTags(children)
  IN  [uid |-> model.uid,
       tags |-> [i \in DOMAIN tags |->
                   [tag |-> tags[i], htmlId |-> TagAnchor(tags[i]),
                    children |-> SelectSeq(children, LAMBDA c : HasTag(c, tags[i]))]],
       children |-> SelectSeq(children, LAMBDA c : c.tags = <<>>)]

\* Operations are moved into the sections of their tags; the others stay.
TransformRest(model) ==
  LET children == [i \in DOMAIN model.children |-> HandleOperation(model.children[i])]
      tags == IF model.tags # <<>> THEN model.tags ELSE ChildTags(children)
  IN  [uid |-> model.uid,
       tags |-> [i \in DOMAIN tags |->
                   [tag |-> tags[i], htmlId |-> TagAnchor(tags[i]),
                    children |-> SelectSeq(children, LAMBDA c : HasTag(c, tags[i]))]],
       children |-> SelectSeq(children,
                              LAMBDA c : \A i \in DOMAIN tags : ~ HasTag(c, tags[i]))]

\* getBookmarks: of a model before it is transformed, or after, when it has its
\* operations below its tags as well.
GetRestBookmarks(uid, tags, children) ==
  LET tagged == {t \in ToSet(tags) : t.uid # Null}
      tagUids == {t.uid : t \in tagged}
      childUids == {c.uid : c \in children}
  IN  [u \in tagUids \cup childUids \cup {uid} |->
         CASE u \in childUids -> GetHtmlId(u)
           [] u \in tagUids \ childUids -> TagAnchor(CHOOSE t \in tagged : t.uid = u)
           [] OTHER -> <<>>]

OperationsOf(page) ==
  ToSet(page.children) \cup UNION {ToSet(page.tags[i].children) : i \in DOMAIN page.tags}

\* The ids rest.tmpl.partial puts on the page.
RestAnchors(page) ==
  {GetHtmlId(page.uid)} \cup {c.htmlId : c \in OperationsOf(page)}
    \cup {page.tags[i].htmlId : i \in DOMAIN page.tags}
-----------------------------------------------------------------------------
(* toc.html.js and conceptual.html.primary.js *)

\* The items of a table of contents, with the level and the mark "leaf" the
\* template looks at; `parent' leads from an item to the one above, or to Null.
RECURSIVE LevelOf(_, _)
LevelOf(parent, item) ==
  IF parent[item] = Null THEN 2 ELSE LevelOf(parent, parent[item]) + 1

TransformItem(parent) ==
  [item \in DOMAIN parent |->
     [level |-> LevelOf(parent, item),
      leaf |-> \A other \in DOMAIN parent : parent[other] # item]]

\* A page shows no table of contents of its own when it has none, or when it is
\* the navigation bar's.
DisableToc(model) ==
  model.disableToc \/ model.tocPath = Null \/ model.navPath = model.tocPath
=============================================================================
