---------------------------- MODULE GetDocument ----------------------------
(***************************************************************************)
(* GET and HEAD of an in-memory document (Handlers/Impl/GetHeadHandler.cs, *)
(* GetResults/) while others PUT it: entity tags, ranges and the moments   *)
(* at which length, tag and data are read.  GET takes no lock, and the     *)
(* temporary locks of PUT are shared (Requests), so nothing keeps any of   *)
(* these requests from another; a step is what a request does between two  *)
(* of its calls.  A body is the name of who wrote it and how far he came.  *)
(***************************************************************************)
EXTENDS Integers, Sequences, SequencesExt

CONSTANTS
  Reader, Writer,  \* the clients that GET, and the PUT requests
  Initial,         \* what the document holds at first
  Size,            \* the length of every body
  RangeLists,      \* Range headers that may be sent at any time: sequences of
                   \* items [from, to], where Open stands for a missing position
  LoneRangeLists,  \* bound: those sent only while nobody else does anything
  Open, Nothing

ASSUME SizeAssumption ==
  /\ Initial \notin Writer
  /\ Size \in [Writer \cup {Initial} -> Nat]

\* RangeHeaderItem.Parse takes digits only; the empty list stands for a request without Range.
ASSUME RangesAssumption ==
  /\ Open \notin Nat /\ Nothing \notin Nat /\ Nothing \notin [from : Int, to : Int]
  /\ RangeLists \cup LoneRangeLists \subseteq
       Seq([from : Nat \cup {Open}, to : Nat \cup {Open}])

VARIABLES
  data,     \* InMemoryFile.Data: who wrote the body
  written,  \* how much of it
  etag,     \* InMemoryEntry.ETag; every new EntityTag is one more than the last
  put,      \* where a PUT is
  get,      \* where a GET or HEAD is, with its local variables
  answer,   \* the last answer a reader got if it counts (history)
  cache     \* the last whole body a reader got, with its tag

vars == <<data, written, etag, put, get, answer, cache>>

Length == written[data]
Bodies == Writer \cup {Initial}
Idle == [pc |-> "idle"]

Init ==
  /\ data = Initial
  /\ written = [b \in Bodies |-> IF b = Initial THEN Size[Initial] ELSE 0]
  /\ etag = 0
  /\ put = [w \in Writer |-> "idle"]
  /\ get = [r \in Reader |-> Idle]
  /\ answer = [r \in Reader |-> Nothing]
  /\ cache = [r \in Reader |-> Nothing]

\* Bound: a client that sends, or has just sent, one of LoneRangeLists.
Lone(r) ==
  \/ get[r].pc # "idle" /\ get[r].asked \in LoneRangeLists
  \/ answer[r] # Nothing /\ answer[r].asked \in LoneRangeLists

\* Nobody is in the middle of a PUT.
Quiet == \A w \in Writer : put[w] \in {"idle", "done"}

-----------------------------------------------------------------------------
(* PUT of a document that is there *)

Wrote(w, pc) == put' = [put EXCEPT ![w] = pc] /\ UNCHANGED <<get, answer, cache>>

\* CreateAsync: the new stream is the data of the document from now on.
Create(w) ==
  /\ put[w] = "idle"
  /\ \A r \in Reader : ~ Lone(r)
  /\ data' = w
  /\ Wrote(w, "writing")
  /\ UNCHANGED <<written, etag>>

\* Copy, a part of the body at a time.
Write(w) ==
  /\ put[w] = "writing" /\ written[w] < Size[w]
  /\ written' = [written EXCEPT ![w] = @ + 1]
  /\ UNCHANGED <<data, etag, put, get, answer, cache>>

\* The body has come, or its client hangs up: the stream is disposed of.
EndOfBody(w) ==
  /\ put[w] = "writing"
  /\ Wrote(w, IF written[w] = Size[w] THEN "dispose" ELSE "abort")
  /\ UNCHANGED <<data, written, etag>>

\* MyMemoryStream.Dispose: the data become those of this stream ...
Dispose(w) ==
  /\ put[w] \in {"dispose", "abort"}
  /\ data' = w
  /\ Wrote(w, IF put[w] = "dispose" THEN "tag" ELSE "tag aborted")
  /\ UNCHANGED <<written, etag>>

\* Seeded bug: only a PUT that succeeds changes the entity tag.
DisposeTagOnSuccess(w) ==
  /\ put[w] \in {"tag", "tag aborted"}
  /\ etag' = IF put[w] = "tag" THEN etag + 1 ELSE etag
  /\ Wrote(w, IF put[w] = "tag" THEN "update" ELSE "done")
  /\ UNCHANGED <<data, written>>

\* ... and the entity tag is a new one.
DisposeTag(w) ==
  /\ put[w] \in {"tag", "tag aborted"}
  /\ etag' = etag + 1
  /\ Wrote(w, IF put[w] = "tag" THEN "update" ELSE "done")
  /\ UNCHANGED <<data, written>>

\* UpdateETagAsync of a PUT that got that far.
UpdateETag(w) ==
  /\ put[w] = "update"
  /\ etag' = etag + 1
  /\ Wrote(w, "done")
  /\ UNCHANGED <<data, written>>

-----------------------------------------------------------------------------
(* RangeHeader *)

NormalizeItem(item, length) ==
  IF item.from = Open
  THEN [from |-> IF item.to = Open THEN 0 ELSE length - item.to, to |-> length - 1]
  ELSE [from |-> item.from, to |-> IF item.to = Open THEN length - 1 ELSE item.to]

InOrder(x, y) == x.from < y.from \/ (x.from = y.from /\ x.to <= y.to)

\* OrderBy and ThenBy.
Sorted(items) ==
  LET order == CHOOSE p \in Bijection(DOMAIN items, DOMAIN items) :
                 \A i, j \in DOMAIN items : i < j => InOrder(items[p[i]], items[p[j]])
  IN  [i \in DOMAIN items |-> items[order[i]]]

\* Seeded bug: ranges with one position between them are made one.
MergeNear(acc, item) ==
  IF acc.current = Nothing THEN [acc EXCEPT !.current = item, !.end = item.to]
  ELSE IF item.from <= acc.end + 2 THEN [acc EXCEPT !.current.to = item.to]
  ELSE [done |-> Append(acc.done, acc.current), current |-> item, end |-> item.to]

\* Ranges that overlap or touch are made one.  The end they are compared with
\* (currentTo) stays that of the first of them.
Merge(acc, item) ==
  IF acc.current = Nothing THEN [acc EXCEPT !.current = item, !.end = item.to]
  ELSE IF item.from <= acc.end + 1 THEN [acc EXCEPT !.current.to = item.to]
  ELSE [done |-> Append(acc.done, acc.current), current |-> item, end |-> item.to]

NormalizeRanges(items, length) ==
  LET sorted == Sorted([i \in DOMAIN items |-> NormalizeItem(items[i], length)])
      merged == FoldLeft(Merge, [done |-> <<>>, current |-> Nothing, end |-> 0], sorted)
  IN  Append(merged.done, merged.current)

-----------------------------------------------------------------------------
(* GET and HEAD *)

Step(r, g) == get' = [get EXCEPT ![r] = g] /\ UNCHANGED <<data, written, etag, put>>

\* The answer is remembered if nobody wrote when the request began; `began' is
\* the entity tag of that moment.
Answered(r, status) ==
  /\ Step(r, Idle)
  /\ answer' = [answer EXCEPT ![r] =
                  IF get[r].began = Nothing THEN Nothing
                  ELSE [status |-> status, method |-> get[r].method, began |-> get[r].began,
                        asked |-> get[r].asked, parts |-> get[r].parts]]
Answer(r, status) == Answered(r, status) /\ UNCHANGED cache

\* A client asks for the document or for ranges of it, maybe only if its tag
\* is, or is not, the one he knows.
Begin(r, method, asked, condition) ==
  /\ get[r].pc = "idle"
  /\ \A s \in Reader \ {r} : ~ Lone(s)
  /\ condition # "none" => cache[r] # Nothing
  /\ Step(r, [pc |-> "validate", method |-> method, asked |-> asked, condition |-> condition,
              began |-> IF Quiet THEN etag ELSE Nothing,
              items |-> <<>>, tag |-> Nothing, parts |-> <<>>])
  /\ answer' = [answer EXCEPT ![r] = Nothing]
  /\ UNCHANGED cache

\* IfMatchHeader.IsMatch and IfNoneMatchHeader.IsMatch, for one strong tag.
Fails(r) ==
  CASE get[r].condition = "If-Match"      -> etag # cache[r].tag
    [] get[r].condition = "If-None-Match" -> etag = cache[r].tag
    [] OTHER -> FALSE

ValidateAsync(r) ==
  /\ get[r].pc = "validate"
  /\ IF Fails(r)
     THEN Answer(r, IF get[r].condition = "If-Match" THEN "PreconditionFailed" ELSE "NotModified")
     ELSE /\ Step(r, [get[r] EXCEPT !.pc = IF get[r].asked = <<>> THEN "headers" ELSE "normalize"])
          /\ UNCHANGED <<answer, cache>>

\* The length is read here ...
Normalize(r) ==
  /\ get[r].pc = "normalize"
  /\ Step(r, [get[r] EXCEPT !.pc = "check", !.items = NormalizeRanges(get[r].asked, Length)])
  /\ UNCHANGED <<answer, cache>>

Satisfiable(item, length) == item.to - item.from + 1 >= 0 /\ item.to < length

\* ... and once more here.
CheckRanges(r) ==
  /\ get[r].pc = "check"
  /\ IF \E i \in DOMAIN get[r].items : ~ Satisfiable(get[r].items[i], Length)
     THEN Answer(r, "RequestedRangeNotSatisfiable")
     ELSE Step(r, [get[r] EXCEPT !.pc = "headers"]) /\ UNCHANGED <<answer, cache>>

\* ExecuteResultAsync: the entity tag is read before the data; HEAD ends here,
\* with the status GET would have, but no parts.
TellETag(r) ==
  /\ get[r].pc = "headers"
  /\ IF get[r].method = "HEAD"
     THEN Answer(r, IF get[r].asked = <<>> THEN "OK" ELSE "PartialContent")
     ELSE /\ Step(r, [get[r] EXCEPT !.pc = "open", !.tag = etag])
          /\ UNCHANGED <<answer, cache>>

\* OpenReadAsync copies what the document holds by now.
OpenDocument(r) ==
  /\ get[r].pc = "open" /\ get[r].asked = <<>>
  /\ cache' = [cache EXCEPT ![r] = [tag |-> get[r].tag, body |-> data, length |-> Length]]
  /\ Answered(r, "OK")

\* It does so for every range; StreamView.CreateAsync seeks to its beginning.
OpenRange(r) ==
  /\ get[r].pc = "open" /\ get[r].items # <<>>
  /\ LET item == Head(get[r].items)
         part == [from |-> item.from, to |-> item.to, body |-> data, length |-> Length]
     IN  IF item.from < 0 THEN Answer(r, "exception")
         ELSE /\ Step(r, [get[r] EXCEPT !.items = Tail(@), !.parts = Append(@, part)])
              /\ UNCHANGED <<answer, cache>>

\* ContentRangeHeaderValue throws for an empty range and for one that ends
\* behind the document, whose length is read yet again.
HasContentRange(part) == part.from <= part.to /\ part.to <= Length

SendRanges(r) ==
  /\ get[r].pc = "open" /\ get[r].asked # <<>> /\ get[r].items = <<>>
  /\ Answer(r, IF \A i \in DOMAIN get[r].parts : HasContentRange(get[r].parts[i])
               THEN "PartialContent" ELSE "exception")

-----------------------------------------------------------------------------

Read(r) ==
  \/ \E method \in {"GET", "HEAD"}, asked \in RangeLists,
        condition \in {"none", "If-Match", "If-None-Match"} : Begin(r, method, asked, condition)
  \/ \E asked \in LoneRangeLists :
        /\ etag = 0 /\ Quiet /\ cache = [s \in Reader |-> Nothing]
        /\ \A s \in Reader \ {r} : get[s] = Idle /\ answer[s] = Nothing
        /\ Begin(r, "GET", asked, "none")
  \/ ValidateAsync(r) \/ Normalize(r) \/ CheckRanges(r) \/ TellETag(r)
  \/ OpenDocument(r) \/ OpenRange(r) \/ SendRanges(r)

Next ==
  \/ \E w \in Writer : \/ Create(w) \/ Write(w) \/ EndOfBody(w)
                       \/ Dispose(w) \/ DisposeTag(w) \/ UpdateETag(w)
  \/ \E r \in Reader : Read(r)

Spec == Init /\ [][Next]_vars

-----------------------------------------------------------------------------
(* Properties *)

GetTypeOK ==
  /\ data \in Bodies /\ written \in [Bodies -> Nat] /\ etag \in Nat
  /\ put \in [Writer -> {"idle", "writing", "dispose", "abort", "tag", "tag aborted",
                         "update", "done"}]
  /\ \A r \in Reader :
       /\ get[r].pc \in {"idle", "validate", "normalize", "check", "headers", "open"}
       /\ cache[r] \in [tag : 0 .. etag, body : Bodies, length : Nat] \cup {Nothing}
       /\ answer[r] # Nothing =>
            answer[r].status \in {"OK", "NotModified", "PreconditionFailed", "PartialContent",
                                  "RequestedRangeNotSatisfiable", "exception"}

\* While no PUT is under way, a client that knows the entity tag of the document
\* has its body, all of it.  Whatever a GET mixed up while PUT requests wrote,
\* overlapped or were cut off shows in the tag afterwards: each of them makes a
\* new one after its last change of the data (MyMemoryStream.Dispose).
CacheIsCoherent ==
  Quiet => \A r \in Reader :
             cache[r] # Nothing /\ cache[r].tag = etag
               => cache[r].body = data /\ cache[r].length = Length

\* The positions a range stands for, as RFC 7233 says it.
Positions(item) ==
  {p \in 0 .. Length - 1 :
     IF item.from = Open THEN item.to = Open \/ p >= Length - item.to
     ELSE p >= item.from /\ (item.to = Open \/ p <= item.to)}

Within(item) ==
  LET i == NormalizeItem(item, Length) IN 0 <= i.from /\ i.from <= i.to /\ i.to < Length

\* No range ends before one that begins before it.
EndsInOrder(items) ==
  \A x, y \in {NormalizeItem(items[i], Length) : i \in DOMAIN items} :
    x.from < y.from => x.to <= y.to

\* Types, and: a GET of ranges of a document nobody wrote meanwhile answers with bytes of
\* this document, those of the ranges and no others, from the first to the last;
\* with all of them unless a range lies inside another one (the merge forgets
\* the end of the outer one, RangeHeader.cs:178); and it refuses or fails only
\* if a range does not lie within the document.  A HEAD is refused alike.
RangesAreServed ==
  /\ GetTypeOK
  /\ \A r \in Reader :
       answer[r] # Nothing /\ answer[r].asked # <<>> /\ Quiet /\ answer[r].began = etag =>
         LET asked == answer[r].asked
             parts == answer[r].parts
             wanted == UNION {Positions(asked[i]) : i \in DOMAIN asked}
             served == UNION {parts[i].from .. parts[i].to : i \in DOMAIN parts}
         IN  /\ answer[r].status \in {"RequestedRangeNotSatisfiable", "exception"}
                  => \E i \in DOMAIN asked : ~ Within(asked[i])
             /\ answer[r].status = "PartialContent" /\ answer[r].method = "GET" =>
                  /\ \A i \in DOMAIN parts : parts[i].body = data /\ parts[i].length = Length
                  /\ \A i, j \in DOMAIN parts : i < j => parts[i].from < parts[j].from
                  /\ served \subseteq wanted
                  /\ EndsInOrder(asked) => served = wanted

\* What RFC 4918 (webdav-docs/rfc4918-webdav.html:1282) asks for: two answers
\* with the same entity tag have the same body.
ETagIsNotReused ==
  \A r, s \in Reader :
    cache[r] # Nothing /\ cache[s] # Nothing /\ cache[r].tag = cache[s].tag
      => cache[r].body = cache[s].body /\ cache[r].length = cache[s].length

=============================================================================
