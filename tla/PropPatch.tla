----------------------------- MODULE PropPatch -----------------------------
(***************************************************************************)
(* PROPPATCH on one resource: PropPatchHandler.PropPatchAsync applies the  *)
(* instructions of a body one by one to a property store that knows no     *)
(* transactions, and undoes what it did when one of them fails.  Several   *)
(* requests may be under way, for the temporary lock they take is shared.  *)
(*                                                                         *)
(* A property is known by its name: an arbitrary dead property, the        *)
(* predefined dead property displayname, the writeable live property       *)
(* getlastmodified, or the protected getetag.  Calls of the property store *)
(* are atomic; a file system without a property store is left out.         *)
(***************************************************************************)
EXTENDS Naturals, Sequences

CONSTANTS
  Request,      \* the PROPPATCH requests
  DeadName,     \* names the code has no class for
  Value,        \* XML values
  DefaultName,  \* DisplayNameProperty.GetDefaultName
  Bodies,       \* Bodies[r]: the propertyupdate elements r may send
  Throwing,     \* properties whose write may throw: a bad date, a failing store
  Ancestors,    \* how many collections lie above the resource
  Absent,       \* no such property
  Unread        \* a predefined property whose value was not looked up yet

Predefined == {"displayname", "getlastmodified", "getetag"}
Name       == DeadName \cup Predefined
Stored     == Name \ {"getetag"}
Alias      == [lastmodified |-> "getlastmodified", etag |-> "getetag"]
Key        == Name \cup DOMAIN Alias

Instruction == [op : {"set", "remove"}, name : Key, value : Value,
                opens : BOOLEAN]  \* the first of its <set> or <remove> element

ASSUME ConstantsAssumption ==
  /\ DefaultName \in Value
  /\ Absent \notin Value \cup Key /\ Unread \notin Value /\ Absent # Unread
  /\ DeadName \cap (Predefined \cup DOMAIN Alias) = {}
  /\ \A r \in Request : Bodies[r] \subseteq Seq(Instruction)
  /\ Ancestors \in Nat

\* `before' of a task is what the resource was when the request came, for the
\* properties.
VARIABLES
  store,         \* the property store's elements for the resource
  lastModified,  \* IEntry.LastWriteTimeUtc
  etag,          \* how often the entity tag of the resource (0) and of the
                 \* collections above it (1, 2, ...) was replaced
  task           \* what every request is doing

vars == <<store, lastModified, etag, task>>

Status  == {"Added", "Modified", "Removed", "Failed", "FailedDependency",
            "ReadOnlyProperty"}
Success == {"Added", "Modified", "Removed"}

\* ChangeItem; `property' is "Property is not null".
ChangeItem == [status : Status, name : Key, old : Value \cup {Absent},
               property : BOOLEAN]

Idle == [pc |-> "idle", body |-> <<>>, at |-> 0, failed |-> FALSE,
         properties |-> [n \in Name |-> Absent], changes |-> <<>>,
         before |-> [store |-> [n \in Stored |-> Absent], etag |-> 0, quiet |-> TRUE]]

TypeOK ==
  /\ store \in [Stored -> Value \cup {Absent}]
  /\ lastModified \in Value
  /\ etag \in [0..Ancestors -> Nat]
  /\ \A r \in Request :
       /\ task[r].pc \in {"idle", "apply", "revert", "etag", "answered", "crashed"}
       /\ task[r].at \in 0..(Len(task[r].body) + Ancestors + 1)
       /\ task[r].properties \in [Name -> Value \cup {Absent, Unread}]
       /\ task[r].changes \in Seq(ChangeItem)

\* A resource as a client sees it before anybody patched it: some dead
\* properties may be there, the display name is the default one.
Init ==
  /\ store \in {s \in [Stored -> Value \cup {Absent}] :
                  s["displayname"] = Absent /\ s["getlastmodified"] = Absent}
  /\ lastModified \in Value
  /\ etag = [k \in 0..Ancestors |-> 0]
  /\ task = [r \in Request |-> Idle]

-----------------------------------------------------------------------------
(* What a client sees. *)

\* DisplayNameProperty.GetValueAsync on a fresh entry.
DisplayName(s) == IF s["displayname"] = Absent THEN DefaultName ELSE s["displayname"]

\* The dead properties, with the display name that is shown.
Dead(s) == [n \in DeadName \cup {"displayname"} |->
              IF n = "displayname" THEN DisplayName(s) ELSE s[n]]

-----------------------------------------------------------------------------
(* Looking properties up. *)

\* GetProperties: the predefined properties are always there, the date with
\* its present value; then come the elements of the store, where the names
\* that were emitted already are skipped.
GetProperties ==
  [n \in Name |-> CASE n = "getlastmodified" -> lastModified
                    [] n \in {"displayname", "getetag"} -> Unread
                    [] OTHER -> store[n]]

FindProperty(properties, key) ==
  LET name == IF key \in DOMAIN Alias THEN Alias[key] ELSE key
  IN  IF properties[name] = Absent THEN Absent ELSE name

Current(t) == t.body[t.at]
Applying(t) == t.pc = "apply" /\ t.at <= Len(t.body)

\* The property the current instruction of t is about, or Absent.
Target(t) == FindProperty(t.properties, Current(t).name)

\* The instruction is about to touch an existing property.
Touches(t, op) ==
  /\ Applying(t) /\ ~ t.failed /\ Current(t).op = op
  /\ Target(t) # Absent /\ t.properties[Target(t)] # Unread

-----------------------------------------------------------------------------
(* Recording a change and going on. *)

Change(status, name, old, property) ==
  [status |-> status, name |-> name, old |-> old, property |-> property]

IsSuccess(change) == change.status \in Success
HasError(changes) == \E i \in DOMAIN changes : ~ IsSuccess(changes[i])

\* A new <set> or <remove> element starts with what the elements before it
\* came to; within an element only the method itself says whether it failed.
Advance(t, change, failed, properties) ==
  LET changes == Append(t.changes, change)
      opens   == t.at < Len(t.body) /\ t.body[t.at + 1].opens
  IN  [t EXCEPT !.at = @ + 1, !.changes = changes, !.properties = properties,
                !.failed = IF opens THEN HasError(changes) ELSE failed]

Step(r, t) == task' = [task EXCEPT ![r] = t]

\* An exception leaves the handler: no answer but 500, nothing is undone.
Crash(r) == Step(r, [task[r] EXCEPT !.pc = "crashed"])

-----------------------------------------------------------------------------
(* Applying the instructions. *)

Still(r) == task[r].pc \in {"idle", "answered"}

Begin(r, body) ==
  /\ task[r].pc = "idle"
  /\ Step(r, [Idle EXCEPT !.pc = "apply", !.body = body, !.at = 1,
                          !.properties = GetProperties,
                          !.before = [store |-> store, etag |-> etag[0],
                                      quiet |-> \A q \in Request : Still(q)]])
  /\ UNCHANGED <<store, lastModified, etag>>

\* Everything after a failure is skipped.
SkipDependent(r) ==
  LET t == task[r] IN
  /\ Applying(t) /\ t.failed
  /\ Step(r, Advance(t, Change("FailedDependency", Current(t).name, Absent, FALSE),
                     TRUE, t.properties))
  /\ UNCHANGED <<store, lastModified, etag>>

\* GetXmlValueAsync of the display name asks the store once and keeps the answer.
ReadDisplayName(r) ==
  LET t == task[r] IN
  /\ Applying(t) /\ ~ t.failed
  /\ Target(t) = "displayname" /\ t.properties["displayname"] = Unread
  /\ Step(r, [t EXCEPT !.properties["displayname"] = DisplayName(store)])
  /\ UNCHANGED <<store, lastModified, etag>>

\* A protected property: neither set nor removed.
RefuseProtected(r) ==
  LET t == task[r] IN
  /\ Applying(t) /\ ~ t.failed /\ Target(t) = "getetag"
  /\ Step(r, Advance(t, Change("ReadOnlyProperty", "getetag", Absent, TRUE),
                     Current(t).op = "set", t.properties))
  /\ UNCHANGED <<store, lastModified, etag>>

\* Seeded bug: the property object takes the value, the store never hears of it.
SetCached(r) ==
  LET t == task[r]  n == Target(t)  v == Current(t).value IN
  /\ Touches(t, "set")
  /\ Step(r, Advance(t, Change("Modified", n, t.properties[n], TRUE), FALSE,
                     [t.properties EXCEPT ![n] = v]))
  /\ UNCHANGED <<store, lastModified, etag>>

\* SetXmlValueAsync of a property that is there: a dead one goes to the store
\* and keeps the new value as its own; the date goes to the entry, its
\* property object keeps the value it was made with.
SetExisting(r) ==
  LET t == task[r]  n == Target(t)  v == Current(t).value IN
  /\ Touches(t, "set")
  /\ LET change == Change("Modified", n, t.properties[n], TRUE) IN
     IF n = "getlastmodified"
     THEN /\ lastModified' = v
          /\ Step(r, Advance(t, change, FALSE, t.properties))
          /\ UNCHANGED store
     ELSE /\ store' = [store EXCEPT ![n] = v]
          /\ Step(r, Advance(t, change, FALSE, [t.properties EXCEPT ![n] = v]))
          /\ UNCHANGED lastModified
  /\ UNCHANGED etag

SetExistingThrows(r) ==
  LET t == task[r]  n == Target(t) IN
  /\ Touches(t, "set") /\ n \in Throwing
  /\ Step(r, Advance(t, Change("Failed", n, Absent, TRUE), TRUE,
                     IF n = "getlastmodified" THEN t.properties
                     ELSE [t.properties EXCEPT ![n] = Current(t).value]))
  /\ UNCHANGED <<store, lastModified, etag>>

\* A name nobody knows becomes a dead property.
SetNew(r) ==
  LET t == task[r]  n == Current(t).name  v == Current(t).value IN
  /\ Applying(t) /\ ~ t.failed /\ Current(t).op = "set" /\ Target(t) = Absent
  /\ store' = [store EXCEPT ![n] = v]
  /\ Step(r, Advance(t, Change("Added", n, Absent, TRUE), FALSE,
                     [t.properties EXCEPT ![n] = v]))
  /\ UNCHANGED <<lastModified, etag>>

\* This write is outside of the try block that turns an exception into a
\* failed change.
SetNewThrows(r) ==
  LET t == task[r]  n == Current(t).name IN
  /\ Applying(t) /\ ~ t.failed /\ Current(t).op = "set" /\ Target(t) = Absent
  /\ n \in Throwing
  /\ Crash(r)
  /\ UNCHANGED <<store, lastModified, etag>>

\* A property that is there is removed from the store under the name the
\* client used; the store says whether it was there.  A failure does not stop
\* the rest of the <remove> element.
RemoveExisting(r) ==
  LET t       == task[r]
      n       == Target(t)
      key     == Current(t).name
      removed == key \in Stored /\ store[key] # Absent
      change  == IF removed THEN Change("Removed", n, t.properties[n], TRUE)
                 ELSE Change("Failed", n, Absent, TRUE)
  IN
  /\ Touches(t, "remove") /\ n # "getlastmodified"
  /\ store' = IF removed THEN [store EXCEPT ![key] = Absent] ELSE store
  /\ Step(r, Advance(t, change, FALSE, t.properties))
  /\ UNCHANGED <<lastModified, etag>>

RemoveThrows(r) ==
  LET t == task[r]  n == Target(t) IN
  /\ Touches(t, "remove") /\ n \in Throwing \ {"getlastmodified"}
  /\ Step(r, Advance(t, Change("Failed", n, Absent, TRUE), TRUE, t.properties))
  /\ UNCHANGED <<store, lastModified, etag>>

RemoveLive(r) ==
  LET t == task[r] IN
  /\ Touches(t, "remove") /\ Target(t) = "getlastmodified"
  /\ Step(r, Advance(t, Change("Failed", "getlastmodified", Absent, TRUE), FALSE,
                     t.properties))
  /\ UNCHANGED <<store, lastModified, etag>>

RemoveUnknown(r) ==
  LET t == task[r] IN
  /\ Applying(t) /\ ~ t.failed /\ Current(t).op = "remove" /\ Target(t) = Absent
  /\ Step(r, Advance(t, Change("Removed", Current(t).name, Absent, FALSE), FALSE,
                     t.properties))
  /\ UNCHANGED <<store, lastModified, etag>>

\* Seeded bugs: a failure is answered as it stands, nothing is undone; the
\* entity tags of the collections above are replaced, the resource's is not.
EndApplyForgets(r) ==
  LET t == task[r] IN
  /\ t.pc = "apply" /\ t.at > Len(t.body)
  /\ Step(r, IF HasError(t.changes)
             THEN [t EXCEPT !.pc = "revert", !.at = 0]
             ELSE [t EXCEPT !.pc = "etag", !.at = 0])
  /\ UNCHANGED <<store, lastModified, etag>>
EndApplyUntagged(r) ==
  LET t == task[r] IN
  /\ t.pc = "apply" /\ t.at > Len(t.body)
  /\ Step(r, IF HasError(t.changes)
             THEN [t EXCEPT !.pc = "revert", !.at = Len(t.changes)]
             ELSE [t EXCEPT !.pc = "etag", !.at = 1])
  /\ UNCHANGED <<store, lastModified, etag>>

EndApply(r) ==
  LET t == task[r] IN
  /\ t.pc = "apply" /\ t.at > Len(t.body)
  /\ Step(r, IF HasError(t.changes)
             THEN [t EXCEPT !.pc = "revert", !.at = Len(t.changes)]
             ELSE [t EXCEPT !.pc = "etag", !.at = 0])
  /\ UNCHANGED <<store, lastModified, etag>>

-----------------------------------------------------------------------------
(* Undoing the changes, the last one first. *)

Reverting(t) == t.pc = "revert" /\ t.at > 0
LastChange(t) == t.changes[t.at]

\* The change goes into the answer as a failed dependency.
Undone(t, properties) ==
  [t EXCEPT !.at = @ - 1, !.properties = properties,
            !.changes[t.at] = Change("FailedDependency", LastChange(t).name, Absent, FALSE)]

RevertAdded(r) ==
  LET t == task[r]  n == LastChange(t).name IN
  /\ Reverting(t) /\ LastChange(t).status = "Added"
  /\ store' = [store EXCEPT ![n] = Absent]
  /\ Step(r, Undone(t, [t.properties EXCEPT ![n] = Absent]))
  /\ UNCHANGED <<lastModified, etag>>

\* Seeded bug: the value the property object holds by now is written back, not
\* the one this change replaced.
RevertToLast(r) ==
  LET t == task[r]  n == LastChange(t).name IN
  /\ Reverting(t) /\ LastChange(t).status = "Modified"
  /\ store' = [store EXCEPT ![n] = t.properties[n]]
  /\ Step(r, Undone(t, t.properties))
  /\ UNCHANGED <<lastModified, etag>>

\* The old value goes to the property store, whatever property it is of.
RevertModified(r) ==
  LET t == task[r]  n == LastChange(t).name IN
  /\ Reverting(t) /\ LastChange(t).status = "Modified"
  /\ store' = [store EXCEPT ![n] = LastChange(t).old]
  /\ Step(r, Undone(t, t.properties))
  /\ UNCHANGED <<lastModified, etag>>

\* The property is put back into the dictionary first, where it still is, so
\* Add throws; the removal of an unknown property has nothing to undo.
RevertRemoved(r) ==
  LET t == task[r]  n == LastChange(t).name IN
  /\ Reverting(t) /\ LastChange(t).status = "Removed"
  /\ IF ~ LastChange(t).property
     THEN Step(r, Undone(t, t.properties)) /\ UNCHANGED store
     ELSE IF t.properties[n] # Absent
     THEN Crash(r) /\ UNCHANGED store
     ELSE /\ store' = [store EXCEPT ![n] = LastChange(t).old]
          /\ Step(r, Undone(t, [t.properties EXCEPT ![n] = LastChange(t).old]))
  /\ UNCHANGED <<lastModified, etag>>

KeepFailure(r) ==
  LET t == task[r] IN
  /\ Reverting(t) /\ ~ IsSuccess(LastChange(t))
  /\ Step(r, [t EXCEPT !.at = @ - 1])
  /\ UNCHANGED <<store, lastModified, etag>>

\* The store throws while a change is being undone.
RevertThrows(r) ==
  LET t == task[r] IN
  /\ Reverting(t) /\ LastChange(t).status \in {"Added", "Modified"}
  /\ LastChange(t).name \in Throwing
  /\ Crash(r)
  /\ UNCHANGED <<store, lastModified, etag>>

-----------------------------------------------------------------------------
(* Entity tags and the answer. *)

UpdateETag(r) ==
  LET t == task[r] IN
  /\ t.pc = "etag" /\ t.at <= Ancestors
  /\ etag' = [etag EXCEPT ![t.at] = @ + 1]
  /\ Step(r, [t EXCEPT !.at = @ + 1])
  /\ UNCHANGED <<store, lastModified>>

Answer(r) ==
  LET t == task[r] IN
  /\ \/ t.pc = "etag" /\ t.at > Ancestors
     \/ t.pc = "revert" /\ t.at = 0
  /\ Step(r, [t EXCEPT !.pc = "answered"])
  /\ UNCHANGED <<store, lastModified, etag>>

Apply(r) ==
  \/ SkipDependent(r) \/ ReadDisplayName(r) \/ RefuseProtected(r)
  \/ SetExisting(r) \/ SetExistingThrows(r) \/ SetNew(r) \/ SetNewThrows(r)
  \/ RemoveExisting(r) \/ RemoveThrows(r) \/ RemoveLive(r) \/ RemoveUnknown(r)
  \/ EndApply(r)

Revert(r) ==
  \/ RevertAdded(r) \/ RevertModified(r) \/ RevertRemoved(r)
  \/ KeepFailure(r) \/ RevertThrows(r)

Next ==
  \E r \in Request :
    \/ \E body \in Bodies[r] : Begin(r, body)
    \/ Apply(r)
    \/ Revert(r)
    \/ UpdateETag(r)
    \/ Answer(r)

Spec == Init /\ [][Next]_vars

-----------------------------------------------------------------------------
(* Properties *)

Over(r) == task[r].pc \in {"answered", "crashed"}
Refused(r) == task[r].pc = "answered" /\ HasError(task[r].changes)
Accepted(r) == task[r].pc = "answered" /\ ~ HasError(task[r].changes)

\* The dead properties a body names; no alias is one.
Shown == DeadName \cup {"displayname"}
Wanted(body) == {body[i].name : i \in DOMAIN body} \cap Shown
Named(r) == Wanted(task[r].body)

\* Of a property that two requests name the code promises no value: they share
\* the temporary lock, and who undoes a change puts back what it read before the
\* other one wrote.
Contested == {n \in Shown : \E r, q \in Request : r # q /\ n \in Named(r) \cap Named(q)}
Own(r) == Named(r) \ Contested

\* The instruction of r that has the last word on a property.
LastWord(r, n) ==
  task[r].body[CHOOSE i \in DOMAIN task[r].body :
                 /\ task[r].body[i].name = n
                 /\ \A j \in DOMAIN task[r].body :
                      task[r].body[j].name = n => j <= i]

\* The store holds what r said of a property.
Shows(r, n) ==
  LET last == LastWord(r, n) IN
  IF last.op = "set" THEN store[n] = last.value ELSE store[n] = Absent

\* A request that is answered with a failure left every dead property that it
\* alone named as it found it, the shown display name included, whatever it had
\* added or modified, in one instruction or in several on the same name, and
\* whatever others did meanwhile to the properties they named
\* (RevertChangesAsync).
RefusedIsUndone ==
  \A r \in Request : Refused(r) =>
    \A n \in Own(r) : Dead(store)[n] = Dead(task[r].before.store)[n]

\* A request that is answered without a failure left every property that it
\* alone named with what its last instruction on it said (document order,
\* ApplyChangesAsync).
AcceptedIsApplied ==
  \A r \in Request : Accepted(r) => \A n \in Own(r) : Shows(r, n)

\* No answer mixes a property that was changed with one that was not: with one
\* failure in it, nothing in it is reported as done (RevertChangesAsync turns
\* every success into a failed dependency), and every instruction is answered.
AnswersAreUniform ==
  \A r \in Request : task[r].pc = "answered" =>
    /\ Len(task[r].changes) = Len(task[r].body)
    /\ HasError(task[r].changes) =>
         \A i \in DOMAIN task[r].changes : ~ IsSuccess(task[r].changes[i])

\* The state of every request is in order, its answer included.
RequestsAreConsistent == TypeOK /\ AnswersAreUniform

\* An accepted request leaves another entity tag than the one it found, even if
\* others name the same properties.  When no request is under way and none has
\* broken down, whoever saw the entity tag at such a moment before knows the
\* dead properties that are not contested: they are what they were, or the
\* entity tag is another one (the UpdateETagAsync calls of PropPatchAsync come
\* last, and not at all after a failure).
ETagTellsProperties ==
  /\ \A r \in Request : Accepted(r) => task[r].before.etag < etag[0]
  /\ (\A r \in Request : Still(r)) =>
       \A r \in Request :
         (/\ task[r].pc = "answered" /\ task[r].before.quiet
          /\ task[r].before.etag = etag[0])
           => \A n \in Shown \ Contested :
                Dead(store)[n] = Dead(task[r].before.store)[n]

(* What the standard says and the code does not do. *)

\* "Instructions MUST either all be executed or none executed" (RFC 4918): a
\* request that is over and did not succeed changed no property.
AllOrNothing ==
  \A r \in Request : Over(r) /\ ~ Accepted(r) =>
    /\ store = task[r].before.store
    /\ etag[0] = task[r].before.etag
=============================================================================
