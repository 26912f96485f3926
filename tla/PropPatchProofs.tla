-------------------------- MODULE PropPatchProofs --------------------------
(***************************************************************************)
(* For every number of overlapping PROPPATCH requests, every body and      *)
(* every write that throws: no answer mixes what was done with what was    *)
(* not, and as long as no dead property is named by two requests, what is  *)
(* answered is what the store holds and what the entity tag tells.         *)
(***************************************************************************)
EXTENDS PropPatch, WellFoundedInduction, TLAPS

-----------------------------------------------------------------------------
(* The invariant: what a request has recorded at each point of the handler. *)

Properties == [Name -> Value \cup {Absent, Unread}]

Before == [store : [Stored -> Value \cup {Absent}], etag : Nat, quiet : BOOLEAN]

Task == [pc : {"idle", "apply", "revert", "etag", "answered", "crashed"},
         body : Seq(Instruction), at : Nat, failed : BOOLEAN,
         properties : Properties, changes : Seq(ChangeItem),
         before : Before]

NoSuccessAfter(t, n) == \A i \in DOMAIN t.changes : i > n => ~ IsSuccess(t.changes[i])

\* While a body is applied there is one change for every instruction that was
\* looked at.  What is undone has a failure in it, and behind the change that
\* is undone next there is nothing but failures.
Recorded(t) ==
  /\ t.pc \in {"apply", "revert", "etag", "answered"} => t.at <= Len(t.body) + Ancestors + 1
  /\ t.pc = "idle" => t.at = 0
  /\ t.pc = "apply" => t.at \in 1..(Len(t.body) + 1) /\ Len(t.changes) = t.at - 1
  /\ t.pc \in {"revert", "etag", "answered"} => Len(t.changes) = Len(t.body)
  /\ t.pc = "revert" => /\ HasError(t.changes)
                        /\ t.at <= Len(t.changes)
                        /\ NoSuccessAfter(t, t.at)
  /\ t.pc = "etag" => ~ HasError(t.changes) /\ t.at <= Ancestors + 1
  /\ t.pc = "answered" /\ HasError(t.changes) => NoSuccessAfter(t, 0)
  /\ t.pc = "crashed" => t.at <= Len(t.body) + Ancestors + 1

GoodTask(t) == t \in Task /\ Recorded(t)

Resource ==
  /\ store \in [Stored -> Value \cup {Absent}]
  /\ lastModified \in Value
  /\ etag \in [0..Ancestors -> Nat]

Inv ==
  /\ Resource
  /\ task \in [Request -> Task]
  /\ \A r \in Request : Recorded(task[r])

\* Putting another value into one field of a task.
LEMMA TaskWith ==
  ASSUME NEW t \in Task
  PROVE  /\ \A at \in Nat :
              LET d == [t EXCEPT !.at = at]
              IN  /\ d \in Task /\ d.at = at
                  /\ d.pc = t.pc /\ d.body = t.body /\ d.changes = t.changes
                  /\ d.properties = t.properties /\ d.failed = t.failed /\ d.before = t.before
         /\ \A changes \in Seq(ChangeItem) :
              LET d == [t EXCEPT !.changes = changes]
              IN  /\ d \in Task /\ d.changes = changes
                  /\ d.pc = t.pc /\ d.body = t.body /\ d.at = t.at
                  /\ d.properties = t.properties /\ d.failed = t.failed /\ d.before = t.before
         /\ \A properties \in Properties :
              LET d == [t EXCEPT !.properties = properties]
              IN  /\ d \in Task /\ d.properties = properties
                  /\ d.pc = t.pc /\ d.body = t.body /\ d.at = t.at /\ d.changes = t.changes
                  /\ d.failed = t.failed /\ d.before = t.before
         /\ \A failed \in BOOLEAN :
              LET d == [t EXCEPT !.failed = failed]
              IN  /\ d \in Task /\ d.failed = failed
                  /\ d.pc = t.pc /\ d.body = t.body /\ d.at = t.at /\ d.changes = t.changes
                  /\ d.properties = t.properties /\ d.before = t.before
BY DEF Task

LEMMA TaskWithState ==
  ASSUME NEW t \in Task, NEW pc \in {"apply", "revert", "etag", "answered", "crashed"}
  PROVE  LET d == [t EXCEPT !.pc = pc]
         IN  /\ d \in Task /\ d.pc = pc
             /\ d.at = t.at /\ d.body = t.body /\ d.changes = t.changes
             /\ d.properties = t.properties /\ d.failed = t.failed /\ d.before = t.before
BY DEF Task

LEMMA TaskWithBody ==
  ASSUME NEW t \in Task, NEW body \in Seq(Instruction)
  PROVE  LET d == [t EXCEPT !.body = body]
         IN  /\ d \in Task /\ d.body = body
             /\ d.pc = t.pc /\ d.at = t.at /\ d.changes = t.changes
             /\ d.properties = t.properties /\ d.failed = t.failed /\ d.before = t.before
BY DEF Task

LEMMA TaskWithBefore ==
  ASSUME NEW t \in Task, NEW before \in Before
  PROVE  LET d == [t EXCEPT !.before = before]
         IN  /\ d \in Task /\ d.before = before
             /\ d.pc = t.pc /\ d.body = t.body /\ d.at = t.at /\ d.changes = t.changes
             /\ d.properties = t.properties /\ d.failed = t.failed
BY DEF Task

LEMMA IdleIsTask == Idle \in Task /\ Idle.pc = "idle" /\ Idle.at = 0 /\ Idle.changes = <<>>
BY DEF Idle, Task, Properties, Before

\* A step of one request.
LEMMA StepKeepsInv ==
  ASSUME Inv, NEW r \in Request, NEW t, Step(r, t), GoodTask(t), Resource'
  PROVE  Inv'
BY DEF Inv, Step, GoodTask

\* A request that breaks down is over.
LEMMA CrashKeepsInv ==
  ASSUME Inv, NEW r \in Request, Crash(r), Resource', task[r].pc \in {"apply", "revert"}
  PROVE  Inv'
<1> DEFINE t == task[r]
           d == [t EXCEPT !.pc = "crashed"]
<1>1. t \in Task /\ Recorded(t)
  BY DEF Inv
<1>2. d \in Task /\ d.pc = "crashed" /\ d.at = t.at /\ d.body = t.body
  BY <1>1, TaskWithState
<1> HIDE DEF d
<1>3. GoodTask(d)
  BY <1>1, <1>2 DEF GoodTask, Recorded
<1>4. Step(r, d)
  BY DEF Crash, d
<1> QED  BY <1>3, <1>4, StepKeepsInv

\* An instruction is recorded and the handler goes on to the next one.
LEMMA AdvanceIs ==
  ASSUME NEW t, GoodTask(t), Applying(t), NEW change \in ChangeItem, NEW failed \in BOOLEAN,
         NEW properties \in Properties, NEW u, u = Advance(t, change, failed, properties)
  PROVE  /\ u \in Task /\ u.pc = "apply" /\ u.at = t.at + 1 /\ u.body = t.body
         /\ u.changes = Append(t.changes, change)
         /\ u.properties = properties /\ u.before = t.before
         /\ failed /\ ~ IsSuccess(change) => u.failed
<1> DEFINE changes == Append(t.changes, change)
           f == IF t.at < Len(t.body) /\ t.body[t.at + 1].opens THEN HasError(changes) ELSE failed
           d == [t EXCEPT !.at = t.at + 1, !.changes = changes, !.properties = properties,
                          !.failed = f]
<1>1. u = d
  BY DEF Advance
<1>2. t \in Task /\ t.pc = "apply" /\ t.at \in 1..Len(t.body) /\ t.changes \in Seq(ChangeItem)
  BY DEF GoodTask, Recorded, Applying, Task
<1>3. changes \in Seq(ChangeItem) /\ changes[Len(t.changes) + 1] = change
      /\ Len(t.changes) + 1 \in DOMAIN changes
  BY <1>2
<1>4. f \in BOOLEAN
  BY DEF HasError
<1>5. ~ IsSuccess(change) => HasError(changes)
  BY <1>3 DEF HasError
<1>6. failed /\ ~ IsSuccess(change) => f
  BY <1>5
<1>7. changes = Append(t.changes, change)
  OBVIOUS
<1> HIDE DEF changes, f
<1> DEFINE at == t.at + 1
<1>a. at \in Nat
  BY <1>2
<1> HIDE DEF at
<1> DEFINE d1 == [t EXCEPT !.at = at]
           d2 == [d1 EXCEPT !.changes = changes]
           d3 == [d2 EXCEPT !.properties = properties]
           d4 == [d3 EXCEPT !.failed = f]
<1>b. d = d4
  BY DEF at
<1> HIDE DEF d
<1>c. d1 \in Task /\ d1.at = at /\ d1.pc = t.pc /\ d1.body = t.body /\ d1.before = t.before
  BY <1>2, <1>a, TaskWith
<1> HIDE DEF d1
<1>d. /\ d2 \in Task /\ d2.at = at /\ d2.pc = t.pc /\ d2.body = t.body /\ d2.changes = changes
      /\ d2.before = t.before
  BY <1>3, <1>c, TaskWith
<1> HIDE DEF d2
<1>e. /\ d3 \in Task /\ d3.at = at /\ d3.pc = t.pc /\ d3.body = t.body /\ d3.changes = changes
      /\ d3.before = t.before /\ d3.properties = properties
  BY <1>d, TaskWith
<1> HIDE DEF d3
<1>f. /\ d4 \in Task /\ d4.at = at /\ d4.pc = t.pc /\ d4.body = t.body /\ d4.changes = changes
      /\ d4.before = t.before /\ d4.properties = properties /\ d4.failed = f
  BY <1>4, <1>e, TaskWith
<1> HIDE DEF d4
<1>g. u = d4
  BY <1>1, <1>b
<1>h. u.failed = f
  BY <1>f, <1>g
<1>i. failed /\ ~ IsSuccess(change) => u.failed
  BY <1>6, <1>h
<1> QED  BY <1>2, <1>7, <1>f, <1>g, <1>i DEF at

LEMMA AdvanceIsGood ==
  ASSUME NEW t, GoodTask(t), Applying(t), NEW change \in ChangeItem, NEW failed \in BOOLEAN,
         NEW properties \in Properties
  PROVE  GoodTask(Advance(t, change, failed, properties))
<1> SUFFICES ASSUME NEW u, u = Advance(t, change, failed, properties)  PROVE  GoodTask(u)
  OBVIOUS
<1>1. u \in Task /\ u.pc = "apply" /\ u.at = t.at + 1 /\ u.body = t.body
  BY AdvanceIs
<1>2. t.at \in 1..Len(t.body) /\ Len(t.changes) = t.at - 1 /\ t.changes \in Seq(ChangeItem)
  BY DEF GoodTask, Recorded, Applying, Task
<1>3. Len(u.changes) = t.at
  <2>1. u.changes = Append(t.changes, change)
    BY AdvanceIs
  <2> QED  BY <1>2, <2>1
<1>4. Len(t.body) \in Nat
  BY DEF GoodTask, Task
<1> QED
  BY <1>1, <1>2, <1>3, <1>4, ConstantsAssumption DEF GoodTask, Recorded

\* ds is cs with a failure at i.
FailureAt(i, cs, ds) ==
  /\ DOMAIN ds = DOMAIN cs /\ Len(ds) = Len(cs) /\ i \in DOMAIN cs
  /\ ~ IsSuccess(ds[i])
  /\ \A j \in DOMAIN cs : j # i => ds[j] = cs[j]

\* A change is undone: it becomes a failure.
LEMMA UndoneIs ==
  ASSUME NEW t, GoodTask(t), Reverting(t), NEW properties \in Properties,
         NEW u, u = Undone(t, properties)
  PROVE  /\ u \in Task /\ u.pc = "revert" /\ u.at = t.at - 1 /\ u.body = t.body
         /\ u.properties = properties /\ u.before = t.before
         /\ FailureAt(t.at, t.changes, u.changes)
<1> DEFINE failure == Change("FailedDependency", LastChange(t).name, Absent, FALSE)
           changes == [t.changes EXCEPT ![t.at] = failure]
           d == [t EXCEPT !.at = @ - 1, !.properties = properties, !.changes = changes]
<1>1. u = d
  BY DEF Undone
<1>2. /\ t \in Task /\ t.pc = "revert" /\ t.at \in 1..Len(t.changes)
      /\ t.changes \in Seq(ChangeItem)
  BY DEF GoodTask, Recorded, Reverting, Task
<1>3. failure \in ChangeItem /\ ~ IsSuccess(failure)
  <2>1. t.changes[t.at] \in ChangeItem
    BY <1>2
  <2> QED  BY <2>1 DEF Change, ChangeItem, LastChange, IsSuccess, Success, Status
<1> HIDE DEF failure
<1>4. /\ changes \in Seq(ChangeItem) /\ Len(changes) = Len(t.changes)
      /\ changes[t.at] = failure
      /\ \A i \in DOMAIN changes : i # t.at => changes[i] = t.changes[i]
      /\ DOMAIN changes = DOMAIN t.changes
  BY <1>2, <1>3
<1> HIDE DEF changes
<1> DEFINE d1 == [t EXCEPT !.at = t.at - 1]
           d2 == [d1 EXCEPT !.properties = properties]
           d3 == [d2 EXCEPT !.changes = changes]
<1>a. d = d3
  OBVIOUS
<1> HIDE DEF d
<1>b. t.at - 1 \in Nat
  BY <1>2
<1>c. d1 \in Task /\ d1.at = t.at - 1 /\ d1.pc = t.pc /\ d1.body = t.body /\ d1.before = t.before
  BY <1>2, <1>b, TaskWith
<1> HIDE DEF d1
<1>d. /\ d2 \in Task /\ d2.at = t.at - 1 /\ d2.pc = t.pc /\ d2.body = t.body
      /\ d2.before = t.before /\ d2.properties = properties
  BY <1>c, TaskWith
<1> HIDE DEF d2
<1>5. /\ d3 \in Task /\ d3.pc = "revert" /\ d3.at = t.at - 1 /\ d3.body = t.body
      /\ d3.changes = changes /\ d3.before = t.before /\ d3.properties = properties
  BY <1>2, <1>4, <1>d, TaskWith
<1> HIDE DEF d3
<1>6. u = d3
  BY <1>1, <1>a
<1>7. FailureAt(t.at, t.changes, changes)
  BY <1>2, <1>3, <1>4 DEF FailureAt
<1> QED  BY <1>5, <1>6, <1>7

LEMMA UndoneIsGood ==
  ASSUME NEW t, GoodTask(t), Reverting(t), NEW properties \in Properties
  PROVE  GoodTask(Undone(t, properties))
<1> SUFFICES ASSUME NEW u, u = Undone(t, properties)  PROVE  GoodTask(u)
  OBVIOUS
<1>a. /\ u \in Task /\ u.pc = "revert" /\ u.at = t.at - 1 /\ u.body = t.body
      /\ FailureAt(t.at, t.changes, u.changes)
  BY UndoneIs
<1>1. /\ DOMAIN u.changes = DOMAIN t.changes /\ Len(u.changes) = Len(t.changes)
      /\ t.at \in DOMAIN t.changes
      /\ ~ IsSuccess(u.changes[t.at])
      /\ \A i \in DOMAIN t.changes : i # t.at => u.changes[i] = t.changes[i]
  BY <1>a DEF FailureAt
<1>2. /\ t \in Task /\ t.pc = "revert" /\ t.at \in 1..Len(t.changes)
      /\ NoSuccessAfter(t, t.at) /\ Len(t.changes) = Len(t.body)
      /\ t.changes \in Seq(ChangeItem)
  BY DEF GoodTask, Recorded, Reverting, Task
<1>3. HasError(u.changes)
  BY <1>1 DEF HasError
<1>4. NoSuccessAfter(u, u.at)
  <2> SUFFICES ASSUME NEW i \in DOMAIN u.changes, i > t.at - 1
               PROVE  ~ IsSuccess(u.changes[i])
    BY <1>a DEF NoSuccessAfter
  <2>1. CASE i = t.at
    BY <1>1, <2>1
  <2>2. CASE i # t.at
    <3>1. i > t.at /\ i \in DOMAIN t.changes
      BY <1>1, <1>2, <2>2
    <3> QED  BY <1>1, <1>2, <2>2, <3>1 DEF NoSuccessAfter
  <2> QED  BY <2>1, <2>2
<1> QED
  BY <1>a, <1>1, <1>2, <1>3, <1>4, ConstantsAssumption DEF GoodTask, Recorded

-----------------------------------------------------------------------------
(* Applying the instructions. *)

LEMMA CurrentIsInstruction ==
  ASSUME NEW t, GoodTask(t), Applying(t)
  PROVE  /\ Current(t) \in Instruction
         /\ Current(t).name \in Key /\ Current(t).value \in Value
         /\ Current(t).op \in {"set", "remove"}
         /\ t.properties \in Properties
<1>1. t.body \in Seq(Instruction) /\ t.at \in 1..Len(t.body) /\ t.properties \in Properties
  BY DEF GoodTask, Recorded, Applying, Task
<1>2. t.body[t.at] \in Instruction
  BY <1>1
<1> QED  BY <1>1, <1>2 DEF Current, Instruction

\* What is found is a property, and one that is touched has been looked up.
LEMMA TargetIsName ==
  ASSUME NEW t, GoodTask(t), Applying(t), Target(t) # Absent
  PROVE  /\ Target(t) \in Name /\ Target(t) \in Key
         /\ t.properties[Target(t)] \in Value \cup {Absent, Unread}
<1>1. Current(t).name \in Key /\ t.properties \in Properties
  BY CurrentIsInstruction
<1>2. \A k \in DOMAIN Alias : Alias[k] \in Name
  BY DEF Alias, Name, Predefined
<1>3. Target(t) \in Name
  BY <1>1, <1>2 DEF Target, FindProperty, Key
<1> QED  BY <1>1, <1>3 DEF Key, Properties

LEMMA ChangeIsItem ==
  ASSUME NEW status \in Status, NEW name \in Key, NEW old \in Value \cup {Absent},
         NEW property \in BOOLEAN
  PROVE  Change(status, name, old, property) \in ChangeItem
BY DEF Change, ChangeItem

LEMMA AdvanceKeepsInv ==
  ASSUME Inv, NEW r \in Request, Applying(task[r]), NEW change \in ChangeItem,
         NEW failed \in BOOLEAN, NEW properties \in Properties,
         Step(r, Advance(task[r], change, failed, properties)), Resource'
  PROVE  Inv'
<1>1. GoodTask(task[r])
  BY DEF Inv, GoodTask
<1>2. GoodTask(Advance(task[r], change, failed, properties))
  BY <1>1, AdvanceIsGood
<1> QED  BY <1>2, StepKeepsInv

\* A request starts with the properties as they are.
LEMMA BeginKeepsInv ==
  ASSUME Inv, NEW r \in Request, NEW body \in Bodies[r], Begin(r, body)
  PROVE  Inv'
<1> DEFINE before     == [store |-> store, etag |-> etag[0],
                          quiet |-> \A q \in Request : Still(q)]
           properties == GetProperties
           d  == [Idle EXCEPT !.pc = "apply", !.body = body, !.at = 1,
                              !.properties = properties, !.before = before]
           d1 == [Idle EXCEPT !.pc = "apply"]
           d2 == [d1 EXCEPT !.body = body]
           d3 == [d2 EXCEPT !.at = 1]
           d4 == [d3 EXCEPT !.properties = properties]
           d5 == [d4 EXCEPT !.before = before]
<1>1. Resource /\ Resource'
  BY DEF Inv, Begin, Resource
<1>2. properties \in Properties
  BY <1>1 DEF GetProperties, Properties, Resource, Stored, Name, Predefined
<1>3. before \in Before
  <2>1. etag[0] \in Nat
    BY <1>1, ConstantsAssumption DEF Resource
  <2>2. (\A q \in Request : Still(q)) \in BOOLEAN
    OBVIOUS
  <2> QED  BY <1>1, <2>1, <2>2 DEF Resource, Before
<1>4. body \in Seq(Instruction)
  BY ConstantsAssumption
<1>5. Step(r, d)
  BY DEF Begin
<1> HIDE DEF before, properties
<1>6. d = d5
  OBVIOUS
<1> HIDE DEF d
<1>a. d1 \in Task /\ d1.pc = "apply" /\ d1.at = 0 /\ d1.changes = <<>>
  BY IdleIsTask, TaskWithState
<1> HIDE DEF d1
<1>b. d2 \in Task /\ d2.pc = "apply" /\ d2.body = body /\ d2.changes = <<>>
  BY <1>a, <1>4, TaskWithBody
<1> HIDE DEF d2
<1>c. d3 \in Task /\ d3.pc = "apply" /\ d3.at = 1 /\ d3.body = body /\ d3.changes = <<>>
  <2> DEFINE one == 1
             e  == [d2 EXCEPT !.at = one]
  <2>1. one \in Nat /\ e = d3
    OBVIOUS
  <2> HIDE DEF one, d3
  <2>2. /\ e \in Task /\ e.at = one
        /\ e.pc = d2.pc /\ e.body = d2.body /\ e.changes = d2.changes
    BY <1>b, <2>1, TaskWith
  <2> HIDE DEF e
  <2> QED  BY <1>b, <2>1, <2>2 DEF one
<1> HIDE DEF d3
<1>d. d4 \in Task /\ d4.pc = "apply" /\ d4.at = 1 /\ d4.body = body /\ d4.changes = <<>>
  BY <1>c, <1>2, TaskWith
<1> HIDE DEF d4
<1>7. d \in Task /\ d.pc = "apply" /\ d.at = 1 /\ d.body = body /\ d.changes = <<>>
  BY <1>d, <1>3, <1>6, TaskWithBefore
<1>8. Len(<<>>) = 0 /\ Len(body) \in Nat
  BY <1>4
<1>9. Recorded(d)
  BY <1>7, <1>8, ConstantsAssumption DEF Recorded
<1> QED  BY <1>1, <1>5, <1>7, <1>9, StepKeepsInv DEF GoodTask

\* What is recorded without touching the resource.
LEMMA RefusalsKeepInv ==
  ASSUME Inv, NEW r \in Request,
         \/ SkipDependent(r) \/ RefuseProtected(r) \/ SetExistingThrows(r)
         \/ RemoveThrows(r) \/ RemoveLive(r) \/ RemoveUnknown(r)
  PROVE  Inv'
<1> DEFINE t == task[r]
<1>1. GoodTask(t) /\ Resource
  BY DEF Inv, GoodTask
<1>2. Resource'
  BY <1>1 DEF SkipDependent, RefuseProtected, SetExistingThrows, RemoveThrows, RemoveLive,
              RemoveUnknown, Resource
<1>3. Applying(t)
  BY DEF SkipDependent, RefuseProtected, SetExistingThrows, RemoveThrows, RemoveLive,
         RemoveUnknown, Touches
<1>4. /\ Current(t).name \in Key /\ Current(t).value \in Value
      /\ t.properties \in Properties
  BY <1>1, <1>3, CurrentIsInstruction
<1>5. {"getetag", "getlastmodified"} \subseteq Key
  BY DEF Key, Name, Predefined
<1>6. ASSUME Touches(t, "set") \/ Touches(t, "remove")
      PROVE  Target(t) \in Key
  BY <1>1, <1>3, <1>6, TargetIsName DEF Touches
<1>7. {"Removed", "Failed", "FailedDependency", "ReadOnlyProperty"} \subseteq Status
  BY DEF Status
<1>8. CASE SkipDependent(r)
  <2>1. Change("FailedDependency", Current(t).name, Absent, FALSE) \in ChangeItem
    BY <1>4, <1>7, ChangeIsItem
  <2> QED  BY <1>2, <1>3, <1>4, <1>8, <2>1, AdvanceKeepsInv DEF SkipDependent
<1>9. CASE RefuseProtected(r)
  <2>1. Change("ReadOnlyProperty", "getetag", Absent, TRUE) \in ChangeItem
    BY <1>5, <1>7, ChangeIsItem
  <2>2. (Current(t).op = "set") \in BOOLEAN
    OBVIOUS
  <2> QED  BY <1>2, <1>3, <1>4, <1>9, <2>1, <2>2, AdvanceKeepsInv DEF RefuseProtected
<1>10. CASE SetExistingThrows(r)
  <2> DEFINE properties == IF Target(t) = "getlastmodified" THEN t.properties
                           ELSE [t.properties EXCEPT ![Target(t)] = Current(t).value]
  <2>1. Change("Failed", Target(t), Absent, TRUE) \in ChangeItem
    BY <1>6, <1>7, <1>10, ChangeIsItem DEF SetExistingThrows
  <2>2. properties \in Properties
    BY <1>4 DEF Properties
  <2>3. Step(r, Advance(t, Change("Failed", Target(t), Absent, TRUE), TRUE, properties))
    BY <1>10 DEF SetExistingThrows
  <2> HIDE DEF properties
  <2> QED  BY <1>2, <1>3, <2>1, <2>2, <2>3, AdvanceKeepsInv
<1>11. CASE RemoveThrows(r)
  <2>1. Change("Failed", Target(t), Absent, TRUE) \in ChangeItem
    BY <1>6, <1>7, <1>11, ChangeIsItem DEF RemoveThrows
  <2> QED  BY <1>2, <1>3, <1>4, <1>11, <2>1, AdvanceKeepsInv DEF RemoveThrows
<1>12. CASE RemoveLive(r)
  <2>1. Change("Failed", "getlastmodified", Absent, TRUE) \in ChangeItem
    BY <1>5, <1>7, ChangeIsItem
  <2> QED  BY <1>2, <1>3, <1>4, <1>12, <2>1, AdvanceKeepsInv DEF RemoveLive
<1>13. CASE RemoveUnknown(r)
  <2>1. Change("Removed", Current(t).name, Absent, FALSE) \in ChangeItem
    BY <1>4, <1>7, ChangeIsItem
  <2> QED  BY <1>2, <1>3, <1>4, <1>13, <2>1, AdvanceKeepsInv DEF RemoveUnknown
<1> QED  BY <1>8, <1>9, <1>10, <1>11, <1>12, <1>13
LEMMA ReadDisplayNameKeepsInv ==
  ASSUME Inv, NEW r \in Request, ReadDisplayName(r)
  PROVE  Inv'
<1> DEFINE t == task[r]
           properties == [t.properties EXCEPT !["displayname"] = DisplayName(store)]
           d == [t EXCEPT !.properties = properties]
<1>1. GoodTask(t) /\ Resource /\ Resource'
  BY DEF Inv, GoodTask, ReadDisplayName, Resource
<1>2. t.properties \in Properties /\ t \in Task
  BY <1>1 DEF GoodTask, Task
<1>3. DisplayName(store) \in Value
  BY <1>1, ConstantsAssumption DEF Resource, DisplayName, Stored, Name, Predefined
<1>4. properties \in Properties
  BY <1>2, <1>3 DEF Properties
<1>5. Step(r, d)
  BY DEF ReadDisplayName
<1> HIDE DEF properties
<1>6. /\ d \in Task /\ d.pc = t.pc /\ d.body = t.body /\ d.at = t.at
      /\ d.changes = t.changes
  BY <1>2, <1>4, TaskWith
<1> HIDE DEF d
<1>7. GoodTask(d)
  BY <1>1, <1>6 DEF GoodTask, Recorded, NoSuccessAfter
<1> QED  BY <1>1, <1>5, <1>7, StepKeepsInv

LEMMA SetExistingKeepsInv ==
  ASSUME Inv, NEW r \in Request, SetExisting(r)
  PROVE  Inv'
<1> DEFINE t == task[r]
           n == Target(t)
           v == Current(t).value
           change == Change("Modified", n, t.properties[n], TRUE)
           properties == IF n = "getlastmodified" THEN t.properties
                         ELSE [t.properties EXCEPT ![n] = v]
<1>1. GoodTask(t) /\ Resource /\ Applying(t) /\ n # Absent
  BY DEF Inv, GoodTask, SetExisting, Touches
<1>2. v \in Value /\ t.properties \in Properties
  BY <1>1, CurrentIsInstruction
<1>3. n \in Key /\ t.properties[n] \in Value \cup {Absent}
  BY <1>1, TargetIsName DEF SetExisting, Touches
<1>4. change \in ChangeItem
  BY <1>3, ChangeIsItem DEF Status
<1>5. properties \in Properties
  BY <1>2 DEF Properties
<1>6. Step(r, Advance(t, change, FALSE, properties))
  BY DEF SetExisting
<1>7. Resource'
  <2>1. CASE n = "getlastmodified"
    BY <1>1, <1>2, <2>1 DEF SetExisting, Resource
  <2>2. CASE n # "getlastmodified"
    BY <1>1, <1>2, <2>2 DEF SetExisting, Resource
  <2> QED  BY <2>1, <2>2
<1> HIDE DEF change, properties
<1> QED  BY <1>1, <1>4, <1>5, <1>6, <1>7, AdvanceKeepsInv

LEMMA SetNewKeepsInv ==
  ASSUME Inv, NEW r \in Request, SetNew(r)
  PROVE  Inv'
<1> DEFINE t == task[r]
           n == Current(t).name
           v == Current(t).value
           change == Change("Added", n, Absent, TRUE)
           properties == [t.properties EXCEPT ![n] = v]
<1>1. GoodTask(t) /\ Resource /\ Applying(t)
  BY DEF Inv, GoodTask, SetNew
<1>2. n \in Key /\ v \in Value /\ t.properties \in Properties
  BY <1>1, CurrentIsInstruction
<1>3. change \in ChangeItem
  BY <1>2, ChangeIsItem DEF Status
<1>4. properties \in Properties
  BY <1>2 DEF Properties
<1>5. Step(r, Advance(t, change, FALSE, properties))
  BY DEF SetNew
<1>6. Resource'
  BY <1>1, <1>2 DEF SetNew, Resource
<1> HIDE DEF change, properties
<1> QED  BY <1>1, <1>3, <1>4, <1>5, <1>6, AdvanceKeepsInv

LEMMA RemoveExistingKeepsInv ==
  ASSUME Inv, NEW r \in Request, RemoveExisting(r)
  PROVE  Inv'
<1> DEFINE t       == task[r]
           n       == Target(t)
           key     == Current(t).name
           removed == key \in Stored /\ store[key] # Absent
           change  == IF removed THEN Change("Removed", n, t.properties[n], TRUE)
                      ELSE Change("Failed", n, Absent, TRUE)
<1>1. GoodTask(t) /\ Resource /\ Applying(t) /\ n # Absent
  BY DEF Inv, GoodTask, RemoveExisting, Touches
<1>2. t.properties \in Properties
  BY <1>1, CurrentIsInstruction
<1>3. n \in Key /\ t.properties[n] \in Value \cup {Absent}
  BY <1>1, TargetIsName DEF RemoveExisting, Touches
<1>4. change \in ChangeItem
  <2>1. Change("Removed", n, t.properties[n], TRUE) \in ChangeItem
    BY <1>3, ChangeIsItem DEF Status
  <2>2. Change("Failed", n, Absent, TRUE) \in ChangeItem
    BY <1>3, ChangeIsItem DEF Status
  <2> QED  BY <2>1, <2>2
<1>5. Step(r, Advance(t, change, FALSE, t.properties))
  BY DEF RemoveExisting
<1>6. Resource'
  BY <1>1 DEF RemoveExisting, Resource
<1> HIDE DEF change
<1> QED  BY <1>1, <1>2, <1>4, <1>5, <1>6, AdvanceKeepsInv

\* All instructions are recorded: what has a failure in it is undone.
LEMMA EndApplyKeepsInv ==
  ASSUME Inv, NEW r \in Request, EndApply(r)
  PROVE  Inv'
<1> DEFINE t == task[r]
           pc == IF HasError(t.changes) THEN "revert" ELSE "etag"
           at == IF HasError(t.changes) THEN Len(t.changes) ELSE 0
           d1 == [t EXCEPT !.pc = pc]
           d  == [d1 EXCEPT !.at = at]
<1>1. GoodTask(t) /\ Resource /\ Resource'
  BY DEF Inv, GoodTask, EndApply, Resource
<1>2. /\ t \in Task /\ t.changes \in Seq(ChangeItem) /\ Len(t.changes) = Len(t.body)
      /\ Len(t.body) \in Nat
  BY <1>1 DEF GoodTask, Recorded, EndApply, Task
<1>3. Step(r, d)
  <2>1. CASE HasError(t.changes)
    <3>1. d = [t EXCEPT !.pc = "revert", !.at = Len(t.changes)]
      BY <2>1
    <3>2. Step(r, [t EXCEPT !.pc = "revert", !.at = Len(t.changes)])
      BY <2>1 DEF EndApply
    <3> HIDE DEF d
    <3> QED  BY <3>1, <3>2
  <2>2. CASE ~ HasError(t.changes)
    <3>1. d = [t EXCEPT !.pc = "etag", !.at = 0]
      BY <2>2
    <3>2. Step(r, [t EXCEPT !.pc = "etag", !.at = 0])
      BY <2>2 DEF EndApply
    <3> HIDE DEF d
    <3> QED  BY <3>1, <3>2
  <2> QED  BY <2>1, <2>2
<1>4. at \in Nat /\ pc \in {"revert", "etag"}
  BY <1>2
<1>5. (pc = "revert" => HasError(t.changes) /\ at = Len(t.changes))
      /\ (pc = "etag" => ~ HasError(t.changes) /\ at = 0)
  OBVIOUS
<1> HIDE DEF pc, at
<1>6. d1 \in Task /\ d1.pc = pc /\ d1.body = t.body /\ d1.changes = t.changes
  <2>1. pc \in {"apply", "revert", "etag", "answered", "crashed"}
    BY <1>4
  <2> QED  BY <1>2, <2>1, TaskWithState
<1> HIDE DEF d1
<1>7. d \in Task /\ d.pc = pc /\ d.at = at /\ d.body = t.body /\ d.changes = t.changes
  BY <1>4, <1>6, TaskWith
<1> HIDE DEF d
<1>8. NoSuccessAfter(d, Len(t.changes))
  BY <1>2, <1>7 DEF NoSuccessAfter
<1>9. Recorded(d)
  BY <1>2, <1>4, <1>5, <1>7, <1>8, ConstantsAssumption DEF Recorded
<1> QED  BY <1>1, <1>3, <1>7, <1>9, StepKeepsInv DEF GoodTask

-----------------------------------------------------------------------------
(* Undoing, the entity tags and the answer. *)

LEMMA UndoneKeepsInv ==
  ASSUME Inv, NEW r \in Request, Reverting(task[r]), NEW properties \in Properties,
         Step(r, Undone(task[r], properties)), Resource'
  PROVE  Inv'
<1>1. GoodTask(task[r])
  BY DEF Inv, GoodTask
<1>2. GoodTask(Undone(task[r], properties))
  BY <1>1, UndoneIsGood
<1> QED  BY <1>2, StepKeepsInv

LEMMA RevertKeepsInv ==
  ASSUME Inv, NEW r \in Request,
         RevertAdded(r) \/ RevertModified(r) \/ RevertRemoved(r) \/ RevertThrows(r)
  PROVE  Inv'
<1> DEFINE t == task[r]
           c == LastChange(t)
<1>1. GoodTask(t) /\ Resource /\ Reverting(t)
  BY DEF Inv, GoodTask, RevertAdded, RevertModified, RevertRemoved, RevertThrows
<1>2. t.properties \in Properties /\ t.changes \in Seq(ChangeItem) /\ t.at \in 1..Len(t.changes)
  BY <1>1 DEF GoodTask, Recorded, Reverting, Task
<1>3. c.old \in Value \cup {Absent}
  <2>1. c \in ChangeItem
    BY <1>2 DEF LastChange
  <2> QED  BY <2>1 DEF ChangeItem
<1>4. /\ [store EXCEPT ![c.name] = Absent] \in [Stored -> Value \cup {Absent}]
      /\ [store EXCEPT ![c.name] = c.old] \in [Stored -> Value \cup {Absent}]
  BY <1>1, <1>3 DEF Resource
<1>5. /\ [t.properties EXCEPT ![c.name] = Absent] \in Properties
      /\ [t.properties EXCEPT ![c.name] = c.old] \in Properties
  BY <1>2, <1>3 DEF Properties
<1>6. Resource'
  BY <1>1, <1>4 DEF RevertAdded, RevertModified, RevertRemoved, RevertThrows, Resource
<1>7. CASE RevertAdded(r)
  BY <1>1, <1>5, <1>6, <1>7, UndoneKeepsInv DEF RevertAdded
<1>8. CASE RevertModified(r)
  BY <1>1, <1>2, <1>6, <1>8, UndoneKeepsInv DEF RevertModified
<1>9. CASE RevertRemoved(r)
  <2>1. CASE Crash(r)
    BY <1>1, <1>6, <2>1, CrashKeepsInv DEF Reverting
  <2>2. CASE Step(r, Undone(t, t.properties))
    BY <1>1, <1>2, <1>6, <2>2, UndoneKeepsInv
  <2>3. CASE Step(r, Undone(t, [t.properties EXCEPT ![c.name] = c.old]))
    BY <1>1, <1>5, <1>6, <2>3, UndoneKeepsInv
  <2> QED  BY <1>9, <2>1, <2>2, <2>3 DEF RevertRemoved
<1>10. CASE RevertThrows(r)
  BY <1>1, <1>6, <1>10, CrashKeepsInv DEF RevertThrows, Reverting
<1> QED  BY <1>7, <1>8, <1>9, <1>10

\* A change that failed stays what it is.
LEMMA KeepFailureKeepsInv ==
  ASSUME Inv, NEW r \in Request, KeepFailure(r)
  PROVE  Inv'
<1> DEFINE t == task[r]
           d == [t EXCEPT !.at = t.at - 1]
<1>1. GoodTask(t) /\ Resource /\ Resource'
  BY DEF Inv, GoodTask, KeepFailure, Resource
<1>2. /\ t \in Task /\ t.pc = "revert" /\ t.at \in 1..Len(t.changes)
      /\ t.changes \in Seq(ChangeItem) /\ NoSuccessAfter(t, t.at)
      /\ ~ IsSuccess(t.changes[t.at])
  BY <1>1 DEF GoodTask, Recorded, KeepFailure, Reverting, LastChange, Task
<1>3. Step(r, d)
  BY DEF KeepFailure
<1>4. /\ d \in Task /\ d.at = t.at - 1 /\ d.pc = t.pc /\ d.body = t.body
      /\ d.changes = t.changes
  <2>1. t.at - 1 \in Nat
    BY <1>2
  <2> QED  BY <1>2, <2>1, TaskWith
<1> HIDE DEF d
<1>5. NoSuccessAfter(d, d.at)
  BY <1>2, <1>4 DEF NoSuccessAfter
<1>6. Recorded(d)
  BY <1>1, <1>2, <1>4, <1>5, ConstantsAssumption DEF GoodTask, Recorded
<1> QED  BY <1>1, <1>3, <1>4, <1>6, StepKeepsInv DEF GoodTask

LEMMA UpdateETagKeepsInv ==
  ASSUME Inv, NEW r \in Request, UpdateETag(r)
  PROVE  Inv'
<1> DEFINE t == task[r]
           d == [t EXCEPT !.at = t.at + 1]
<1>1. GoodTask(t) /\ Resource /\ t \in Task /\ t.at \in Nat /\ Len(t.body) \in Nat
  BY DEF Inv, GoodTask, Task
<1>2. t.pc = "etag" /\ t.at <= Ancestors /\ Len(t.changes) = Len(t.body) /\ ~ HasError(t.changes)
  BY <1>1 DEF UpdateETag, GoodTask, Recorded
<1>3. Resource'
  BY <1>1, <1>2, ConstantsAssumption DEF UpdateETag, Resource
<1>4. Step(r, d)
  BY DEF UpdateETag
<1>5. /\ d \in Task /\ d.at = t.at + 1 /\ d.pc = t.pc /\ d.body = t.body
      /\ d.changes = t.changes
  <2>1. t.at + 1 \in Nat
    BY <1>1
  <2> QED  BY <1>1, <2>1, TaskWith
<1> HIDE DEF d
<1>6. Recorded(d)
  BY <1>1, <1>2, <1>5, ConstantsAssumption DEF Recorded
<1> QED  BY <1>3, <1>4, <1>5, <1>6, StepKeepsInv DEF GoodTask

LEMMA AnswerKeepsInv ==
  ASSUME Inv, NEW r \in Request, Answer(r)
  PROVE  Inv'
<1> DEFINE t == task[r]
           d == [t EXCEPT !.pc = "answered"]
<1>1. GoodTask(t) /\ Resource /\ Resource' /\ t \in Task
  BY DEF Inv, GoodTask, Answer, Resource
<1>2. /\ Len(t.changes) = Len(t.body)
      /\ t.at <= Len(t.body) + Ancestors + 1
      /\ HasError(t.changes) => NoSuccessAfter(t, 0)
  BY <1>1 DEF Answer, GoodTask, Recorded
<1>3. Step(r, d)
  BY DEF Answer
<1>4. /\ d \in Task /\ d.pc = "answered" /\ d.at = t.at /\ d.body = t.body
      /\ d.changes = t.changes
  BY <1>1, TaskWithState
<1> HIDE DEF d
<1>5. Recorded(d)
  BY <1>2, <1>4 DEF Recorded, NoSuccessAfter
<1> QED  BY <1>1, <1>3, <1>4, <1>5, StepKeepsInv DEF GoodTask

-----------------------------------------------------------------------------
(* The theorem. *)

LEMMA InitIsGood == Init => Inv
<1> SUFFICES ASSUME Init  PROVE  Inv
  OBVIOUS
<1>1. Resource
  BY ConstantsAssumption DEF Init, Resource
<1>2. task \in [Request -> Task]
  BY IdleIsTask DEF Init
<1>3. Recorded(Idle)
  <2>1. Idle.body = <<>> /\ Len(<<>>) = 0
    BY DEF Idle
  <2> QED  BY <2>1, IdleIsTask, ConstantsAssumption DEF Recorded
<1> QED  BY <1>1, <1>2, <1>3 DEF Inv, Init

LEMMA NextKeepsInv == Inv /\ [Next]_vars => Inv'
<1> SUFFICES ASSUME Inv, [Next]_vars  PROVE  Inv'
  OBVIOUS
<1>1. CASE UNCHANGED vars
  BY <1>1 DEF Inv, Resource, Recorded, NoSuccessAfter, vars
<1>2. ASSUME NEW r \in Request, Apply(r)
      PROVE  Inv'
  <2>1. CASE SetNewThrows(r)
    <3>1. Resource' /\ Crash(r) /\ task[r].pc = "apply"
      BY <2>1 DEF SetNewThrows, Applying, Inv, Resource
    <3> QED  BY <3>1, CrashKeepsInv
  <2> QED
    BY <1>2, <2>1, RefusalsKeepInv, ReadDisplayNameKeepsInv, SetExistingKeepsInv,
       SetNewKeepsInv, RemoveExistingKeepsInv, EndApplyKeepsInv DEF Apply
<1>3. ASSUME NEW r \in Request, Revert(r)
      PROVE  Inv'
  BY <1>3, RevertKeepsInv, KeepFailureKeepsInv DEF Revert
<1> QED
  BY <1>1, <1>2, <1>3, BeginKeepsInv, UpdateETagKeepsInv, AnswerKeepsInv DEF Next

LEMMA InvIsConsistent == Inv => RequestsAreConsistent
<1> SUFFICES ASSUME Inv  PROVE  RequestsAreConsistent
  OBVIOUS
<1>1. ASSUME NEW r \in Request
      PROVE  /\ task[r].pc \in {"idle", "apply", "revert", "etag", "answered", "crashed"}
             /\ task[r].at \in 0..(Len(task[r].body) + Ancestors + 1)
             /\ task[r].properties \in [Name -> Value \cup {Absent, Unread}]
             /\ task[r].changes \in Seq(ChangeItem)
  <2>1. task[r] \in Task /\ Recorded(task[r])
    BY DEF Inv
  <2>2. /\ task[r].at \in Nat /\ Len(task[r].body) \in Nat /\ task[r].changes \in Seq(ChangeItem)
        /\ task[r].pc \in {"idle", "apply", "revert", "etag", "answered", "crashed"}
        /\ task[r].properties \in Properties
    BY <2>1 DEF Task
  <2>3. task[r].at <= Len(task[r].body) + Ancestors + 1
    BY <2>1, <2>2, ConstantsAssumption DEF Recorded
  <2> QED  BY <2>2, <2>3, ConstantsAssumption DEF Properties
<1>2. TypeOK
  BY <1>1 DEF TypeOK, Inv, Resource
<1>3. AnswersAreUniform
  <2> SUFFICES ASSUME NEW r \in Request, task[r].pc = "answered"
               PROVE  /\ Len(task[r].changes) = Len(task[r].body)
                      /\ HasError(task[r].changes) =>
                           \A i \in DOMAIN task[r].changes : ~ IsSuccess(task[r].changes[i])
    BY DEF AnswersAreUniform
  <2>1. Recorded(task[r]) /\ task[r].changes \in Seq(ChangeItem)
    BY <1>1 DEF Inv
  <2> QED  BY <2>1 DEF Recorded, NoSuccessAfter
<1> QED  BY <1>2, <1>3 DEF RequestsAreConsistent

\* However many requests overlap and wherever a write throws: every request is
\* in order, and no answer mixes a property that was changed with one that was
\* not (PropPatchAsync, RevertChangesAsync).
THEOREM RequestsAreConsistentHolds == Spec => []RequestsAreConsistent
<1>1. Spec => []Inv
  BY InitIsGood, NextKeepsInv, PTL DEF Spec
<1> QED  BY <1>1, InvIsConsistent, PTL

-----------------------------------------------------------------------------
(* What a request did to the values: the names a body has to do with, and   *)
(* the changes that touched the store.                                      *)

Touching(change) ==
  \/ change.status \in {"Added", "Modified"}
  \/ change.status = "Removed" /\ change.property

\* One of the first m changes touched n.
Touched(changes, n, m) ==
  \E i \in DOMAIN changes : i <= m /\ Touching(changes[i]) /\ changes[i].name = n

\* What t found when it came.
Found(t, n) == Dead(t.before.store)[n]

\* Whoever undoes the first change of a property puts back what was found.
Undoable(t, own) ==
  \A i \in DOMAIN t.changes :
    LET c == t.changes[i] IN
    Touching(c) /\ c.name \in Shown =>
      /\ c.name \in Wanted(t.body)
      /\ c.status = "Added" => ~ Touched(t.changes, c.name, i - 1)
      /\ c.status = "Added" /\ c.name \in own => Found(t, c.name) = Absent
      /\ c.status = "Modified" /\ c.name \in own /\ ~ Touched(t.changes, c.name, i - 1) =>
           c.old = Found(t, c.name)

\* What the property objects hold before, and after, n was touched.
Holds(t, n, own) ==
  /\ Touched(t.changes, n, Len(t.changes)) => t.properties[n] \notin {Absent, Unread}
  /\ n \in own /\ ~ t.failed /\ ~ Touched(t.changes, n, Len(t.changes)) =>
       \/ t.properties[n] = Found(t, n)
       \/ n = "displayname" /\ t.properties[n] = Unread

LookedUp(t, own) ==
  /\ t.pc = "apply" => /\ \A n \in Predefined : t.properties[n] # Absent
                       /\ \A n \in Wanted(t.body) : Holds(t, n, own)
  /\ t.pc = "revert" =>
       \A n \in Wanted(t.body) : Touched(t.changes, n, t.at) => t.properties[n] # Absent

\* The changes that are still in the store.
Standing(t) ==
  CASE t.pc = "apply" -> Len(t.changes) [] t.pc = "revert" -> t.at [] OTHER -> 0

Restored(t, s, own) ==
  t.pc \in {"apply", "revert"} \/ (t.pc = "answered" /\ HasError(t.changes)) =>
    \A n \in Wanted(t.body) \cap own :
      ~ Touched(t.changes, n, Standing(t)) => Dead(s)[n] = Found(t, n)

\* The store holds what an instruction asks for.
Says(instruction, s) ==
  s[instruction.name] = IF instruction.op = "set" THEN instruction.value ELSE Absent

\* Instruction i is the last one so far on its property.
IsLast(t, i) ==
  \A j \in DOMAIN t.changes : t.body[j].name = t.body[i].name => j <= i

Applied(t, s, own) ==
  t.pc \in {"apply", "etag", "answered"} /\ ~ HasError(t.changes) =>
    \A i \in DOMAIN t.changes :
      t.body[i].name \in own /\ IsLast(t, i) => Says(t.body[i], s)

Sent(r) ==
  /\ task[r].body = <<>> \/ task[r].body \in Bodies[r]
  /\ task[r].pc = "idle" => task[r].body = <<>>

\* What r did to the values, as far as the properties in `own' are concerned.
Kept(t, s, own) ==
  Undoable(t, own) /\ LookedUp(t, own) /\ Restored(t, s, own) /\ Applied(t, s, own)

\* The properties no other request names.
Mine(r) == {n \in Shown : \A q \in Request \ {r} : n \notin Named(q)}

ValuesInv == \A r \in Request : Sent(r) /\ Kept(task[r], store, Mine(r))

\* Shown names are no aliases, and stored.
LEMMA ShownIs ==
  /\ Shown \subseteq Stored /\ Shown \subseteq Name /\ Shown \cap DOMAIN Alias = {}
  /\ "displayname" \in Shown /\ "displayname" \notin DeadName
  /\ "getlastmodified" \notin Shown /\ "getetag" \notin Shown
BY ConstantsAssumption DEF Shown, Stored, Name, Predefined, Alias

LEMMA DeadIs ==
  ASSUME NEW s \in [Stored -> Value \cup {Absent}], NEW n \in Shown
  PROVE  /\ n # "displayname" => Dead(s)[n] = s[n]
         /\ n = "displayname" => Dead(s)[n] \in Value
         /\ n = "displayname" /\ s[n] # Absent => Dead(s)[n] = s[n]
         /\ Dead(s)[n] = Absent => s[n] = Absent
         /\ Dead(s)[n] # Unread
<1>1. s[n] \in Value \cup {Absent}
  BY ShownIs
<1>2. Dead(s)[n] = IF n = "displayname" THEN DisplayName(s) ELSE s[n]
  BY DEF Dead, Shown
<1> QED  BY <1>1, <1>2, ConstantsAssumption DEF DisplayName

LEMMA DeadAgrees ==
  ASSUME NEW s \in [Stored -> Value \cup {Absent}], NEW u \in [Stored -> Value \cup {Absent}],
         NEW n \in Shown, s[n] = u[n]
  PROVE  Dead(s)[n] = Dead(u)[n]
BY DEF Dead, Shown, DisplayName

\* The changes of a task, and one more.
LEMMA TouchedAppend ==
  ASSUME NEW changes \in Seq(ChangeItem), NEW change \in ChangeItem, NEW n
  PROVE  LET more == Append(changes, change) IN
         /\ Len(more) = Len(changes) + 1 /\ Len(changes) \in Nat
         /\ DOMAIN more = DOMAIN changes \cup {Len(changes) + 1}
         /\ more[Len(changes) + 1] = change
         /\ \A i \in DOMAIN changes : i <= Len(changes) /\ more[i] = changes[i]
         /\ Touched(more, n, Len(more)) <=>
              Touched(changes, n, Len(changes)) \/ (Touching(change) /\ change.name = n)
         /\ \A m \in Nat : m <= Len(changes) => (Touched(more, n, m) <=> Touched(changes, n, m))
         /\ HasError(more) <=> HasError(changes) \/ ~ IsSuccess(change)
<1> DEFINE more == Append(changes, change)
<1>1. /\ Len(more) = Len(changes) + 1 /\ Len(changes) \in Nat
      /\ DOMAIN more = 1..(Len(changes) + 1) /\ DOMAIN changes = 1..Len(changes)
      /\ more[Len(changes) + 1] = change
      /\ \A i \in DOMAIN changes : more[i] = changes[i]
  OBVIOUS
<1> HIDE DEF more
<1>2. DOMAIN more = DOMAIN changes \cup {Len(changes) + 1}
  BY <1>1
<1>3. \A i \in DOMAIN changes : i <= Len(changes)
  BY <1>1
<1>4. \A m \in Nat : m <= Len(changes) => (Touched(more, n, m) <=> Touched(changes, n, m))
  BY <1>1 DEF Touched
<1>5. Touched(more, n, Len(more)) <=>
        Touched(changes, n, Len(changes)) \/ (Touching(change) /\ change.name = n)
  BY <1>1 DEF Touched
<1>6. HasError(more) <=> HasError(changes) \/ ~ IsSuccess(change)
  BY <1>1 DEF HasError
<1> QED  BY <1>1, <1>2, <1>3, <1>4, <1>5, <1>6 DEF more

\* What is known of a task that looks at an instruction.
LEMMA AtInstruction ==
  ASSUME NEW t, GoodTask(t), Applying(t)
  PROVE  /\ t.pc = "apply" /\ t.at = Len(t.changes) + 1 /\ t.at \in DOMAIN t.body
         /\ t.changes \in Seq(ChangeItem) /\ t.properties \in Properties
         /\ DOMAIN t.changes = 1..Len(t.changes) /\ DOMAIN t.changes \subseteq DOMAIN t.body
         /\ t.before \in Before
         /\ Current(t).name \in Shown => Current(t).name \in Wanted(t.body)
<1>1. /\ t.pc = "apply" /\ t.at = Len(t.changes) + 1 /\ t.at \in DOMAIN t.body
      /\ t.changes \in Seq(ChangeItem) /\ t.properties \in Properties
      /\ t.before \in Before /\ DOMAIN t.body = 1..Len(t.body)
  BY DEF GoodTask, Recorded, Applying, Task
<1>2. DOMAIN t.changes = 1..Len(t.changes)
  BY <1>1
<1> QED  BY <1>1, <1>2 DEF Current, Wanted

\* u is t with one more change.
Records(t, u, change) ==
  LET last == Len(t.changes) IN
  /\ u.pc = "apply" /\ u.body = t.body /\ u.before = t.before
  /\ last \in Nat /\ Len(u.changes) = last + 1 /\ DOMAIN t.changes = 1..last
  /\ DOMAIN u.changes = DOMAIN t.changes \cup {last + 1}
  /\ u.changes[last + 1] = change
  /\ \A i \in DOMAIN t.changes : u.changes[i] = t.changes[i]
  /\ u.body[last + 1] = Current(t)

LEMMA AdvanceRecords ==
  ASSUME NEW t, GoodTask(t), Applying(t), NEW change \in ChangeItem, NEW failed \in BOOLEAN,
         NEW properties \in Properties, NEW u, u = Advance(t, change, failed, properties)
  PROVE  Records(t, u, change)
<1>1. /\ u.pc = "apply" /\ u.body = t.body /\ u.before = t.before
      /\ u.changes = Append(t.changes, change)
  BY AdvanceIs
<1>2. /\ t.changes \in Seq(ChangeItem) /\ t.at = Len(t.changes) + 1
      /\ DOMAIN t.changes = 1..Len(t.changes)
  BY AtInstruction
<1>3. LET last == Len(t.changes) IN
      /\ last \in Nat /\ Len(u.changes) = last + 1 /\ DOMAIN t.changes = 1..last
      /\ DOMAIN u.changes = DOMAIN t.changes \cup {last + 1}
      /\ u.changes[last + 1] = change
      /\ \A i \in DOMAIN t.changes : u.changes[i] = t.changes[i]
  BY <1>1, <1>2, TouchedAppend
<1>4. u.body[Len(t.changes) + 1] = Current(t)
  BY <1>1, <1>2 DEF Current
<1> QED  BY <1>1, <1>3, <1>4 DEF Records

LEMMA RecordsIs ==
  ASSUME NEW t, NEW u, NEW change, Records(t, u, change)
  PROVE  LET last == Len(t.changes) IN
         /\ \A n : /\ Touched(u.changes, n, Len(u.changes)) <=>
                        Touched(t.changes, n, last) \/ (Touching(change) /\ change.name = n)
                   /\ Found(u, n) = Found(t, n)
                   /\ \A m \in Nat : m <= last =>
                        (Touched(u.changes, n, m) <=> Touched(t.changes, n, m))
         /\ HasError(t.changes) \/ ~ IsSuccess(change) => HasError(u.changes)
         /\ \A i \in DOMAIN t.changes :
              /\ i - 1 \in Nat /\ i - 1 <= last /\ u.changes[i] = t.changes[i]
              /\ IsLast(u, i) => IsLast(t, i) /\ Current(t).name # t.body[i].name
<1> DEFINE last == Len(t.changes)
<1>1. /\ last \in Nat /\ Len(u.changes) = last + 1 /\ DOMAIN t.changes = 1..last
      /\ DOMAIN u.changes = DOMAIN t.changes \cup {last + 1}
      /\ u.changes[last + 1] = change
      /\ \A i \in DOMAIN t.changes : u.changes[i] = t.changes[i]
  BY DEF Records
<1>2. u.body = t.body /\ u.body[last + 1] = Current(t) /\ u.before = t.before
  BY DEF Records
<1>3. ASSUME NEW n
      PROVE  /\ Touched(u.changes, n, Len(u.changes)) <=>
                  Touched(t.changes, n, last) \/ (Touching(change) /\ change.name = n)
             /\ Found(u, n) = Found(t, n)
             /\ \A m \in Nat : m <= last =>
                  (Touched(u.changes, n, m) <=> Touched(t.changes, n, m))
  <2>1. Found(u, n) = Found(t, n)
    BY <1>2 DEF Found
  <2>2. Touched(u.changes, n, Len(u.changes)) <=>
          Touched(t.changes, n, last) \/ (Touching(change) /\ change.name = n)
    BY <1>1 DEF Touched
  <2>3. \A m \in Nat : m <= last => (Touched(u.changes, n, m) <=> Touched(t.changes, n, m))
    BY <1>1 DEF Touched
  <2> QED  BY <2>1, <2>2, <2>3
<1>4. HasError(t.changes) \/ ~ IsSuccess(change) => HasError(u.changes)
  BY <1>1 DEF HasError
<1>5. ASSUME NEW i \in DOMAIN t.changes
      PROVE  /\ i - 1 \in Nat /\ i - 1 <= last /\ u.changes[i] = t.changes[i]
             /\ IsLast(u, i) => IsLast(t, i) /\ Current(t).name # t.body[i].name
  <2>1. i - 1 \in Nat /\ i - 1 <= last /\ u.changes[i] = t.changes[i] /\ ~ last + 1 <= i
    BY <1>1
  <2>2. IsLast(u, i) => IsLast(t, i)
    BY <1>1, <1>2 DEF IsLast
  <2>3. IsLast(u, i) => Current(t).name # t.body[i].name
    BY <1>1, <1>2, <2>1 DEF IsLast
  <2> QED  BY <2>1, <2>2, <2>3
<1> QED  BY <1>3, <1>4, <1>5

\* A change that touched nothing is recorded.  A property object that holds a
\* value which was not written belongs to a request that goes no further.
LEMMA UntouchedKept ==
  ASSUME NEW own \in SUBSET Shown,
         NEW t, GoodTask(t), Applying(t), NEW s, Kept(t, s, own),
         NEW change \in ChangeItem, ~ Touching(change),
         IsSuccess(change) /\ Current(t).name \in own => Says(Current(t), s),
         NEW failed \in BOOLEAN, NEW properties \in Properties,
         \A n \in Name :
           /\ t.properties[n] # Absent => properties[n] # Absent
           /\ t.properties[n] \notin {Absent, Unread} => properties[n] \notin {Absent, Unread},
         (failed /\ ~ IsSuccess(change)) \/ (~ t.failed /\ properties = t.properties),
         NEW u, u = Advance(t, change, failed, properties)
  PROVE  Kept(u, s, own)
<1>1. /\ t.pc = "apply" /\ t.changes \in Seq(ChangeItem) /\ t.properties \in Properties
  BY AtInstruction
<1>2. /\ u.pc = "apply" /\ u.body = t.body /\ u.properties = properties /\ u.before = t.before
      /\ u.changes = Append(t.changes, change)
      /\ failed /\ ~ IsSuccess(change) => u.failed
  BY AdvanceIs
<1>3. ~ Touching(change)
  OBVIOUS
<1> DEFINE last == Len(t.changes)
<1>4. /\ Len(u.changes) = last + 1 /\ last \in Nat
      /\ DOMAIN u.changes = DOMAIN t.changes \cup {last + 1}
      /\ u.changes[last + 1] = change
      /\ \A i \in DOMAIN t.changes : i <= last /\ u.changes[i] = t.changes[i]
  BY <1>1, <1>2, TouchedAppend
<1>5. \A n : /\ Touched(u.changes, n, Len(u.changes)) <=> Touched(t.changes, n, last)
             /\ \A m \in Nat : m <= last => (Touched(u.changes, n, m) <=> Touched(t.changes, n, m))
  BY <1>1, <1>2, <1>3, TouchedAppend
<1>6. HasError(t.changes) => HasError(u.changes)
  BY <1>4 DEF HasError
<1>7. \A n : Found(u, n) = Found(t, n)
  BY <1>2 DEF Found
<1>8. DOMAIN t.changes = 1..last
  BY <1>1
<1>9. Undoable(u, own)
  <2> SUFFICES ASSUME NEW i \in DOMAIN u.changes, Touching(u.changes[i]),
                      u.changes[i].name \in Shown
               PROVE  LET c == u.changes[i] IN
                      /\ c.name \in Wanted(u.body)
                      /\ c.status = "Added" => ~ Touched(u.changes, c.name, i - 1)
                      /\ c.status = "Added" /\ c.name \in own => Found(u, c.name) = Absent
                      /\ c.status = "Modified" /\ c.name \in own
                           /\ ~ Touched(u.changes, c.name, i - 1) =>
                           c.old = Found(u, c.name)
    BY DEF Undoable
  <2>1. i \in DOMAIN t.changes /\ u.changes[i] = t.changes[i]
    BY <1>3, <1>4
  <2>2. i - 1 \in Nat /\ i - 1 <= last
    BY <1>8, <2>1
  <2>3. \A n : Touched(u.changes, n, i - 1) <=> Touched(t.changes, n, i - 1)
    BY <1>5, <2>2
  <2> QED  BY <1>2, <1>7, <2>1, <2>3 DEF Kept, Undoable
<1>10. LookedUp(u, own)
  <2>1. \A n \in Predefined : u.properties[n] # Absent
    BY <1>1, <1>2 DEF Kept, LookedUp, Name
  <2>2. ASSUME NEW n \in Wanted(t.body)
        PROVE  Holds(u, n, own)
    <3>1. Holds(t, n, own) /\ n \in Name
      BY <1>1, ShownIs DEF Kept, LookedUp, Wanted
    <3>2. CASE failed /\ ~ IsSuccess(change)
      <4>1. u.failed
        BY <1>2, <3>2
      <4>2. t.properties[n] \notin {Absent, Unread} => u.properties[n] \notin {Absent, Unread}
        BY <1>2, <3>1
      <4> QED  BY <1>5, <3>1, <4>1, <4>2 DEF Holds
    <3>3. CASE ~ t.failed /\ properties = t.properties
      <4>1. ~ t.failed /\ u.properties = t.properties
        BY <1>2, <3>3
      <4> QED  BY <1>5, <1>7, <3>1, <4>1 DEF Holds
    <3> QED  BY <3>2, <3>3
  <2> QED  BY <1>2, <2>1, <2>2 DEF LookedUp
<1>11. Restored(u, s, own)
  BY <1>1, <1>2, <1>5, <1>7 DEF Kept, Restored, Standing
<1>12. Applied(u, s, own)
  <2> SUFFICES ASSUME ~ HasError(u.changes), NEW i \in DOMAIN u.changes,
                      u.body[i].name \in own, IsLast(u, i)
               PROVE  Says(u.body[i], s)
    BY DEF Applied
  <2>1. CASE i \in DOMAIN t.changes
    <3>1. IsLast(t, i)
      BY <1>2, <1>4, <2>1 DEF IsLast
    <3> QED  BY <1>1, <1>2, <1>6, <2>1, <3>1 DEF Kept, Applied
  <2>2. CASE i = last + 1
    <3>1. u.body[i] = Current(t)
      BY <1>2, <2>2, AtInstruction DEF Current
    <3>2. IsSuccess(change)
      BY <1>4 DEF HasError
    <3> QED  BY <3>1, <3>2
  <2> QED  BY <1>4, <2>1, <2>2
<1> QED  BY <1>9, <1>10, <1>11, <1>12 DEF Kept

\* A property that is not there, and is shown, is not in the store either.
LEMMA AbsentIsAbsent ==
  ASSUME NEW own \in SUBSET Shown,
         NEW t, GoodTask(t), Applying(t), NEW s \in [Stored -> Value \cup {Absent}], Kept(t, s, own),
         ~ t.failed, NEW n \in Wanted(t.body), t.properties[n] = Absent
  PROVE  /\ n \in own => s[n] = Absent /\ Found(t, n) = Absent
         /\ n # "displayname" /\ ~ Touched(t.changes, n, Len(t.changes))
<1>1. t.pc = "apply" /\ n \in Shown
  BY AtInstruction DEF Wanted
<1>2. n # "displayname"
  BY <1>1 DEF Kept, LookedUp, Predefined
<1>3. /\ Holds(t, n, own)
      /\ n \in own /\ ~ Touched(t.changes, n, Len(t.changes)) => Dead(s)[n] = Found(t, n)
  BY <1>1 DEF Kept, LookedUp, Restored, Standing
<1>4. /\ ~ Touched(t.changes, n, Len(t.changes))
      /\ n \in own => Found(t, n) = Absent
  BY <1>2, <1>3 DEF Holds
<1>5. n \in own => s[n] = Absent
  BY <1>1, <1>3, <1>4, DeadIs
<1> QED  BY <1>2, <1>4, <1>5

\* A shown name is looked up under itself.
LEMMA TargetIsCurrent ==
  ASSUME NEW t, GoodTask(t), Applying(t)
  PROVE  /\ Current(t).name \in Shown /\ Target(t) # Absent => Target(t) = Current(t).name
         /\ Current(t).name \in Shown /\ Target(t) = Absent =>
              t.properties[Current(t).name] = Absent
         /\ Target(t) # Absent /\ Target(t) \in Shown => Target(t) = Current(t).name
         /\ Target(t) # Absent => t.properties[Target(t)] # Absent
<1> DEFINE key  == Current(t).name
           name == IF key \in DOMAIN Alias THEN Alias[key] ELSE key
<1>1. Target(t) = IF t.properties[name] = Absent THEN Absent ELSE name
  BY DEF Target, FindProperty
<1>2. key \in Shown => name = key
  BY ShownIs
<1>3. name \in Shown => name = key
  BY ShownIs DEF Alias
<1> HIDE DEF name
<1>4. Target(t) # Absent => Target(t) = name /\ t.properties[Target(t)] # Absent
  BY <1>1
<1>5. Target(t) = Absent /\ key \in Shown => t.properties[key] = Absent
  <2>1. Absent \notin Shown
    BY ShownIs, ConstantsAssumption DEF Key
  <2> QED  BY <1>1, <1>2, <2>1
<1> QED  BY <1>2, <1>3, <1>4, <1>5

\* An instruction touched n: the change says what it replaced, the property
\* object holds some value, and the store holds what the instruction asks for.
Touch(t, s, z, n, change, properties) ==
  /\ Touching(change) /\ change.name = n
  /\ \A m \in Shown : m # n => z[m] = s[m]
  /\ \A m \in Name : m # n => properties[m] = t.properties[m]
  /\ n \in Name => properties[n] \notin {Absent, Unread}
  /\ Current(t).name \in Shown \/ n \in Shown => n = Current(t).name
  /\ n \in Shown => Says(Current(t), z)
  /\ change.status = "Added" /\ n \in Shown => t.properties[n] = Absent
  /\ change.status = "Modified" /\ n \in Shown =>
       change.old = t.properties[n] /\ change.old # Unread

LEMMA TouchKept ==
  ASSUME NEW own \in SUBSET Shown,
         NEW t, GoodTask(t), Applying(t), ~ t.failed,
         NEW s \in [Stored -> Value \cup {Absent}], Kept(t, s, own),
         NEW change \in ChangeItem, NEW properties \in Properties, NEW n,
         NEW z \in [Stored -> Value \cup {Absent}], Touch(t, s, z, n, change, properties),
         NEW u, Records(t, u, change), u.properties = properties
  PROVE  Kept(u, z, own)
<1> DEFINE last == Len(t.changes)
<1>1. /\ t.pc = "apply" /\ DOMAIN t.changes = 1..last
      /\ Current(t).name \in Shown => Current(t).name \in Wanted(t.body)
  BY AtInstruction
<1>2. u.pc = "apply" /\ u.body = t.body
  BY DEF Records
<1>4. /\ Len(u.changes) = last + 1 /\ last \in Nat
      /\ DOMAIN u.changes = DOMAIN t.changes \cup {last + 1}
      /\ u.changes[last + 1] = change
  BY DEF Records
<1>5. \A m : /\ Touched(u.changes, m, Len(u.changes)) <=> Touched(t.changes, m, last) \/ m = n
             /\ Found(u, m) = Found(t, m)
             /\ \A k \in Nat : k <= last => (Touched(u.changes, m, k) <=> Touched(t.changes, m, k))
  BY RecordsIs DEF Touch
<1>6. /\ HasError(t.changes) => HasError(u.changes)
      /\ \A i \in DOMAIN t.changes :
              /\ i - 1 \in Nat /\ i - 1 <= last /\ u.changes[i] = t.changes[i]
              /\ IsLast(u, i) => IsLast(t, i) /\ Current(t).name # t.body[i].name
  BY RecordsIs
<1>7. \A m : Found(u, m) = Found(t, m)
  BY <1>5
<1>8. n \in Shown => n \in Wanted(t.body) /\ n \in Name
  BY <1>1, ShownIs DEF Touch
<1>9. Undoable(u, own)
  <2> SUFFICES ASSUME NEW i \in DOMAIN u.changes, Touching(u.changes[i]),
                      u.changes[i].name \in Shown
               PROVE  LET c == u.changes[i] IN
                      /\ c.name \in Wanted(u.body)
                      /\ c.status = "Added" => ~ Touched(u.changes, c.name, i - 1)
                      /\ c.status = "Added" /\ c.name \in own => Found(u, c.name) = Absent
                      /\ c.status = "Modified" /\ c.name \in own
                           /\ ~ Touched(u.changes, c.name, i - 1) =>
                           c.old = Found(u, c.name)
    BY DEF Undoable
  <2>1. CASE i \in DOMAIN t.changes
    <3>1. u.changes[i] = t.changes[i] /\ i - 1 \in Nat /\ i - 1 <= last
      BY <1>6, <2>1
    <3>3. \A m : Touched(u.changes, m, i - 1) <=> Touched(t.changes, m, i - 1)
      BY <1>5, <3>1
    <3> QED  BY <1>2, <1>7, <2>1, <3>1, <3>3 DEF Kept, Undoable
  <2>2. CASE i = last + 1
    <3>1. u.changes[i] = change /\ i - 1 = last /\ n \in Shown /\ n \in Wanted(t.body)
          /\ change.name = n
      BY <1>4, <1>8, <2>2 DEF Touch
    <3>2. Touched(u.changes, n, i - 1) <=> Touched(t.changes, n, last)
      BY <1>4, <1>5, <3>1
    <3>3. /\ change.status = "Added" => ~ Touched(t.changes, n, last)
          /\ change.status = "Added" /\ n \in own => Found(t, n) = Absent
      BY <3>1, AbsentIsAbsent DEF Touch
    <3>4. change.status = "Modified" /\ n \in own /\ ~ Touched(t.changes, n, last) =>
            change.old = Found(t, n)
      <4>1. Holds(t, n, own)
        BY <1>1, <3>1 DEF Kept, LookedUp
      <4> QED  BY <3>1, <4>1 DEF Holds, Touch
    <3> QED  BY <1>2, <1>7, <3>1, <3>2, <3>3, <3>4
  <2> QED  BY <1>4, <2>1, <2>2
<1>10. LookedUp(u, own)
  <2>1. \A m \in Predefined : u.properties[m] # Absent
    <3>1. \A m \in Predefined : m \in Name /\ t.properties[m] # Absent
      BY <1>1 DEF Kept, LookedUp, Name
    <3> QED  BY <3>1 DEF Touch
  <2>2. ASSUME NEW m \in Wanted(t.body)
        PROVE  Holds(u, m, own)
    <3>1. Holds(t, m, own) /\ m \in Name
      BY <1>1, ShownIs DEF Kept, LookedUp, Wanted
    <3>2. CASE m = n
      BY <1>5, <3>1, <3>2 DEF Holds, Touch
    <3>3. CASE m # n
      <4>1. u.properties[m] = t.properties[m]
        BY <3>1, <3>3 DEF Touch
      <4>2. Touched(t.changes, m, last) => t.properties[m] \notin {Absent, Unread}
        BY <3>1 DEF Holds
      <4>3. m \in own /\ ~ Touched(t.changes, m, last) =>
               \/ t.properties[m] = Found(t, m)
               \/ m = "displayname" /\ t.properties[m] = Unread
        BY <3>1 DEF Holds
      <4> QED  BY <1>5, <1>7, <3>3, <4>1, <4>2, <4>3 DEF Holds
    <3> QED  BY <3>2, <3>3
  <2> QED  BY <1>2, <2>1, <2>2 DEF LookedUp
<1>11. Restored(u, z, own)
  <2> SUFFICES ASSUME NEW m \in Wanted(t.body) \cap own, ~ Touched(u.changes, m, Len(u.changes))
               PROVE  Dead(z)[m] = Found(t, m)
    BY <1>2, <1>7 DEF Restored, Standing
  <2>1. m # n /\ m \in Shown /\ ~ Touched(t.changes, m, last)
    BY <1>5 DEF Wanted
  <2>2. Dead(s)[m] = Found(t, m)
    BY <1>1, <2>1 DEF Kept, Restored, Standing
  <2>3. z[m] = s[m]
    BY <2>1 DEF Touch
  <2> QED  BY <2>1, <2>2, <2>3, DeadAgrees
<1>12. Applied(u, z, own)
  <2> SUFFICES ASSUME ~ HasError(u.changes), NEW i \in DOMAIN u.changes,
                      u.body[i].name \in own, IsLast(u, i)
               PROVE  Says(u.body[i], z)
    BY DEF Applied
  <2>a. u.body[last + 1] = Current(t)
    BY DEF Records
  <2>1. CASE i \in DOMAIN t.changes
    <3>1. IsLast(t, i) /\ Current(t).name # t.body[i].name
      BY <1>6, <2>1
    <3>2. Says(t.body[i], s)
      BY <1>1, <1>2, <1>6, <2>1, <3>1 DEF Kept, Applied
    <3>3. t.body[i].name # n /\ t.body[i].name \in Shown
      BY <1>2, <3>1 DEF Touch
    <3>4. z[t.body[i].name] = s[t.body[i].name]
      BY <3>3 DEF Touch
    <3> QED  BY <1>2, <3>2, <3>4 DEF Says
  <2>2. CASE i = last + 1
    BY <2>a, <2>2 DEF Touch
  <2> QED  BY <1>4, <2>1, <2>2
<1> QED  BY <1>9, <1>10, <1>11, <1>12 DEF Kept

\* What a failure may leave in the property objects.
Harmless(t, properties) ==
  \A n \in Name :
    /\ t.properties[n] # Absent => properties[n] # Absent
    /\ t.properties[n] \notin {Absent, Unread} => properties[n] \notin {Absent, Unread}

LEMMA RefusalKept ==
  ASSUME NEW own \in SUBSET Shown,
         Inv, NEW r \in Request, Applying(task[r]), Kept(task[r], store, own), UNCHANGED store,
         NEW status \in {"Failed", "FailedDependency", "ReadOnlyProperty"}, NEW name \in Key,
         NEW property \in BOOLEAN, NEW failed \in BOOLEAN, NEW properties \in Properties,
         Harmless(task[r], properties),
         failed \/ (~ task[r].failed /\ properties = task[r].properties),
         Step(r, Advance(task[r], Change(status, name, Absent, property), failed, properties))
  PROVE  Kept(task'[r], store', own)
<1> DEFINE t == task[r]
           change == Change(status, name, Absent, property)
<1>1. GoodTask(t) /\ task'[r] = Advance(t, change, failed, properties)
  BY DEF Inv, GoodTask, Step
<1>2. change \in ChangeItem
  BY ChangeIsItem DEF Status
<1>3. ~ Touching(change) /\ ~ IsSuccess(change)
  BY DEF Change, Touching, IsSuccess, Success
<1> HIDE DEF change
<1> SUFFICES ASSUME NEW u, u = Advance(t, change, failed, properties)
             PROVE  Kept(u, store, own)
  BY <1>1
<1>4. \A n \in Name :
        /\ t.properties[n] # Absent => properties[n] # Absent
        /\ t.properties[n] \notin {Absent, Unread} => properties[n] \notin {Absent, Unread}
  BY DEF Harmless
<1> QED  BY <1>1, <1>2, <1>3, <1>4, UntouchedKept

LEMMA RefusalsKept ==
  ASSUME NEW own \in SUBSET Shown,
         Inv, NEW r \in Request, Kept(task[r], store, own),
         \/ SkipDependent(r) \/ RefuseProtected(r) \/ SetExistingThrows(r)
         \/ RemoveThrows(r) \/ RemoveLive(r) \/ RemoveUnknown(r)
  PROVE  Kept(task'[r], store', own)
<1> DEFINE t == task[r]
<1>1. GoodTask(t) /\ store \in [Stored -> Value \cup {Absent}]
  BY DEF Inv, GoodTask, Resource
<1>2. UNCHANGED store
  BY DEF SkipDependent, RefuseProtected, SetExistingThrows, RemoveThrows, RemoveLive,
         RemoveUnknown
<1>3. Applying(t)
  BY DEF SkipDependent, RefuseProtected, SetExistingThrows, RemoveThrows, RemoveLive,
         RemoveUnknown, Touches
<1>4. /\ Current(t).name \in Key /\ Current(t).value \in Value
      /\ t.properties \in Properties
  BY <1>1, <1>3, CurrentIsInstruction
<1>5. {"getetag", "getlastmodified"} \subseteq Key
  BY DEF Key, Name, Predefined
<1>6. ASSUME Touches(t, "set") \/ Touches(t, "remove")
      PROVE  Target(t) \in Key /\ Target(t) \in Name /\ ~ t.failed
  BY <1>1, <1>3, <1>6, TargetIsName DEF Touches
<1>7. Harmless(t, t.properties)
  BY DEF Harmless
<1>8. CASE SkipDependent(r)
  BY <1>2, <1>3, <1>4, <1>7, <1>8, RefusalKept DEF SkipDependent
<1>9. CASE RefuseProtected(r)
  <2>1. (Current(t).op = "set") \in BOOLEAN
    OBVIOUS
  <2> QED  BY <1>2, <1>3, <1>4, <1>5, <1>7, <1>9, <2>1, RefusalKept DEF RefuseProtected
<1>10. CASE SetExistingThrows(r)
  <2> DEFINE properties == IF Target(t) = "getlastmodified" THEN t.properties
                           ELSE [t.properties EXCEPT ![Target(t)] = Current(t).value]
  <2>1. properties \in Properties
    BY <1>4 DEF Properties
  <2>2. Harmless(t, properties)
    BY <1>4, ConstantsAssumption DEF Harmless, Properties
  <2>3. Step(r, Advance(t, Change("Failed", Target(t), Absent, TRUE), TRUE, properties))
    BY <1>10 DEF SetExistingThrows
  <2>4. Target(t) \in Key
    BY <1>6, <1>10 DEF SetExistingThrows
  <2> HIDE DEF properties
  <2> QED  BY <1>2, <1>3, <2>1, <2>2, <2>3, <2>4, RefusalKept
<1>11. CASE RemoveThrows(r)
  BY <1>2, <1>3, <1>4, <1>6, <1>7, <1>11, RefusalKept DEF RemoveThrows
<1>12. CASE RemoveLive(r)
  <2>1. ~ t.failed
    BY <1>6, <1>12 DEF RemoveLive
  <2> QED  BY <1>2, <1>3, <1>4, <1>5, <1>7, <1>12, <2>1, RefusalKept DEF RemoveLive
<1>13. CASE RemoveUnknown(r)
  <2> DEFINE change == Change("Removed", Current(t).name, Absent, FALSE)
             no     == FALSE
  <2>1. change \in ChangeItem
    BY <1>4, ChangeIsItem DEF Status
  <2>2. ~ Touching(change)
    BY DEF Change, Touching
  <2>3. ~ t.failed /\ task'[r] = Advance(t, change, no, t.properties)
    BY <1>13 DEF RemoveUnknown, Step, Inv
  <2>4. Current(t).name \in own => Says(Current(t), store)
    <3> SUFFICES ASSUME Current(t).name \in own  PROVE  store[Current(t).name] = Absent
      BY <1>13 DEF RemoveUnknown, Says
    <3>1. t.properties[Current(t).name] = Absent
      BY <1>1, <1>3, <1>13, TargetIsCurrent DEF RemoveUnknown
    <3>2. Current(t).name \in Wanted(t.body)
      BY <1>1, <1>3, AtInstruction
    <3> QED  BY <1>1, <1>3, <2>3, <3>1, <3>2, AbsentIsAbsent
  <2>5. no \in BOOLEAN
    OBVIOUS
  <2> HIDE DEF change, no
  <2> SUFFICES ASSUME NEW u, u = Advance(t, change, no, t.properties)
               PROVE  Kept(u, store, own)
    BY <1>2, <2>3
  <2> QED  BY <1>1, <1>3, <1>4, <2>1, <2>2, <2>3, <2>4, <2>5, UntouchedKept
<1> QED  BY <1>8, <1>9, <1>10, <1>11, <1>12, <1>13

\* An instruction that touched n, as a step of the handler.
LEMMA TouchIsKept ==
  ASSUME NEW own \in SUBSET Shown,
         Inv, Inv', NEW r \in Request, Applying(task[r]), ~ task[r].failed,
         Kept(task[r], store, own), NEW change \in ChangeItem, NEW properties \in Properties, NEW n,
         Touch(task[r], store, store', n, change, properties),
         Step(r, Advance(task[r], change, FALSE, properties))
  PROVE  Kept(task'[r], store', own)
<1> DEFINE no == FALSE
<1>1. /\ GoodTask(task[r])
      /\ store \in [Stored -> Value \cup {Absent}] /\ store' \in [Stored -> Value \cup {Absent}]
  BY DEF Inv, GoodTask, Resource
<1>2. no \in BOOLEAN /\ task'[r] = Advance(task[r], change, no, properties)
  BY DEF Step, Inv
<1> HIDE DEF no
<1> SUFFICES ASSUME NEW u, u = Advance(task[r], change, no, properties)
             PROVE  Kept(u, store', own)
  BY <1>2
<1>3. Records(task[r], u, change)
  BY <1>1, <1>2, AdvanceRecords
<1>4. u.properties = properties
  BY <1>1, <1>2, AdvanceIs
<1> QED  BY <1>1, <1>3, <1>4, TouchKept

LEMMA SetExistingKept ==
  ASSUME NEW own \in SUBSET Shown,
         Inv, Inv', NEW r \in Request, Kept(task[r], store, own), SetExisting(r)
  PROVE  Kept(task'[r], store', own)
<1> DEFINE t == task[r]
           n == Target(t)
           v == Current(t).value
           change == Change("Modified", n, t.properties[n], TRUE)
           properties == IF n = "getlastmodified" THEN t.properties
                         ELSE [t.properties EXCEPT ![n] = v]
<1>1. /\ GoodTask(t) /\ Applying(t) /\ n # Absent /\ ~ t.failed /\ Current(t).op = "set"
      /\ t.properties[n] # Unread
      /\ store \in [Stored -> Value \cup {Absent}]
  BY DEF Inv, GoodTask, Resource, SetExisting, Touches
<1>2. v \in Value /\ t.properties \in Properties
  BY <1>1, CurrentIsInstruction
<1>3. n \in Key /\ n \in Name /\ t.properties[n] \in Value \cup {Absent}
  BY <1>1, TargetIsName
<1>4. change \in ChangeItem
  BY <1>3, ChangeIsItem DEF Status
<1>5. properties \in Properties
  BY <1>2 DEF Properties
<1>6. Step(r, Advance(t, change, FALSE, properties))
  BY DEF SetExisting
<1>7. t.properties[n] # Absent
  BY <1>1, TargetIsCurrent
<1>8. (Current(t).name \in Shown \/ n \in Shown) => n = Current(t).name
  BY <1>1, TargetIsCurrent
<1>9. store' = IF n = "getlastmodified" THEN store ELSE [store EXCEPT ![n] = v]
  BY DEF SetExisting
<1>10. /\ \A m \in Name : m # n => properties[m] = t.properties[m]
       /\ properties[n] \notin {Absent, Unread}
  BY <1>1, <1>2, <1>3, <1>7, ConstantsAssumption DEF Properties
<1>11. /\ \A m \in Shown : m # n => store'[m] = store[m]
       /\ n \in Shown => store'[n] = v
  BY <1>1, <1>9, ShownIs
<1>12. n \in Shown => Says(Current(t), store')
  BY <1>1, <1>8, <1>11 DEF Says
<1>13. /\ change.status = "Modified" /\ change.name = n /\ change.old = t.properties[n]
       /\ Touching(change)
  BY DEF Change, Touching
<1> HIDE DEF change, properties
<1>14. Touch(t, store, store', n, change, properties)
  BY <1>1, <1>8, <1>10, <1>11, <1>12, <1>13 DEF Touch
<1> QED  BY <1>1, <1>4, <1>5, <1>6, <1>14, TouchIsKept

LEMMA SetNewKept ==
  ASSUME NEW own \in SUBSET Shown,
         Inv, Inv', NEW r \in Request, Kept(task[r], store, own), SetNew(r)
  PROVE  Kept(task'[r], store', own)
<1> DEFINE t == task[r]
           n == Current(t).name
           v == Current(t).value
           change == Change("Added", n, Absent, TRUE)
           properties == [t.properties EXCEPT ![n] = v]
<1>1. /\ GoodTask(t) /\ Applying(t) /\ Target(t) = Absent /\ ~ t.failed /\ Current(t).op = "set"
      /\ store \in [Stored -> Value \cup {Absent}]
  BY DEF Inv, GoodTask, Resource, SetNew
<1>2. n \in Key /\ v \in Value /\ t.properties \in Properties
  BY <1>1, CurrentIsInstruction
<1>3. change \in ChangeItem
  BY <1>2, ChangeIsItem DEF Status
<1>4. properties \in Properties
  BY <1>2 DEF Properties
<1>5. Step(r, Advance(t, change, FALSE, properties)) /\ store' = [store EXCEPT ![n] = v]
  BY DEF SetNew
<1>6. n \in Shown => t.properties[n] = Absent
  BY <1>1, TargetIsCurrent
<1>7. /\ \A m \in Name : m # n => properties[m] = t.properties[m]
      /\ n \in Name => properties[n] \notin {Absent, Unread}
  BY <1>2, ConstantsAssumption DEF Properties
<1>8. /\ \A m \in Shown : m # n => store'[m] = store[m]
      /\ n \in Shown => store'[n] = v
  BY <1>1, <1>5, ShownIs
<1>9. n \in Shown => Says(Current(t), store')
  BY <1>1, <1>8 DEF Says
<1>10. /\ change.status = "Added" /\ change.name = n /\ Touching(change)
  BY DEF Change, Touching
<1> HIDE DEF change, properties
<1>11. Touch(t, store, store', n, change, properties)
  BY <1>6, <1>7, <1>8, <1>9, <1>10 DEF Touch
<1> QED  BY <1>1, <1>3, <1>4, <1>5, <1>11, TouchIsKept

LEMMA RemoveExistingKept ==
  ASSUME NEW own \in SUBSET Shown,
         Inv, Inv', NEW r \in Request, Kept(task[r], store, own), RemoveExisting(r)
  PROVE  Kept(task'[r], store', own)
<1> DEFINE t       == task[r]
           n       == Target(t)
           key     == Current(t).name
           removed == key \in Stored /\ store[key] # Absent
<1>1. /\ GoodTask(t) /\ Applying(t) /\ n # Absent /\ ~ t.failed /\ Current(t).op = "remove"
      /\ t.properties[n] # Unread
      /\ store \in [Stored -> Value \cup {Absent}]
  BY DEF Inv, GoodTask, Resource, RemoveExisting, Touches
<1>2. t.properties \in Properties /\ key \in Key
  BY <1>1, CurrentIsInstruction
<1>3. n \in Key /\ n \in Name /\ t.properties[n] \in Value \cup {Absent}
  BY <1>1, TargetIsName
<1>4. t.properties[n] # Absent
  BY <1>1, TargetIsCurrent
<1>5. CASE ~ removed
  <2>1. Step(r, Advance(t, Change("Failed", n, Absent, TRUE), FALSE, t.properties))
        /\ UNCHANGED store
    BY <1>5 DEF RemoveExisting
  <2>2. Harmless(t, t.properties)
    BY DEF Harmless
  <2> QED  BY <1>1, <1>2, <1>3, <2>1, <2>2, RefusalKept
<1>6. CASE removed
  <2> DEFINE change == Change("Removed", n, t.properties[n], TRUE)
  <2>1. change \in ChangeItem
    BY <1>3, ChangeIsItem DEF Status
  <2>2. Step(r, Advance(t, change, FALSE, t.properties)) /\ store' = [store EXCEPT ![key] = Absent]
    BY <1>6 DEF RemoveExisting
  <2>3. (key \in Shown \/ n \in Shown) => n = key
    BY <1>1, TargetIsCurrent
  <2>4. \A m \in Shown : m # n => store'[m] = store[m]
    BY <1>1, <2>2, <2>3, ShownIs
  <2>5. n \in Shown => Says(Current(t), store')
    BY <1>1, <2>2, <2>3, ShownIs DEF Says
  <2>6. /\ change.status = "Removed" /\ change.name = n /\ Touching(change)
    BY DEF Change, Touching
  <2> HIDE DEF change
  <2>7. Touch(t, store, store', n, change, t.properties)
    BY <1>1, <1>4, <2>3, <2>4, <2>5, <2>6 DEF Touch
  <2> QED  BY <1>1, <1>2, <2>1, <2>2, <2>7, TouchIsKept
<1> QED  BY <1>5, <1>6

\* The display name is looked up: it is what the request found, as long as the
\* request did not write it.
LEMMA ReadDisplayNameKept ==
  ASSUME NEW own \in SUBSET Shown,
         Inv, NEW r \in Request, Kept(task[r], store, own), ReadDisplayName(r)
  PROVE  Kept(task'[r], store', own)
<1> DEFINE t == task[r]
           name == DisplayName(store)
           properties == [t.properties EXCEPT !["displayname"] = name]
<1>1. /\ GoodTask(t) /\ Applying(t) /\ t.properties["displayname"] = Unread
      /\ Target(t) = "displayname" /\ ~ t.failed /\ UNCHANGED store
      /\ store \in [Stored -> Value \cup {Absent}]
  BY DEF Inv, GoodTask, Resource, ReadDisplayName
<1>2. t.properties \in Properties /\ t \in Task /\ t.pc = "apply"
  BY <1>1 DEF GoodTask, Task, Applying
<1>3. name = Dead(store)["displayname"] /\ name \in Value
  BY <1>1, ShownIs, DeadIs DEF Dead
<1>4. properties \in Properties
  BY <1>2, <1>3 DEF Properties
<1>5. task'[r] = [t EXCEPT !.properties = properties]
  BY DEF ReadDisplayName, Step, Inv
<1>6. /\ \A n \in Name : n # "displayname" => properties[n] = t.properties[n]
      /\ properties["displayname"] = name
  BY <1>2, ShownIs DEF Properties
<1> HIDE DEF name, properties
<1> SUFFICES ASSUME NEW u, u = [t EXCEPT !.properties = properties]
             PROVE  Kept(u, store, own)
  BY <1>1, <1>5
<1>7. /\ u.pc = "apply" /\ u.body = t.body /\ u.changes = t.changes /\ u.properties = properties
      /\ u.failed = t.failed /\ u.before = t.before
  BY <1>2, <1>4, TaskWith
<1>8. \A n : Found(u, n) = Found(t, n)
  BY <1>7 DEF Found
<1>9. Undoable(u, own)
  BY <1>7, <1>8 DEF Kept, Undoable
<1>10. Restored(u, store, own)
  BY <1>2, <1>7, <1>8 DEF Kept, Restored, Standing
<1>11. Applied(u, store, own)
  BY <1>2, <1>7 DEF Kept, Applied, IsLast
<1>12. ASSUME NEW n \in Wanted(t.body)
       PROVE  Holds(u, n, own)
  <2>1. Holds(t, n, own) /\ n \in Name
    BY <1>2, ShownIs DEF Kept, LookedUp, Wanted
  <2>2. CASE n # "displayname"
    BY <1>6, <1>7, <1>8, <2>1, <2>2 DEF Holds
  <2>3. CASE n = "displayname"
    <3>1. ~ Touched(t.changes, n, Len(t.changes))
      BY <1>1, <2>1, <2>3 DEF Holds
    <3>2. n \in own => Found(t, n) = name
      BY <1>2, <1>3, <2>3, <3>1 DEF Kept, Restored, Standing
    <3> QED  BY <1>6, <1>7, <1>8, <2>3, <3>1, <3>2 DEF Holds
  <2> QED  BY <2>2, <2>3
<1>13. \A n \in Predefined : u.properties[n] # Absent
  <2>1. \A n \in Predefined : n \in Name /\ t.properties[n] # Absent
    BY <1>2 DEF Kept, LookedUp, Name
  <2> QED  BY <1>3, <1>6, <1>7, <2>1, ConstantsAssumption
<1>14. LookedUp(u, own)
  BY <1>7, <1>12, <1>13 DEF LookedUp
<1> QED  BY <1>9, <1>10, <1>11, <1>14 DEF Kept

-----------------------------------------------------------------------------
(* What undoing does to the values. *)

\* What the last change that stands touched is put back, if nothing before it
\* touched the same property.
Undo(t, s, z, properties, own) ==
  LET n == LastChange(t).name  earlier == t.at - 1 IN
  /\ Touching(LastChange(t)) /\ n \in own /\ ~ Touched(t.changes, n, earlier) =>
       Dead(z)[n] = Found(t, n)
  /\ \A m \in Shown : ~ Touching(LastChange(t)) \/ m # n => z[m] = s[m]
  /\ \A m \in Shown : Touched(t.changes, m, earlier) => properties[m] = t.properties[m]

LEMMA AtChange ==
  ASSUME NEW t, GoodTask(t), Reverting(t)
  PROVE  /\ t.pc = "revert" /\ t.at \in DOMAIN t.changes /\ t.at - 1 \in Nat
         /\ t.changes \in Seq(ChangeItem) /\ DOMAIN t.changes = 1..Len(t.changes)
         /\ LastChange(t) \in ChangeItem /\ t.properties \in Properties /\ t.before \in Before
         /\ NoSuccessAfter(t, t.at)
         /\ \A n : Touched(t.changes, n, t.at) <=>
                     \/ Touched(t.changes, n, t.at - 1)
                     \/ Touching(LastChange(t)) /\ LastChange(t).name = n
<1>1. /\ t.pc = "revert" /\ t.at \in 1..Len(t.changes) /\ t.changes \in Seq(ChangeItem)
      /\ t.properties \in Properties /\ t.before \in Before /\ NoSuccessAfter(t, t.at)
  BY DEF GoodTask, Recorded, Reverting, Task
<1>2. DOMAIN t.changes = 1..Len(t.changes) /\ t.at - 1 \in Nat
  BY <1>1
<1>3. LastChange(t) \in ChangeItem
  BY <1>1 DEF LastChange
<1>4. ASSUME NEW n
      PROVE  Touched(t.changes, n, t.at) <=>
               \/ Touched(t.changes, n, t.at - 1)
               \/ Touching(LastChange(t)) /\ LastChange(t).name = n
  <2>1. \A i \in DOMAIN t.changes : i <= t.at <=> i <= t.at - 1 \/ i = t.at
    BY <1>1, <1>2
  <2> QED  BY <1>1, <1>2, <2>1 DEF Touched, LastChange
<1> QED  BY <1>1, <1>2, <1>3, <1>4

LEMMA UndoneKept ==
  ASSUME NEW own \in SUBSET Shown,
         NEW t, GoodTask(t), Reverting(t),
         NEW s \in [Stored -> Value \cup {Absent}], Kept(t, s, own),
         NEW z \in [Stored -> Value \cup {Absent}], NEW properties \in Properties,
         Undo(t, s, z, properties, own),
         NEW u, u = Undone(t, properties)
  PROVE  Kept(u, z, own)
<1>1. /\ t.pc = "revert" /\ t.at \in DOMAIN t.changes /\ DOMAIN t.changes = 1..Len(t.changes)
      /\ t.at - 1 \in Nat /\ Len(t.changes) \in Nat
      /\ NoSuccessAfter(t, t.at)
      /\ \A n : Touched(t.changes, n, t.at) <=>
                  \/ Touched(t.changes, n, t.at - 1)
                  \/ Touching(LastChange(t)) /\ LastChange(t).name = n
  BY AtChange
<1>2. /\ u.pc = "revert" /\ u.at = t.at - 1 /\ u.body = t.body
      /\ u.properties = properties /\ u.before = t.before
      /\ FailureAt(t.at, t.changes, u.changes)
  BY UndoneIs
<1>3. /\ DOMAIN u.changes = DOMAIN t.changes
      /\ ~ IsSuccess(u.changes[t.at])
      /\ \A i \in DOMAIN t.changes : i # t.at => u.changes[i] = t.changes[i]
  BY <1>2 DEF FailureAt
<1>4. \A c : Touching(c) => IsSuccess(c)
  BY DEF Touching, IsSuccess, Success
<1>5. \A n : Found(u, n) = Found(t, n)
  BY <1>2 DEF Found
<1>6. \A n, m : m \in Nat /\ m <= t.at - 1 => (Touched(u.changes, n, m) <=> Touched(t.changes, n, m))
  <2> SUFFICES ASSUME NEW n, NEW m \in Nat, m <= t.at - 1
               PROVE  Touched(u.changes, n, m) <=> Touched(t.changes, n, m)
    OBVIOUS
  <2>1. \A i \in DOMAIN t.changes : i <= m => u.changes[i] = t.changes[i]
    BY <1>1, <1>3
  <2> QED  BY <1>3, <2>1 DEF Touched
<1>7. Undoable(u, own)
  <2> SUFFICES ASSUME NEW i \in DOMAIN t.changes, Touching(u.changes[i]),
                      u.changes[i].name \in Shown
               PROVE  LET c == u.changes[i] IN
                      /\ c.name \in Wanted(u.body)
                      /\ c.status = "Added" => ~ Touched(u.changes, c.name, i - 1)
                      /\ c.status = "Added" /\ c.name \in own => Found(u, c.name) = Absent
                      /\ c.status = "Modified" /\ c.name \in own
                           /\ ~ Touched(u.changes, c.name, i - 1) =>
                           c.old = Found(u, c.name)
    BY <1>3 DEF Undoable
  <2>1. i # t.at /\ u.changes[i] = t.changes[i] /\ IsSuccess(t.changes[i])
    BY <1>3, <1>4
  <2>2. ~ i > t.at
    BY <2>1, <1>1 DEF NoSuccessAfter
  <2>3. i - 1 \in Nat /\ i - 1 <= t.at - 1
    BY <1>1, <2>1, <2>2
  <2>4. \A n : Touched(u.changes, n, i - 1) <=> Touched(t.changes, n, i - 1)
    BY <1>6, <2>3
  <2> QED  BY <1>2, <1>5, <2>1, <2>4 DEF Kept, Undoable
<1>8. LookedUp(u, own)
  <2> SUFFICES ASSUME NEW n \in Wanted(t.body), Touched(u.changes, n, u.at)
               PROVE  u.properties[n] # Absent
    BY <1>2 DEF LookedUp
  <2>1. Touched(t.changes, n, t.at - 1) /\ n \in Shown
    BY <1>1, <1>2, <1>6 DEF Wanted
  <2>2. t.properties[n] # Absent
    BY <1>1, <2>1 DEF Kept, LookedUp
  <2> QED  BY <1>2, <2>1, <2>2 DEF Undo
<1>9. Restored(u, z, own)
  <2> SUFFICES ASSUME NEW n \in Wanted(t.body) \cap own, ~ Touched(u.changes, n, u.at)
               PROVE  Dead(z)[n] = Found(t, n)
    BY <1>2, <1>5 DEF Restored, Standing
  <2>1. ~ Touched(t.changes, n, t.at - 1) /\ n \in Shown
    BY <1>1, <1>2, <1>6 DEF Wanted
  <2>2. CASE Touching(LastChange(t)) /\ LastChange(t).name = n
    BY <2>1, <2>2 DEF Undo
  <2>3. CASE ~ (Touching(LastChange(t)) /\ LastChange(t).name = n)
    <3>1. ~ Touched(t.changes, n, t.at)
      BY <1>1, <2>1, <2>3
    <3>2. Dead(s)[n] = Found(t, n)
      BY <1>1, <3>1 DEF Kept, Restored, Standing
    <3>3. z[n] = s[n]
      BY <2>1, <2>3 DEF Undo
    <3> QED  BY <2>1, <3>2, <3>3, DeadAgrees
  <2> QED  BY <2>2, <2>3
<1>10. Applied(u, z, own)
  BY <1>2 DEF Applied
<1> QED  BY <1>7, <1>8, <1>9, <1>10 DEF Kept

\* Nothing but the state of a request that breaks down changes.
LEMMA CrashKept ==
  ASSUME NEW own \in SUBSET Shown,
         Inv, NEW r \in Request, Kept(task[r], store, own), Crash(r), UNCHANGED store
  PROVE  Kept(task'[r], store', own)
<1>1. task[r] \in Task /\ task'[r] = [task[r] EXCEPT !.pc = "crashed"]
  BY DEF Inv, Crash, Step
<1> SUFFICES ASSUME NEW u, u = [task[r] EXCEPT !.pc = "crashed"]
             PROVE  Kept(u, store, own)
  BY <1>1
<1>2. /\ u.pc = "crashed" /\ u.body = task[r].body /\ u.changes = task[r].changes
      /\ u.before = task[r].before
  BY <1>1, TaskWithState
<1>3. \A n : Found(u, n) = Found(task[r], n)
  BY <1>2 DEF Found
<1>4. Undoable(u, own)
  BY <1>2, <1>3 DEF Kept, Undoable
<1> QED  BY <1>2, <1>4 DEF Kept, LookedUp, Restored, Applied

LEMMA UndoIsKept ==
  ASSUME NEW own \in SUBSET Shown,
         Inv, Inv', NEW r \in Request, Reverting(task[r]), Kept(task[r], store, own),
         NEW properties \in Properties, Undo(task[r], store, store', properties, own),
         Step(r, Undone(task[r], properties))
  PROVE  Kept(task'[r], store', own)
<1>1. /\ GoodTask(task[r]) /\ task'[r] = Undone(task[r], properties)
      /\ store \in [Stored -> Value \cup {Absent}] /\ store' \in [Stored -> Value \cup {Absent}]
  BY DEF Inv, GoodTask, Resource, Step
<1> SUFFICES ASSUME NEW u, u = Undone(task[r], properties)
             PROVE  Kept(u, store', own)
  BY <1>1
<1> QED  BY <1>1, UndoneKept

LEMMA RevertKept ==
  ASSUME NEW own \in SUBSET Shown,
         Inv, Inv', NEW r \in Request, Kept(task[r], store, own),
         RevertAdded(r) \/ RevertModified(r) \/ RevertRemoved(r) \/ RevertThrows(r)
  PROVE  Kept(task'[r], store', own)
<1> DEFINE t == task[r]
           c == LastChange(t)
           n == LastChange(t).name
<1>1. /\ GoodTask(t) /\ Reverting(t)
      /\ store \in [Stored -> Value \cup {Absent}] /\ store' \in [Stored -> Value \cup {Absent}]
  BY DEF Inv, GoodTask, Resource, RevertAdded, RevertModified, RevertRemoved, RevertThrows
<1>2. /\ t.pc = "revert" /\ t.at \in DOMAIN t.changes /\ t.properties \in Properties
      /\ c \in ChangeItem /\ t.before.store \in [Stored -> Value \cup {Absent}]
      /\ \A m : Touched(t.changes, m, t.at) <=>
                  \/ Touched(t.changes, m, t.at - 1)
                  \/ Touching(c) /\ c.name = m
  BY <1>1, AtChange DEF Before
<1>3. c.old \in Value \cup {Absent}
  BY <1>2 DEF ChangeItem
<1>4. Touching(c) /\ n \in Shown =>
        /\ n \in Wanted(t.body)
        /\ c.status = "Added" => ~ Touched(t.changes, n, t.at - 1)
        /\ c.status = "Added" /\ n \in own => Found(t, n) = Absent
        /\ c.status = "Modified" /\ n \in own /\ ~ Touched(t.changes, n, t.at - 1) =>
             c.old = Found(t, n)
  BY <1>2 DEF Kept, Undoable, LastChange
<1>5. CASE RevertAdded(r)
  <2> DEFINE properties == [t.properties EXCEPT ![n] = Absent]
  <2>1. /\ Step(r, Undone(t, properties)) /\ store' = [store EXCEPT ![n] = Absent]
        /\ c.status = "Added" /\ Touching(c)
    BY <1>5 DEF RevertAdded, Touching
  <2>2. properties \in Properties
    BY <1>2 DEF Properties
  <2>3. \A m \in Shown : m # n => store'[m] = store[m]
    BY <1>1, <2>1, ShownIs
  <2>4. n \in own => Dead(store')[n] = Found(t, n)
    <3> SUFFICES ASSUME n \in own  PROVE  Dead(store')[n] = Found(t, n)
      OBVIOUS
    <3>1. Found(t, n) = Absent /\ n # "displayname"
      <4>1. Found(t, n) = Absent
        BY <1>4, <2>1
      <4>2. n = "displayname" => Found(t, n) \in Value
        BY <1>2, DeadIs DEF Found
      <4> QED  BY <4>1, <4>2, ConstantsAssumption
    <3>2. store'[n] = Absent
      BY <1>1, <2>1, ShownIs
    <3> QED  BY <1>1, <3>1, <3>2, DeadIs
  <2>5. \A m \in Shown : Touched(t.changes, m, t.at - 1) => properties[m] = t.properties[m]
    <3> SUFFICES ASSUME NEW m \in Shown, Touched(t.changes, m, t.at - 1)
                 PROVE  properties[m] = t.properties[m]
      OBVIOUS
    <3>1. m # n /\ m \in Name
      BY <1>4, <2>1, ShownIs
    <3> QED  BY <1>2, <3>1 DEF Properties
  <2> HIDE DEF properties
  <2>6. Undo(t, store, store', properties, own)
    BY <2>1, <2>3, <2>4, <2>5 DEF Undo
  <2> QED  BY <1>1, <2>1, <2>2, <2>6, UndoIsKept
<1>6. CASE RevertModified(r)
  <2>1. /\ Step(r, Undone(t, t.properties)) /\ store' = [store EXCEPT ![n] = c.old]
        /\ c.status = "Modified" /\ Touching(c)
    BY <1>6 DEF RevertModified, Touching
  <2>2. \A m \in Shown : m # n => store'[m] = store[m]
    BY <1>1, <2>1, ShownIs
  <2>3. n \in own /\ ~ Touched(t.changes, n, t.at - 1) => Dead(store')[n] = Found(t, n)
    <3> SUFFICES ASSUME n \in own, ~ Touched(t.changes, n, t.at - 1)
                 PROVE  Dead(store')[n] = Found(t, n)
      OBVIOUS
    <3>1. store'[n] = Found(t, n)
      <4>1. c.old = Found(t, n)
        BY <1>4, <2>1
      <4>2. store'[n] = c.old
        BY <1>1, <2>1, ShownIs
      <4> QED  BY <4>1, <4>2
    <3>2. n = "displayname" => Found(t, n) \in Value
      BY <1>2, DeadIs DEF Found
    <3> QED  BY <1>1, <3>1, <3>2, DeadIs, ConstantsAssumption
  <2>4. Undo(t, store, store', t.properties, own)
    BY <2>1, <2>2, <2>3 DEF Undo
  <2> QED  BY <1>1, <1>2, <2>1, <2>4, UndoIsKept
<1>7. CASE RevertRemoved(r)
  <2>a. c.status = "Removed"
    BY <1>7 DEF RevertRemoved
  <2>1. CASE ~ c.property
    <3>1. Step(r, Undone(t, t.properties)) /\ UNCHANGED store /\ ~ Touching(c)
      BY <1>7, <2>a, <2>1 DEF RevertRemoved, Touching
    <3>2. Undo(t, store, store', t.properties, own)
      BY <3>1 DEF Undo
    <3> QED  BY <1>1, <1>2, <3>1, <3>2, UndoIsKept
  <2>2. CASE c.property /\ t.properties[n] # Absent
    BY <1>7, <2>2, CrashKept DEF RevertRemoved
  <2>3. CASE c.property /\ t.properties[n] = Absent
    <3> DEFINE properties == [t.properties EXCEPT ![n] = c.old]
    <3>1. /\ Step(r, Undone(t, properties)) /\ store' = [store EXCEPT ![n] = c.old]
      BY <1>7, <2>3 DEF RevertRemoved
    <3>2. n \notin Shown
      <4>1. Touching(c)
        BY <2>a, <2>3 DEF Touching
      <4>2. n \in Shown => n \in Wanted(t.body) /\ Touched(t.changes, n, t.at)
        BY <1>2, <1>4, <4>1
      <4> QED  BY <1>2, <2>3, <4>2 DEF Kept, LookedUp
    <3>3. properties \in Properties
      BY <1>2, <1>3 DEF Properties
    <3>4. \A m \in Shown : store'[m] = store[m] /\ properties[m] = t.properties[m]
      BY <1>1, <1>2, <3>1, <3>2, ShownIs DEF Properties
    <3> HIDE DEF properties
    <3>5. Undo(t, store, store', properties, own)
      BY <3>2, <3>4 DEF Undo
    <3> QED  BY <1>1, <3>1, <3>3, <3>5, UndoIsKept
  <2> QED  BY <2>1, <2>2, <2>3
<1>8. CASE RevertThrows(r)
  BY <1>8, CrashKept DEF RevertThrows
<1> QED  BY <1>5, <1>6, <1>7, <1>8

\* A request goes on without a word about its values.
LEMMA MovedKept ==
  ASSUME NEW own \in SUBSET Shown,
         NEW t \in Task, NEW s, Kept(t, s, own),
         NEW pc \in {"apply", "revert", "etag", "answered", "crashed"}, NEW at \in Nat,
         NEW u, u = [t EXCEPT !.pc = pc, !.at = at],
         pc \notin {"apply"},
         pc = "revert" => \A n \in Wanted(t.body) :
            /\ Touched(t.changes, n, at) => t.properties[n] # Absent
            /\ n \in own /\ ~ Touched(t.changes, n, at) => Dead(s)[n] = Found(t, n),
         pc = "answered" /\ HasError(t.changes) => t.pc = "revert" /\ t.at = 0,
         pc \in {"etag", "answered"} /\ ~ HasError(t.changes) => t.pc \in {"apply", "etag"}
  PROVE  Kept(u, s, own)
<1> DEFINE d == [t EXCEPT !.pc = pc]
           e == [d EXCEPT !.at = at]
<1>0. u = e
  OBVIOUS
<1>1. /\ d \in Task /\ d.pc = pc /\ d.body = t.body /\ d.changes = t.changes
      /\ d.before = t.before /\ d.properties = t.properties
  BY TaskWithState
<1> HIDE DEF d
<1>2. /\ e.pc = pc /\ e.body = t.body /\ e.changes = t.changes
      /\ e.before = t.before /\ e.properties = t.properties /\ e.at = at
  BY <1>1, TaskWith
<1> HIDE DEF e
<1>3. \A n : Found(e, n) = Found(t, n)
  BY <1>2 DEF Found
<1>4. Undoable(e, own)
  BY <1>2, <1>3 DEF Kept, Undoable
<1>5. LookedUp(e, own)
  BY <1>2 DEF LookedUp
<1>6. Restored(e, s, own)
  <2>1. CASE pc = "revert"
    BY <1>2, <1>3, <2>1 DEF Restored, Standing
  <2>2. CASE pc = "answered" /\ HasError(t.changes)
    <3>1. t.pc = "revert" /\ t.at = 0
      BY <2>2
    <3>2. \A n : Touched(t.changes, n, Standing(e)) <=> Touched(t.changes, n, t.at)
      BY <1>2, <2>2, <3>1 DEF Standing
    <3> QED  BY <1>2, <1>3, <3>1, <3>2 DEF Kept, Restored, Standing
  <2> QED  BY <1>2, <2>1, <2>2 DEF Restored
<1>7. Applied(e, s, own)
  BY <1>2 DEF Kept, Applied, IsLast
<1> QED  BY <1>0, <1>4, <1>5, <1>6, <1>7 DEF Kept

LEMMA RestKept ==
  ASSUME NEW own \in SUBSET Shown,
         Inv, NEW r \in Request, Kept(task[r], store, own),
         EndApply(r) \/ KeepFailure(r) \/ UpdateETag(r) \/ Answer(r)
  PROVE  Kept(task'[r], store', own)
<1> DEFINE t == task[r]
<1>1. /\ GoodTask(t) /\ t \in Task /\ t.at \in Nat /\ t.pc \in {"apply", "revert", "etag"}
      /\ UNCHANGED store /\ t.changes \in Seq(ChangeItem)
  BY DEF Inv, GoodTask, Task, EndApply, KeepFailure, UpdateETag, Answer, Reverting
<1>h. \A u : Step(r, u) => task'[r] = u
  BY DEF Step, Inv
<1>2. CASE EndApply(r)
  <2>1. t.pc = "apply" /\ \A n \in Wanted(t.body) : Holds(t, n, own)
    BY <1>2 DEF EndApply, Kept, LookedUp
  <2>2. CASE HasError(t.changes)
    <3> DEFINE at == Len(t.changes)
               u  == [t EXCEPT !.pc = "revert", !.at = at]
    <3>1. at \in Nat /\ task'[r] = u
      BY <1>1, <1>2, <1>h, <2>2 DEF EndApply
    <3>2. \A n \in Wanted(t.body) :
            /\ Touched(t.changes, n, at) => t.properties[n] # Absent
            /\ n \in own /\ ~ Touched(t.changes, n, at) => Dead(store)[n] = Found(t, n)
      BY <2>1 DEF Holds, Kept, Restored, Standing
    <3> HIDE DEF at
    <3> SUFFICES ASSUME NEW v, v = [t EXCEPT !.pc = "revert", !.at = at]  PROVE  Kept(v, store, own)
      BY <1>1, <3>1
    <3> QED  BY <1>1, <3>1, <3>2, MovedKept
  <2>3. CASE ~ HasError(t.changes)
    <3>1. task'[r] = [t EXCEPT !.pc = "etag", !.at = 0]
      BY <1>2, <1>h, <2>3 DEF EndApply
    <3> SUFFICES ASSUME NEW v, v = [t EXCEPT !.pc = "etag", !.at = 0]  PROVE  Kept(v, store, own)
      BY <1>1, <3>1
    <3> QED  BY <1>1, <2>1, <2>3, MovedKept
  <2> QED  BY <2>2, <2>3
<1>3. CASE KeepFailure(r)
  <2> DEFINE at == t.at - 1
  <2>1. /\ t.pc = "revert" /\ at \in Nat /\ Reverting(t) /\ ~ IsSuccess(LastChange(t))
        /\ task'[r] = [t EXCEPT !.at = at]
    BY <1>1, <1>3, <1>h DEF KeepFailure, Reverting
  <2>2. ~ Touching(LastChange(t))
    BY <2>1 DEF Touching, IsSuccess, Success
  <2>3. \A n : Touched(t.changes, n, t.at) <=> Touched(t.changes, n, at)
    BY <1>1, <2>1, <2>2, AtChange
  <2>4. \A n \in Wanted(t.body) :
          /\ Touched(t.changes, n, at) => t.properties[n] # Absent
          /\ n \in own /\ ~ Touched(t.changes, n, at) => Dead(store)[n] = Found(t, n)
    BY <2>1, <2>3 DEF Kept, LookedUp, Restored, Standing
  <2>5. [t EXCEPT !.at = at] = [t EXCEPT !.pc = "revert", !.at = at]
    BY <1>1, <2>1 DEF Task
  <2> HIDE DEF at
  <2> SUFFICES ASSUME NEW v, v = [t EXCEPT !.pc = "revert", !.at = at]  PROVE  Kept(v, store, own)
    BY <1>1, <2>1, <2>5
  <2> QED  BY <1>1, <2>1, <2>4, MovedKept
<1>4. CASE UpdateETag(r)
  <2> DEFINE at == t.at + 1
  <2>1. t.pc = "etag" /\ at \in Nat /\ task'[r] = [t EXCEPT !.at = at]
    BY <1>1, <1>4, <1>h DEF UpdateETag
  <2>2. ~ HasError(t.changes)
    BY <1>1, <2>1 DEF GoodTask, Recorded
  <2>3. [t EXCEPT !.at = at] = [t EXCEPT !.pc = "etag", !.at = at]
    BY <1>1, <2>1 DEF Task
  <2> HIDE DEF at
  <2> SUFFICES ASSUME NEW v, v = [t EXCEPT !.pc = "etag", !.at = at]  PROVE  Kept(v, store, own)
    BY <1>1, <2>1, <2>3
  <2> QED  BY <1>1, <2>1, <2>2, MovedKept
<1>5. CASE Answer(r)
  <2> DEFINE at == t.at
  <2>1. task'[r] = [t EXCEPT !.pc = "answered"] /\ at \in Nat
    BY <1>1, <1>5, <1>h DEF Answer
  <2>2. [t EXCEPT !.pc = "answered"] = [t EXCEPT !.pc = "answered", !.at = at]
    BY <1>1 DEF Task
  <2>3. \/ t.pc = "etag" /\ ~ HasError(t.changes)
        \/ t.pc = "revert" /\ t.at = 0 /\ HasError(t.changes)
    BY <1>1, <1>5 DEF Answer, GoodTask, Recorded
  <2> HIDE DEF at
  <2> SUFFICES ASSUME NEW v, v = [t EXCEPT !.pc = "answered", !.at = at]  PROVE  Kept(v, store, own)
    BY <1>1, <2>1, <2>2
  <2> QED  BY <1>1, <2>1, <2>3, MovedKept
<1> QED  BY <1>2, <1>3, <1>4, <1>5

-----------------------------------------------------------------------------
(* The values, step by step. *)

\* What a request starts with.
LEMMA BeginIs ==
  ASSUME Inv, NEW r \in Request, NEW body \in Bodies[r], Begin(r, body)
  PROVE  /\ task'[r].pc = "apply" /\ task'[r].body = body /\ task'[r].changes = <<>>
         /\ task'[r].properties = GetProperties /\ task'[r].before.store = store
         /\ task'[r].before.etag = etag[0] /\ task'[r].at = 1
         /\ task'[r].before.quiet = (\A q \in Request : Still(q))
<1> DEFINE before == [store |-> store, etag |-> etag[0],
                      quiet |-> \A q \in Request : Still(q)]
           properties == GetProperties
<1>1. before.store = store /\ before.etag = etag[0]
      /\ before.quiet = (\A q \in Request : Still(q))
  OBVIOUS
<1>2. task'[r] = [Idle EXCEPT !.pc = "apply", !.body = body, !.at = 1,
                              !.properties = properties, !.before = before]
  BY DEF Begin, Step, Inv
<1> HIDE DEF before, properties
<1>3. /\ task'[r].pc = "apply" /\ task'[r].body = body /\ task'[r].changes = <<>>
      /\ task'[r].properties = properties /\ task'[r].before = before /\ task'[r].at = 1
  BY <1>2 DEF Idle
<1> QED  BY <1>1, <1>3 DEF properties

LEMMA BeginKept ==
  ASSUME NEW own \in SUBSET Shown,
         Inv, NEW r \in Request, NEW body \in Bodies[r], Begin(r, body)
  PROVE  Kept(task'[r], store', own)
<1>1. /\ task'[r].pc = "apply" /\ task'[r].body = body /\ task'[r].changes = <<>>
      /\ task'[r].properties = GetProperties /\ task'[r].before.store = store
  BY BeginIs
<1>2. UNCHANGED store /\ store \in [Stored -> Value \cup {Absent}] /\ lastModified \in Value
  BY DEF Begin, Inv, Resource
<1> SUFFICES ASSUME NEW u, u = task'[r]  PROVE  Kept(u, store, own)
  BY <1>2
<1>3. /\ u.pc = "apply" /\ u.body = body /\ u.changes = <<>>
      /\ u.properties = GetProperties /\ u.before.store = store
  BY <1>1
<1>4. DOMAIN u.changes = {} /\ \A n, m : ~ Touched(u.changes, n, m)
  BY <1>3 DEF Touched
<1>5. Undoable(u, own)
  BY <1>4 DEF Undoable
<1>6. ASSUME NEW n \in Wanted(body)
      PROVE  Holds(u, n, own)
  <2>1. n \in Shown /\ n \in Name
    BY ShownIs DEF Wanted
  <2>2. CASE n = "displayname"
    BY <1>3, <1>4, <2>1, <2>2 DEF Holds, GetProperties
  <2>3. CASE n # "displayname"
    <3>1. u.properties[n] = store[n]
      BY <1>3, <2>1, <2>3, ShownIs DEF GetProperties
    <3>2. Found(u, n) = store[n]
      BY <1>2, <1>3, <2>1, <2>3, DeadIs DEF Found
    <3> QED  BY <1>4, <3>1, <3>2 DEF Holds
  <2> QED  BY <2>2, <2>3
<1>7. \A n \in Predefined : u.properties[n] # Absent
  BY <1>2, <1>3, ConstantsAssumption DEF GetProperties, Predefined, Name
<1>8. LookedUp(u, own)
  BY <1>3, <1>6, <1>7 DEF LookedUp
<1>9. Restored(u, store, own)
  BY <1>3 DEF Restored, Found
<1>10. Applied(u, store, own)
  BY <1>4 DEF Applied
<1> QED  BY <1>5, <1>8, <1>9, <1>10 DEF Kept

\* A step of r is one of its operations.
StepOf(r) ==
  \/ \E body \in Bodies[r] : Begin(r, body)
  \/ Apply(r)
  \/ Revert(r)
  \/ UpdateETag(r)
  \/ Answer(r)

LEMMA StepKept ==
  ASSUME NEW own \in SUBSET Shown,
         Inv, Inv', NEW r \in Request, Kept(task[r], store, own), StepOf(r)
  PROVE  Kept(task'[r], store', own)
<1>1. ASSUME Apply(r)
      PROVE  Kept(task'[r], store', own)
  <2>1. CASE SetNewThrows(r)
    BY <2>1, CrashKept DEF SetNewThrows
  <2> QED
    BY <1>1, <2>1, RefusalsKept, ReadDisplayNameKept, SetExistingKept, SetNewKept,
       RemoveExistingKept, RestKept DEF Apply
<1>2. ASSUME Revert(r)
      PROVE  Kept(task'[r], store', own)
  BY <1>2, RevertKept, RestKept DEF Revert
<1> QED  BY <1>1, <1>2, BeginKept, RestKept DEF StepOf

\* The same request, elsewhere in the handler.
Becomes(t, u, pc) == u.body = t.body /\ u.before = t.before /\ u.pc = pc

LEMMA AdvanceBecomes ==
  ASSUME NEW t \in Task, NEW change, NEW failed, NEW properties
  PROVE  Becomes(t, Advance(t, change, failed, properties), t.pc)
<1> DEFINE changes == Append(t.changes, change)
           f == IF t.at < Len(t.body) /\ t.body[t.at + 1].opens THEN HasError(changes) ELSE failed
           d == [t EXCEPT !.at = @ + 1, !.changes = changes, !.properties = properties,
                          !.failed = f]
<1>1. Advance(t, change, failed, properties) = d
  BY DEF Advance
<1> HIDE DEF changes, f
<1>2. Becomes(t, d, t.pc)
  BY DEF Task, Becomes
<1> QED  BY <1>1, <1>2

LEMMA UndoneBecomes ==
  ASSUME NEW t \in Task, NEW properties
  PROVE  Becomes(t, Undone(t, properties), t.pc)
BY DEF Undone, Task, Becomes

LEMMA MoveBecomes ==
  ASSUME NEW t \in Task
  PROVE  /\ \A pc : Becomes(t, [t EXCEPT !.pc = pc], pc)
         /\ \A at : Becomes(t, [t EXCEPT !.at = at], t.pc)
         /\ \A pc, at : Becomes(t, [t EXCEPT !.pc = pc, !.at = at], pc)
         /\ \A name : Becomes(t, [t EXCEPT !.properties["displayname"] = name], t.pc)
BY DEF Task, Becomes

\* What the steps of a request that has begun have in common.
GoesOn(r) ==
  /\ ~ Still(r)
  /\ Becomes(task[r], task'[r], task'[r].pc)
  /\ \A q \in Request \ {r} : task'[q] = task[q]
  /\ \A n \in Shown \ Wanted(task[r].body) : store'[n] = store[n]

LEMMA ApplyGoesOn ==
  ASSUME Inv, NEW r \in Request, Apply(r)
  PROVE  /\ GoesOn(r) /\ UNCHANGED etag
         /\ task'[r].pc \in {"apply", "revert", "etag", "crashed"}
         /\ task'[r].pc = "etag" => task'[r].at = 0
<1> DEFINE t == task[r]
<1>1. GoodTask(t) /\ t \in Task /\ store \in [Stored -> Value \cup {Absent}]
  BY DEF Inv, GoodTask, Resource
<1>2. t.pc = "apply" /\ ~ Still(r)
  BY DEF Apply, SkipDependent, ReadDisplayName, RefuseProtected, SetExisting,
         SetExistingThrows, SetNew, SetNewThrows, RemoveExisting, RemoveThrows, RemoveLive,
         RemoveUnknown, EndApply, Touches, Applying, Still
<1>3. \A u : Step(r, u) => task'[r] = u /\ \A q \in Request \ {r} : task'[q] = task[q]
  BY DEF Step, Inv
<1>4. ASSUME NEW change, NEW failed, NEW properties,
             Step(r, Advance(t, change, failed, properties)),
             \A n \in Shown \ Wanted(t.body) : store'[n] = store[n], UNCHANGED etag
      PROVE  /\ GoesOn(r) /\ UNCHANGED etag
             /\ task'[r].pc \in {"apply", "revert", "etag", "crashed"}
             /\ task'[r].pc = "etag" => task'[r].at = 0
  <2>1. task'[r] = Advance(t, change, failed, properties)
        /\ \A q \in Request \ {r} : task'[q] = task[q]
    BY <1>3, <1>4
  <2>2. Becomes(t, task'[r], t.pc)
    BY <1>1, <2>1, AdvanceBecomes
  <2> QED  BY <1>2, <1>4, <2>1, <2>2 DEF GoesOn, Becomes
<1>5. Current(t).name \in Shown /\ Applying(t) => Current(t).name \in Wanted(t.body)
  BY <1>1, AtInstruction
<1>6. CASE SkipDependent(r) \/ RefuseProtected(r) \/ SetExistingThrows(r)
           \/ RemoveThrows(r) \/ RemoveLive(r) \/ RemoveUnknown(r)
  BY <1>4, <1>6 DEF SkipDependent, RefuseProtected, SetExistingThrows, RemoveThrows,
                    RemoveLive, RemoveUnknown
<1>7. CASE SetExisting(r)
  <2>1. Applying(t) /\ Target(t) # Absent /\ UNCHANGED etag
    BY <1>7 DEF SetExisting, Touches
  <2>2. Target(t) \in Shown => Target(t) = Current(t).name
    BY <1>1, <2>1, TargetIsCurrent
  <2>3. \A n \in Shown : n # Target(t) => store'[n] = store[n]
    BY <1>1, <1>7, ShownIs DEF SetExisting
  <2>4. \A n \in Shown \ Wanted(t.body) : store'[n] = store[n]
    BY <1>5, <2>1, <2>2, <2>3
  <2>5. CASE Target(t) = "getlastmodified"
    BY <1>4, <1>7, <2>1, <2>4, <2>5 DEF SetExisting
  <2>6. CASE Target(t) # "getlastmodified"
    BY <1>4, <1>7, <2>1, <2>4, <2>6 DEF SetExisting
  <2> QED  BY <2>5, <2>6
<1>8. CASE SetNew(r)
  <2>1. Applying(t) /\ UNCHANGED etag
    BY <1>8 DEF SetNew
  <2>2. \A n \in Shown : n # Current(t).name => store'[n] = store[n]
    BY <1>1, <1>8, ShownIs DEF SetNew
  <2>3. \A n \in Shown \ Wanted(t.body) : store'[n] = store[n]
    BY <1>5, <2>1, <2>2
  <2> QED  BY <1>4, <1>8, <2>1, <2>3 DEF SetNew
<1>9. CASE RemoveExisting(r)
  <2>1. Applying(t) /\ UNCHANGED etag
    BY <1>9 DEF RemoveExisting, Touches
  <2>2. \A n \in Shown : n # Current(t).name => store'[n] = store[n]
    BY <1>1, <1>9, ShownIs DEF RemoveExisting
  <2>3. \A n \in Shown \ Wanted(t.body) : store'[n] = store[n]
    BY <1>5, <2>1, <2>2
  <2> QED  BY <1>4, <1>9, <2>1, <2>3 DEF RemoveExisting
<1>10. CASE ReadDisplayName(r)
  <2>1. Becomes(t, task'[r], t.pc) /\ UNCHANGED <<store, etag>>
        /\ \A q \in Request \ {r} : task'[q] = task[q]
    BY <1>1, <1>3, <1>10, MoveBecomes DEF ReadDisplayName
  <2> QED  BY <1>2, <2>1 DEF GoesOn, Becomes
<1>11. CASE SetNewThrows(r)
  <2>1. Becomes(t, task'[r], "crashed") /\ UNCHANGED <<store, etag>>
        /\ \A q \in Request \ {r} : task'[q] = task[q]
    BY <1>1, <1>3, <1>11, MoveBecomes DEF SetNewThrows, Crash
  <2> QED  BY <1>2, <2>1 DEF GoesOn, Becomes
<1>12. CASE EndApply(r)
  <2> DEFINE pc == IF HasError(t.changes) THEN "revert" ELSE "etag"
             at == IF HasError(t.changes) THEN Len(t.changes) ELSE 0
  <2>1. Step(r, [t EXCEPT !.pc = pc, !.at = at]) /\ UNCHANGED <<store, etag>>
    <3>1. CASE HasError(t.changes)
      BY <1>12, <3>1 DEF EndApply
    <3>2. CASE ~ HasError(t.changes)
      BY <1>12, <3>2 DEF EndApply
    <3> QED  BY <3>1, <3>2
  <2>2. pc \in {"revert", "etag"} /\ (pc = "etag" => at = 0)
    OBVIOUS
  <2> HIDE DEF pc, at
  <2>3. Becomes(t, task'[r], pc) /\ task'[r].at = at
    <3>1. task'[r] = [t EXCEPT !.pc = pc, !.at = at]
      BY <1>3, <2>1
    <3>2. Becomes(t, [t EXCEPT !.pc = pc, !.at = at], pc)
      BY <1>1, MoveBecomes
    <3>3. [t EXCEPT !.pc = pc, !.at = at].at = at
      BY <1>1 DEF Task
    <3> QED  BY <3>1, <3>2, <3>3
  <2>4. \A q \in Request \ {r} : task'[q] = task[q]
    BY <1>3, <2>1
  <2> QED  BY <1>2, <2>1, <2>2, <2>3, <2>4 DEF GoesOn, Becomes
<1> QED
  BY <1>6, <1>7, <1>8, <1>9, <1>10, <1>11, <1>12 DEF Apply

LEMMA RevertGoesOn ==
  ASSUME Inv, ValuesInv, NEW r \in Request, Revert(r)
  PROVE  /\ GoesOn(r) /\ UNCHANGED etag
         /\ task'[r].pc \in {"revert", "crashed"}
<1> DEFINE t == task[r]
           n == LastChange(t).name
<1>1. GoodTask(t) /\ t \in Task /\ store \in [Stored -> Value \cup {Absent}]
  BY DEF Inv, GoodTask, Resource
<1>2. Reverting(t) /\ t.pc = "revert" /\ ~ Still(r)
  BY DEF Revert, RevertAdded, RevertModified, RevertRemoved, KeepFailure, RevertThrows,
         Reverting, Still
<1>3. \A u : Step(r, u) => task'[r] = u /\ \A q \in Request \ {r} : task'[q] = task[q]
  BY DEF Step, Inv
<1>4. t.at \in DOMAIN t.changes
  BY <1>1, <1>2, AtChange
<1>5. UNCHANGED etag
  BY DEF Revert, RevertAdded, RevertModified, RevertRemoved, KeepFailure, RevertThrows
<1>6. \A m \in Shown \ Wanted(t.body) : store'[m] = store[m]
  <2>1. CASE UNCHANGED store
    BY <2>1
  <2>2. CASE store' # store
    <3>1. \E v : store' = [store EXCEPT ![n] = v]
      BY <2>2 DEF Revert, RevertAdded, RevertModified, RevertRemoved, KeepFailure, RevertThrows
    <3>2. Touching(LastChange(t))
      BY <2>2 DEF Revert, RevertAdded, RevertModified, RevertRemoved, KeepFailure,
                  RevertThrows, Touching
    <3>3. n \in Shown => n \in Wanted(t.body)
      BY <1>4, <3>2 DEF ValuesInv, Kept, Undoable, LastChange
    <3> QED  BY <1>1, <3>1, <3>3, ShownIs
  <2> QED  BY <2>1, <2>2
<1>7. \/ \E properties : Step(r, Undone(t, properties))
      \/ Crash(r)
      \/ Step(r, [t EXCEPT !.at = t.at - 1])
  BY DEF Revert, RevertAdded, RevertModified, RevertRemoved, KeepFailure, RevertThrows
<1>8. /\ Becomes(t, task'[r], "revert") \/ Becomes(t, task'[r], "crashed")
      /\ \A q \in Request \ {r} : task'[q] = task[q]
  <2>1. CASE \E properties : Step(r, Undone(t, properties))
    BY <1>1, <1>2, <1>3, <2>1, UndoneBecomes
  <2>2. CASE Crash(r)
    BY <1>1, <1>3, <2>2, MoveBecomes DEF Crash
  <2>3. CASE Step(r, [t EXCEPT !.at = t.at - 1])
    BY <1>1, <1>2, <1>3, <2>3, MoveBecomes
  <2> QED  BY <1>7, <2>1, <2>2, <2>3
<1> QED  BY <1>2, <1>5, <1>6, <1>8 DEF GoesOn, Becomes

LEMMA EndGoesOn ==
  ASSUME Inv, NEW r \in Request, UpdateETag(r) \/ Answer(r)
  PROVE  GoesOn(r) /\ UNCHANGED store /\ task'[r].pc # "idle"
<1>1. task[r] \in Task /\ task[r].pc \in {"etag", "revert"} /\ UNCHANGED store
  BY DEF Inv, UpdateETag, Answer
<1>2. \A u : Step(r, u) => task'[r] = u /\ \A q \in Request \ {r} : task'[q] = task[q]
  BY DEF Step, Inv
<1>3. /\ \E pc : pc # "idle" /\ Becomes(task[r], task'[r], pc)
      /\ \A q \in Request \ {r} : task'[q] = task[q]
  <2>1. CASE UpdateETag(r)
    BY <1>1, <1>2, <2>1, MoveBecomes DEF UpdateETag
  <2>2. CASE Answer(r)
    <3>1. Step(r, [task[r] EXCEPT !.pc = "answered"])
      BY <2>2 DEF Answer
    <3>2. /\ task'[r] = [task[r] EXCEPT !.pc = "answered"]
          /\ \A q \in Request \ {r} : task'[q] = task[q]
      BY <1>2, <3>1
    <3>3. Becomes(task[r], [task[r] EXCEPT !.pc = "answered"], "answered")
      BY <1>1, MoveBecomes
    <3> QED  BY <3>2, <3>3
  <2> QED  BY <2>1, <2>2
<1> QED  BY <1>1, <1>3 DEF GoesOn, Becomes, Still

LEMMA StepGoesOn ==
  ASSUME Inv, ValuesInv, NEW r \in Request, StepOf(r)
  PROVE  \/ GoesOn(r) /\ task'[r].pc # "idle"
         \/ \E body \in Bodies[r] : Begin(r, body)
BY ApplyGoesOn, RevertGoesOn, EndGoesOn DEF StepOf

\* Less is said of fewer properties.
LEMMA KeptOfLess ==
  ASSUME NEW t, NEW s, NEW own \in SUBSET Shown, NEW less \in SUBSET own, Kept(t, s, own)
  PROVE  Kept(t, s, less)
<1>1. Undoable(t, less)
  BY DEF Kept, Undoable
<1>2. LookedUp(t, less)
  <2>1. \A n : Holds(t, n, own) => Holds(t, n, less)
    BY DEF Holds
  <2> QED  BY <2>1 DEF Kept, LookedUp
<1>3. Restored(t, s, less)
  BY DEF Kept, Restored
<1>4. Applied(t, s, less)
  BY DEF Kept, Applied
<1> QED  BY <1>1, <1>2, <1>3, <1>4 DEF Kept

\* Requests only ever name more.
LEMMA MineIsLess ==
  ASSUME Inv, ValuesInv, NEW r \in Request, StepOf(r), NEW q \in Request
  PROVE  Mine(q)' \in SUBSET Mine(q) /\ Mine(q) \in SUBSET Shown
<1>1. \A p \in Request : Named(p) \subseteq Named(p)'
  <2>1. CASE GoesOn(r)
    BY <2>1 DEF GoesOn, Becomes, Named
  <2>2. CASE \E body \in Bodies[r] : Begin(r, body)
    <3>1. task[r].pc = "idle" /\ \A p \in Request \ {r} : task'[p] = task[p]
      BY <2>2 DEF Begin, Step, Inv
    <3>2. Named(r) = {}
      <4>1. task[r].body = <<>>
        BY <3>1 DEF ValuesInv, Sent
      <4> QED  BY <4>1 DEF Named, Wanted
    <3> QED  BY <3>1, <3>2 DEF Named
  <2> QED  BY <2>1, <2>2, StepGoesOn
<1> QED  BY <1>1 DEF Mine

LEMMA KeptElsewhere ==
  ASSUME NEW own \in SUBSET Shown,
         NEW t, NEW s \in [Stored -> Value \cup {Absent}],
         NEW z \in [Stored -> Value \cup {Absent}],
         t \in Task, Recorded(t), Kept(t, s, own),
         \A n \in Wanted(t.body) \cap own : z[n] = s[n]
  PROVE  Kept(t, z, own)
<1>1. \A n \in Wanted(t.body) \cap own : Dead(z)[n] = Dead(s)[n]
  BY DeadAgrees DEF Wanted
<1>2. Restored(t, z, own)
  BY <1>1 DEF Kept, Restored
<1>3. ASSUME NEW i \in DOMAIN t.changes, t.body[i].name \in own, Says(t.body[i], s),
             t.pc \in {"apply", "etag", "answered"}
      PROVE  Says(t.body[i], z)
  <2>1. i \in DOMAIN t.body
    BY <1>3 DEF Task, Recorded
  <2>2. t.body[i].name \in Wanted(t.body)
    BY <1>3, <2>1 DEF Wanted
  <2> QED  BY <1>3, <2>2 DEF Says
<1>4. Applied(t, z, own)
  BY <1>3 DEF Kept, Applied
<1> QED  BY <1>2, <1>4 DEF Kept

LEMMA ValuesStep ==
  ASSUME Inv, Inv', ValuesInv, NEW r \in Request, StepOf(r)
  PROVE  ValuesInv'
<1> SUFFICES ASSUME NEW q \in Request  PROVE  Sent(q)' /\ Kept(task'[q], store', Mine(q)')
  BY DEF ValuesInv
<1> DEFINE own == Mine(q)'
<1>0. own \in SUBSET Shown /\ Kept(task[q], store, own)
  <2>1. own \in SUBSET Mine(q) /\ Mine(q) \in SUBSET Shown
    BY MineIsLess
  <2>2. Kept(task[q], store, Mine(q))
    BY DEF ValuesInv
  <2> HIDE DEF own
  <2> QED  BY <2>1, <2>2, KeptOfLess
<1>1. CASE q = r
  <2>1. Kept(task'[r], store', own)
    <3> HIDE DEF own
    <3> QED  BY <1>0, <1>1, StepKept
  <2>2. CASE GoesOn(r) /\ task'[r].pc # "idle"
    BY <1>1, <2>1, <2>2 DEF ValuesInv, Sent, GoesOn, Becomes
  <2>3. CASE \E body \in Bodies[r] : Begin(r, body)
    <3>1. task'[r].body \in Bodies[r] /\ task'[r].pc = "apply"
      BY <2>3, BeginIs
    <3> QED  BY <1>1, <2>1, <3>1 DEF Sent
  <2> QED  BY <2>2, <2>3, StepGoesOn
<1>2. CASE q # r
  <2>1. /\ task'[q] = task[q]
        /\ \A n \in Wanted(task[q].body) \cap own : store'[n] = store[n]
    <3>1. CASE GoesOn(r)
      <4>1. \A n \in own : n \in Shown /\ n \notin Wanted(task[r].body)
        BY <1>2, <3>1 DEF Mine, Named, GoesOn, Becomes
      <4> QED  BY <1>2, <3>1, <4>1 DEF GoesOn
    <3>2. CASE \E body \in Bodies[r] : Begin(r, body)
      BY <1>2, <3>2 DEF Begin, Step, Inv
    <3> QED  BY <3>1, <3>2, StepGoesOn
  <2>2. /\ task[q] \in Task /\ Recorded(task[q])
        /\ store \in [Stored -> Value \cup {Absent}] /\ store' \in [Stored -> Value \cup {Absent}]
    BY DEF Inv, Resource
  <2>3. Kept(task[q], store', own)
    <3> HIDE DEF own
    <3> QED  BY <1>0, <2>1, <2>2, KeptElsewhere
  <2>4. Sent(q)'
    BY <2>1 DEF ValuesInv, Sent
  <2> QED  BY <2>1, <2>3, <2>4
<1> QED  BY <1>1, <1>2

LEMMA ValuesInit == Init => ValuesInv
<1> SUFFICES ASSUME Init, NEW r \in Request, NEW own
             PROVE  Sent(r) /\ Kept(task[r], store, own)
  BY DEF ValuesInv
<1>1. task[r] = Idle
  BY DEF Init
<1>2. task[r].pc = "idle" /\ task[r].body = <<>> /\ task[r].changes = <<>>
  BY <1>1 DEF Idle
<1>3. Undoable(task[r], own) /\ LookedUp(task[r], own)
  BY <1>2 DEF Undoable, LookedUp
<1>4. Restored(task[r], store, own) /\ Applied(task[r], store, own)
  BY <1>2 DEF Restored, Applied
<1> QED  BY <1>2, <1>3, <1>4 DEF Sent, Kept

LEMMA ValuesHold == Spec => [](Inv /\ ValuesInv)
<1>1. Inv /\ ValuesInv /\ [Next]_vars => (Inv /\ ValuesInv)'
  <2> SUFFICES ASSUME Inv, ValuesInv, [Next]_vars  PROVE  Inv' /\ ValuesInv'
    OBVIOUS
  <2>1. Inv'
    BY NextKeepsInv
  <2>2. CASE UNCHANGED vars
    BY <2>1, <2>2 DEF vars, ValuesInv, Sent, Mine, Named
  <2>3. ASSUME NEW r \in Request, StepOf(r)
        PROVE  ValuesInv'
    BY <2>1, <2>3, ValuesStep
  <2> QED  BY <2>1, <2>2, <2>3 DEF Next, StepOf
<1>2. Init => Inv /\ ValuesInv
  BY InitIsGood, ValuesInit
<1> QED  BY <1>1, <1>2, PTL DEF Spec

-----------------------------------------------------------------------------
(* The theorems about values. *)

\* What r alone named.
LEMMA OwnIs ==
  ASSUME NEW r \in Request
  PROVE  Own(r) = Wanted(task[r].body) \cap Mine(r)
BY DEF Own, Contested, Mine, Named, Wanted

\* However requests overlap with it and wherever a write throws: a PROPPATCH that
\* is answered with a failure left every property that it alone named as it
\* found it (RevertChangesAsync).
THEOREM RefusedIsUndoneHolds == Spec => []RefusedIsUndone
<1>1. ASSUME Inv, ValuesInv  PROVE  RefusedIsUndone
  <2> SUFFICES ASSUME NEW r \in Request, Refused(r),
                      NEW n \in Wanted(task[r].body) \cap Mine(r)
               PROVE  Dead(store)[n] = Dead(task[r].before.store)[n]
    BY OwnIs DEF RefusedIsUndone
  <2>1. Kept(task[r], store, Mine(r)) /\ task[r].changes \in Seq(ChangeItem)
    BY <1>1 DEF ValuesInv, Inv, Task
  <2>2. task[r].pc = "answered" /\ HasError(task[r].changes)
    BY DEF Refused
  <2>3. ~ Touched(task[r].changes, n, Standing(task[r]))
    BY <2>1, <2>2 DEF Standing, Touched
  <2> QED  BY <2>1, <2>2, <2>3 DEF Kept, Restored, Found
<1> QED  BY <1>1, ValuesHold, PTL

\* The last instruction on a name that is in a body.
LEMMA LastWordIs ==
  ASSUME NEW body \in Seq(Instruction), NEW n, \E i \in DOMAIN body : body[i].name = n
  PROVE  LET last == CHOOSE i \in DOMAIN body :
                       /\ body[i].name = n
                       /\ \A j \in DOMAIN body : body[j].name = n => j <= i
         IN  /\ last \in DOMAIN body /\ body[last].name = n
             /\ \A j \in DOMAIN body : body[j].name = n => j <= last
<1> DEFINE T == {k \in Nat : \A j \in DOMAIN body : body[j].name = n => j <= k}
<1>1. Len(body) \in T /\ T \subseteq Nat /\ DOMAIN body = 1..Len(body) /\ Len(body) \in Nat
  OBVIOUS
<1>2. PICK k \in T : \A m \in T : k <= m
  <2>1. T # {} /\ T \subseteq Nat
    BY <1>1
  <2> HIDE DEF T
  <2>2. PICK k \in T : \A m \in T : <<m, k>> \notin OpToRel(<, Nat)
    BY <2>1, WFMin, NatLessThanWellFounded, Zenon
  <2>3. \A m \in T : ~ (m < k)
    BY <2>1, <2>2, Zenon DEF OpToRel
  <2> QED  BY <2>1, <2>3
<1>3. k \in Nat /\ \A j \in DOMAIN body : body[j].name = n => j <= k
  BY <1>2
<1>4. PICK i \in DOMAIN body : body[i].name = n
  OBVIOUS
<1>5. k \in DOMAIN body /\ body[k].name = n
  <2> SUFFICES ASSUME ~ (k \in DOMAIN body /\ body[k].name = n)  PROVE  FALSE
    OBVIOUS
  <2>1. 1 <= i /\ i <= k
    BY <1>1, <1>3, <1>4
  <2>2. k - 1 \in Nat
    BY <1>1, <1>3, <2>1
  <2>3. \A j \in DOMAIN body : body[j].name = n => j <= k - 1
    BY <1>1, <1>3
  <2> QED  BY <1>2, <1>3, <2>2, <2>3
<1> QED  BY <1>3, <1>5

\* A PROPPATCH that is answered without a failure left every property that it
\* alone named with what its last instruction on it said (ApplyChangesAsync).
THEOREM AcceptedIsAppliedHolds == Spec => []AcceptedIsApplied
<1>1. ASSUME Inv, ValuesInv  PROVE  AcceptedIsApplied
  <2> SUFFICES ASSUME NEW r \in Request, Accepted(r),
                      NEW n \in Wanted(task[r].body) \cap Mine(r)
               PROVE  Shows(r, n)
    BY OwnIs DEF AcceptedIsApplied
  <2> DEFINE t == task[r]
  <2>1. /\ Kept(t, store, Mine(r)) /\ t.changes \in Seq(ChangeItem)
        /\ t.body \in Seq(Instruction)
        /\ Recorded(t)
    BY <1>1 DEF ValuesInv, Inv, Task
  <2>2. t.pc = "answered" /\ ~ HasError(t.changes) /\ DOMAIN t.changes = DOMAIN t.body
    BY <2>1 DEF Accepted, Recorded
  <2>3. n \in Shown /\ \E i \in DOMAIN t.body : t.body[i].name = n
    BY DEF Wanted
  <2> DEFINE last == CHOOSE i \in DOMAIN t.body :
                       /\ t.body[i].name = n
                       /\ \A j \in DOMAIN t.body : t.body[j].name = n => j <= i
  <2>4. /\ last \in DOMAIN t.body /\ t.body[last].name = n
        /\ \A j \in DOMAIN t.body : t.body[j].name = n => j <= last
    BY <2>1, <2>3, LastWordIs
  <2>5. LastWord(r, n) = t.body[last]
    BY DEF LastWord
  <2> HIDE DEF last
  <2>6. Says(t.body[last], store)
    BY <2>1, <2>2, <2>3, <2>4 DEF Kept, Applied, IsLast
  <2> QED  BY <2>4, <2>5, <2>6 DEF Shows, Says
<1> QED  BY <1>1, ValuesHold, PTL

-----------------------------------------------------------------------------
(* Entity tags. *)

\* A request that is under way, or has broken down, names n.
Busy(n) == \E q \in Request : ~ Still(q) /\ n \in Named(q)

\* As long as the entity tag is the one r found when nobody was at the
\* resource, everything that is not contested and that nobody is busy with is
\* what r found, and so is what those who are busy found.  Who has got to the
\* entity tags has replaced it.
TagTells(r) ==
  /\ task[r].before.etag <= etag[0]
  /\ \A q \in Request : task[q].pc = "etag" /\ task[q].at > 0 => task[r].before.etag < etag[0]
  /\ task[r].before.etag = etag[0] =>
       /\ \A n \in Shown \ Contested : ~ Busy(n) => Dead(store)[n] = Found(task[r], n)
       /\ \A q \in Request : ~ Still(q) =>
            \A n \in Named(q) \ Contested : Found(task[q], n) = Found(task[r], n)

\* The entity tag a request found is replaced before it is accepted.
Replaces(r) ==
  /\ task[r].before.etag <= etag[0]
  /\ \/ task[r].pc = "etag" /\ task[r].at > 0
     \/ Accepted(r)
     => task[r].before.etag < etag[0]

TagsInv ==
  \A r \in Request : task[r].pc # "idle" =>
    /\ Replaces(r)
    /\ task[r].before.quiet => TagTells(r)

LEMMA TagType ==
  ASSUME Inv, NEW r \in Request
  PROVE  /\ etag[0] \in Nat /\ task[r].before.etag \in Nat
         /\ task[r].pc \in {"idle", "apply", "revert", "etag", "answered", "crashed"}
         /\ task[r].at \in Nat /\ task[r].before \in Before /\ task[r] \in Task
         /\ store \in [Stored -> Value \cup {Absent}]
BY ConstantsAssumption DEF Inv, Resource, Task, Before

\* What is contested, when a request has begun.
LEMMA BeginContests ==
  ASSUME Inv, ValuesInv, NEW p \in Request, NEW body \in Bodies[p], Begin(p, body)
  PROVE  /\ Contested \subseteq Contested'
         /\ \A q \in Request \ {p} : Named(q)' = Named(q)
         /\ \A n \in Named(p)' : n \notin Contested' =>
              n \in Shown /\ \A q \in Request : n \notin Named(q)
<1>1. task[p].pc = "idle" /\ \A q \in Request \ {p} : task'[q] = task[q]
  BY DEF Begin, Step, Inv
<1>2. Named(p) = {}
  <2>1. task[p].body = <<>>
    BY <1>1 DEF ValuesInv, Sent
  <2> QED  BY <2>1 DEF Named, Wanted
<1>3. \A q \in Request \ {p} : Named(q)' = Named(q)
  BY <1>1 DEF Named
<1>4. Named(p)' \subseteq Shown
  BY DEF Named, Wanted
<1>5. Contested \subseteq Contested'
  BY <1>2, <1>3 DEF Contested
<1>6. ASSUME NEW n \in Named(p)', n \notin Contested', NEW q \in Request
      PROVE  n \notin Named(q)
  BY <1>2, <1>3, <1>4, <1>6 DEF Contested
<1> QED  BY <1>3, <1>4, <1>5, <1>6

\* Every other step leaves all that as it is.
LEMMA SameNamed ==
  ASSUME NEW p \in Request, GoesOn(p)
  PROVE  Contested' = Contested /\ \A q \in Request : Named(q)' = Named(q)
<1>1. \A q \in Request : Named(q)' = Named(q)
  BY DEF GoesOn, Becomes, Named
<1> QED  BY <1>1 DEF Contested

LEMMA BeginTags ==
  ASSUME Inv, Inv', ValuesInv, TagsInv, NEW p \in Request, NEW body \in Bodies[p], Begin(p, body)
  PROVE  TagsInv'
<1>1. /\ task'[p].pc = "apply" /\ task'[p].body = body /\ task'[p].before.store = store
      /\ task'[p].before.etag = etag[0]
      /\ task'[p].before.quiet = (\A q \in Request : Still(q))
  BY BeginIs
<1>2. /\ UNCHANGED <<store, etag>> /\ task[p].pc = "idle" /\ Still(p)
      /\ \A q \in Request \ {p} : task'[q] = task[q]
  BY DEF Begin, Step, Inv, Still
<1>3. \A n : Found(task'[p], n) = Dead(store)[n]
  BY <1>1 DEF Found
<1>4. ~ Still(p)' /\ \A q \in Request \ {p} : Still(q)' <=> Still(q)
  BY <1>1, <1>2 DEF Still
<1>n. /\ Contested \subseteq Contested'
      /\ \A q \in Request \ {p} : Named(q)' = Named(q)
      /\ \A n \in Named(p)' : n \notin Contested' =>
           n \in Shown /\ \A q \in Request : n \notin Named(q)
  BY BeginContests
<1> SUFFICES ASSUME NEW r \in Request, task'[r].pc # "idle"
             PROVE  Replaces(r)' /\ (task'[r].before.quiet => TagTells(r)')
  BY DEF TagsInv
<1>5. CASE r = p
  <2>1. ASSUME task'[r].before.quiet  PROVE  \A q \in Request : Still(q)
    BY <1>1, <1>5, <2>1
  <2>2. ASSUME task'[r].before.quiet  PROVE  \A q \in Request : task'[q].pc # "etag"
    BY <1>1, <1>2, <2>1, <2>2 DEF Still
  <2>3. ASSUME task'[r].before.quiet  PROVE  \A q \in Request : ~ Still(q)' => q = p
    BY <1>4, <2>1, <2>3
  <2>4. task'[r].before.etag <= etag'[0]
    BY <1>1, <1>2, <1>5, TagType
  <2>5. \A n \in Shown : Dead(store')[n] = Found(task'[r], n)
    BY <1>2, <1>3, <1>5
  <2>6. Replaces(r)'
    BY <1>1, <1>5, <2>4 DEF Replaces, Accepted
  <2>7. ASSUME task'[r].before.quiet  PROVE  TagTells(r)'
    BY <1>5, <2>2, <2>3, <2>4, <2>5, <2>7 DEF TagTells
  <2> QED  BY <2>6, <2>7
<1>6. CASE r # p
  <2>1. task'[r] = task[r] /\ Replaces(r) /\ (task[r].before.quiet => TagTells(r))
    BY <1>2, <1>6 DEF TagsInv
  <2>2. \A q \in Request : task'[q].pc = "etag" => task'[q] = task[q]
    BY <1>1, <1>2
  <2>3. \A n : Busy(n) => Busy(n)'
    BY <1>2, <1>4, <1>n DEF Busy
  <2>4. Replaces(r)'
    BY <1>2, <2>1 DEF Replaces, Accepted, HasError, IsSuccess
  <2> SUFFICES ASSUME task[r].before.quiet, TagTells(r)  PROVE  TagTells(r)'
    BY <2>1, <2>4
  <2>5. ASSUME task[r].before.etag = etag[0], NEW q \in Request, ~ Still(q)',
               NEW n \in Named(q)', n \notin Contested'
        PROVE  Found(task'[q], n) = Found(task[r], n)
    <3>1. CASE q = p
      <4>1. n \in Shown /\ n \notin Contested /\ ~ Busy(n)
        BY <1>n, <2>5, <3>1 DEF Busy
      <4> QED  BY <1>3, <2>5, <3>1, <4>1 DEF TagTells
    <3>2. CASE q # p
      BY <1>2, <1>4, <1>n, <2>5, <3>2 DEF TagTells
    <3> QED  BY <3>1, <3>2
  <2>6. task[r].before.etag = etag[0] =>
          \A n \in Shown \ Contested' : ~ Busy(n)' => Dead(store)[n] = Found(task[r], n)
    BY <1>n, <2>3 DEF TagTells
  <2>7. /\ task[r].before.etag <= etag[0]
        /\ \A q \in Request : task'[q].pc = "etag" /\ task'[q].at > 0 =>
             task[r].before.etag < etag[0]
    BY <2>2 DEF TagTells
  <2> QED  BY <1>2, <2>1, <2>5, <2>6, <2>7 DEF TagTells
<1> QED  BY <1>5, <1>6

\* r as it was, while another step is taken.
LEMMA TaggedBefore ==
  ASSUME TagsInv, NEW p \in Request, GoesOn(p),
         NEW r \in Request, task'[r].pc # "idle"
  PROVE  /\ Replaces(r)
         /\ task'[r].before.quiet => TagTells(r)
         /\ \A q \in Request : task'[q].before = task[q].before /\ Named(q)' = Named(q)
<1>1. \A q \in Request : task'[q].before = task[q].before
  BY DEF GoesOn, Becomes
<1>2. task[r].pc # "idle"
  BY DEF GoesOn, Still
<1> QED  BY <1>1, <1>2, SameNamed DEF TagsInv

LEMMA HandlerTags ==
  ASSUME Inv, Inv', TagsInv, NEW p \in Request, GoesOn(p), UNCHANGED etag,
         task'[p].pc \in {"apply", "revert", "etag", "crashed"},
         task'[p].pc = "etag" => task'[p].at = 0
  PROVE  TagsInv'
<1> SUFFICES ASSUME NEW r \in Request, task'[r].pc # "idle"
             PROVE  Replaces(r)' /\ (task'[r].before.quiet => TagTells(r)')
  BY DEF TagsInv
<1>1. /\ Replaces(r)
      /\ task'[r].before.quiet => TagTells(r)
      /\ \A q \in Request : task'[q].before = task[q].before /\ Named(q)' = Named(q)
  BY TaggedBefore
<1>2. \A q \in Request \ {p} : task'[q] = task[q]
  BY DEF GoesOn
<1>3. \A q \in Request : Still(q)' <=> Still(q)
  BY <1>2 DEF GoesOn, Still
<1>4. \A n : Busy(n)' <=> Busy(n)
  BY <1>1, <1>3 DEF Busy
<1>5. \A q \in Request : \A n : Found(task'[q], n) = Found(task[q], n)
  BY <1>1 DEF Found
<1>c. Contested' = Contested
  BY SameNamed
<1>6. \A n \in Shown : ~ Busy(n) => Dead(store')[n] = Dead(store)[n]
  <2> SUFFICES ASSUME NEW n \in Shown, ~ Busy(n)  PROVE  Dead(store')[n] = Dead(store)[n]
    OBVIOUS
  <2>1. n \notin Wanted(task[p].body)
    BY DEF Busy, GoesOn, Named
  <2>2. store'[n] = store[n]
    BY <2>1 DEF GoesOn
  <2> QED  BY <2>2, DeadAgrees DEF Inv, Resource
<1>r. Replaces(r)'
  <2>1. CASE r = p
    BY <1>1, <2>1 DEF Replaces, Accepted
  <2>2. CASE r # p
    BY <1>1, <1>2, <2>2 DEF Replaces, Accepted, HasError, IsSuccess
  <2> QED  BY <2>1, <2>2
<1> SUFFICES ASSUME task'[r].before.quiet, TagTells(r)  PROVE  TagTells(r)'
  BY <1>1, <1>r
<1>7. \A q \in Request : task'[q].pc = "etag" /\ task'[q].at > 0 =>
        task[r].before.etag < etag[0]
  BY <1>2 DEF TagTells
<1>8. task[r].before.etag = etag[0] =>
        /\ \A n \in Shown \ Contested' : ~ Busy(n)' => Dead(store')[n] = Found(task'[r], n)
        /\ \A q \in Request : ~ Still(q)' =>
             \A n \in Named(q)' \ Contested' : Found(task'[q], n) = Found(task'[r], n)
  BY <1>1, <1>3, <1>4, <1>5, <1>6, <1>c DEF TagTells
<1>9. task'[r].before.etag <= etag'[0] /\ task'[r].before = task[r].before
  BY <1>1 DEF TagTells
<1> QED  BY <1>7, <1>8, <1>9 DEF TagTells

LEMMA UpdateTags ==
  ASSUME Inv, Inv', TagsInv, NEW p \in Request, UpdateETag(p)
  PROVE  TagsInv'
<1>1. GoesOn(p)
  BY EndGoesOn
<1> SUFFICES ASSUME NEW r \in Request, task'[r].pc # "idle"
             PROVE  Replaces(r)' /\ (task'[r].before.quiet => TagTells(r)')
  BY DEF TagsInv
<1>2. /\ Replaces(r)
      /\ task'[r].before.quiet => TagTells(r)
      /\ task'[r].before = task[r].before
  BY <1>1, TaggedBefore
<1>3. /\ task[p].pc = "etag" /\ etag' = [etag EXCEPT ![task[p].at] = @ + 1]
      /\ task'[p].pc = "etag"
      /\ \A q \in Request \ {p} : task'[q] = task[q]
  BY DEF UpdateETag, Step, Inv, Task
<1>4. /\ etag[0] \in Nat /\ task[r].before.etag \in Nat /\ task[p].at \in Nat
      /\ etag \in [0..Ancestors -> Nat] /\ 0 \in 0..Ancestors
  BY TagType, ConstantsAssumption DEF Inv, Resource
<1>5. ASSUME task[r].before.etag <= etag[0],
             task[p].at > 0 => task[r].before.etag < etag[0]
      PROVE  task[r].before.etag < etag'[0]
  <2>1. CASE task[p].at = 0
    <3>1. etag'[0] = etag[0] + 1
      BY <1>3, <1>4, <2>1
    <3> QED  BY <1>4, <1>5, <3>1
  <2>2. CASE task[p].at > 0
    <3>1. etag'[0] = etag[0]
      BY <1>3, <1>4, <2>2
    <3> QED  BY <1>5, <2>2, <3>1
  <2> QED  BY <1>4, <2>1, <2>2
<1>6. etag'[0] \in Nat /\ etag[0] <= etag'[0]
  <2>1. etag'[0] \in Nat
    BY <1>4 DEF Inv, Resource
  <2>2. etag'[0] = IF task[p].at = 0 THEN etag[0] + 1 ELSE etag[0]
    BY <1>3, <1>4
  <2> QED  BY <1>4, <2>1, <2>2
<1>7. Replaces(r)'
  <2>1. CASE r = p
    <3>1. task[r].before.etag < etag'[0]
      BY <1>2, <1>3, <1>5, <2>1 DEF Replaces
    <3> QED  BY <1>2, <1>4, <1>6, <3>1 DEF Replaces
  <2>2. CASE r # p
    <3>1. task'[r] = task[r]
      BY <1>3, <2>2
    <3>2. Accepted(r)' <=> Accepted(r)
      BY <3>1 DEF Accepted, HasError, IsSuccess
    <3> QED  BY <1>2, <1>4, <1>6, <3>1, <3>2 DEF Replaces
  <2> QED  BY <2>1, <2>2
<1>8. ASSUME task'[r].before.quiet, TagTells(r)  PROVE  TagTells(r)'
  <2>1. task[r].before.etag < etag'[0]
    BY <1>3, <1>5, <1>8 DEF TagTells
  <2> QED  BY <1>2, <1>4, <1>6, <2>1 DEF TagTells
<1> QED  BY <1>2, <1>7, <1>8

LEMMA AnswerTags ==
  ASSUME Inv, Inv', ValuesInv, TagsInv, NEW p \in Request, Answer(p)
  PROVE  TagsInv'
<1>1. GoesOn(p) /\ UNCHANGED <<store, etag>> /\ task'[p].pc = "answered"
  BY EndGoesOn DEF Answer, Step, Inv, Task
<1> SUFFICES ASSUME NEW r \in Request, task'[r].pc # "idle"
             PROVE  Replaces(r)' /\ (task'[r].before.quiet => TagTells(r)')
  BY DEF TagsInv
<1>2. /\ Replaces(r)
      /\ task'[r].before.quiet => TagTells(r)
      /\ \A q \in Request : task'[q].before = task[q].before /\ Named(q)' = Named(q)
  BY <1>1, TaggedBefore
<1>3. \A q \in Request \ {p} : task'[q] = task[q]
  BY <1>1 DEF GoesOn
<1>4. Still(p)' /\ \A q \in Request \ {p} : Still(q)' <=> Still(q)
  BY <1>1, <1>3 DEF Still
<1>5. /\ etag[0] \in Nat /\ task[r].before.etag \in Nat /\ task[p].at \in Nat
      /\ Ancestors \in Nat
  BY TagType, ConstantsAssumption
<1>c. Contested' = Contested
  BY <1>1, SameNamed
<1>6. CASE task[p].pc = "etag" /\ task[p].at > Ancestors
  <2>0. task[p].at > 0
    BY <1>5, <1>6
  <2>1. TagTells(r) => task[r].before.etag < etag[0]
    BY <1>6, <2>0 DEF TagTells
  <2>2. Replaces(r)'
    <3>1. CASE r = p
      BY <1>1, <1>2, <1>6, <2>0, <3>1 DEF Replaces
    <3>2. CASE r # p
      BY <1>1, <1>2, <1>3, <3>2 DEF Replaces, Accepted, HasError, IsSuccess
    <3> QED  BY <3>1, <3>2
  <2> QED  BY <1>1, <1>2, <1>5, <2>1, <2>2 DEF TagTells
<1>7. CASE task[p].pc = "revert" /\ task[p].at = 0
  <2>r. Replaces(r)'
    <3>1. CASE r = p
      <4>1. HasError(task[p].changes) /\ task'[p].changes = task[p].changes
        BY <1>7 DEF Inv, Recorded, Answer, Step, Task
      <4>2. ~ Accepted(p)'
        BY <4>1 DEF Accepted, HasError, IsSuccess
      <4> QED  BY <1>1, <1>2, <3>1, <4>2 DEF Replaces
    <3>2. CASE r # p
      BY <1>1, <1>2, <1>3, <3>2 DEF Replaces, Accepted, HasError, IsSuccess
    <3> QED  BY <3>1, <3>2
  <2> SUFFICES ASSUME task'[r].before.quiet, TagTells(r)  PROVE  TagTells(r)'
    BY <1>2, <2>r
  <2>1. \A q \in Request : task'[q].pc = "etag" /\ task'[q].at > 0 =>
          task[r].before.etag < etag[0]
    BY <1>1, <1>3 DEF TagTells
  <2>2. \A q \in Request : \A n : Found(task'[q], n) = Found(task[q], n)
    BY <1>2 DEF Found
  <2>3. ASSUME task[r].before.etag = etag[0], NEW n \in Shown, n \notin Contested, ~ Busy(n)'
        PROVE  Dead(store)[n] = Found(task[r], n)
    <3>1. CASE ~ Busy(n)
      BY <2>3, <3>1 DEF TagTells
    <3>2. CASE Busy(n)
      <4>1. n \in Named(p) /\ ~ Still(p)
        BY <1>2, <1>4, <2>3, <3>2 DEF Busy
      <4>2. ~ Touched(task[p].changes, n, Standing(task[p]))
        <5>1. task[p].changes \in Seq(ChangeItem)
          BY DEF Inv, Task
        <5> QED  BY <1>7, <5>1 DEF Standing, Touched
      <4>3. n \in Wanted(task[p].body) \cap Mine(p)
        BY <2>3, <4>1 DEF Mine, Contested, Named
      <4>4. Dead(store)[n] = Found(task[p], n)
        BY <1>7, <4>2, <4>3 DEF ValuesInv, Kept, Restored
      <4> QED  BY <2>3, <4>1, <4>4 DEF TagTells
    <3> QED  BY <3>1, <3>2
  <2>4. ASSUME task[r].before.etag = etag[0], NEW q \in Request, ~ Still(q)',
               NEW n \in Named(q), n \notin Contested
        PROVE  Found(task[q], n) = Found(task[r], n)
    BY <1>4, <2>4 DEF TagTells
  <2>5. task[r].before.etag <= etag[0]
    BY DEF TagTells
  <2> QED  BY <1>1, <1>2, <1>c, <2>1, <2>2, <2>3, <2>4, <2>5 DEF TagTells
<1> QED  BY <1>6, <1>7 DEF Answer

LEMMA TagsStep ==
  ASSUME Inv, Inv', ValuesInv, TagsInv, NEW p \in Request, StepOf(p)
  PROVE  TagsInv'
<1>1. CASE Apply(p)
  BY <1>1, ApplyGoesOn, HandlerTags
<1>2. CASE Revert(p)
  BY <1>2, RevertGoesOn, HandlerTags
<1> QED  BY <1>1, <1>2, BeginTags, UpdateTags, AnswerTags DEF StepOf

\* An accepted request leaves another entity tag than it found.  Who saw the
\* entity tag of the resource when nobody was at it knows the properties that no
\* two requests name for as long as the entity tag is the same, at every moment
\* nobody is at the resource (PropPatchAsync, UpdateETagAsync).
THEOREM ETagTellsPropertiesHolds == Spec => []ETagTellsProperties
<1>1. Init => TagsInv
  BY DEF Init, TagsInv, Idle
<1>2. (Inv /\ ValuesInv) /\ (Inv /\ ValuesInv)' /\ TagsInv /\ [Next]_vars => TagsInv'
  <2> SUFFICES ASSUME Inv, Inv', ValuesInv, TagsInv, [Next]_vars  PROVE  TagsInv'
    OBVIOUS
  <2>1. CASE UNCHANGED vars
    <3>1. task' = task /\ store' = store /\ etag' = etag
      BY <2>1 DEF vars
    <3>2. /\ \A q \in Request : (Still(q)' <=> Still(q)) /\ Named(q)' = Named(q)
                                /\ (Accepted(q)' <=> Accepted(q))
          /\ Contested' = Contested
      <4>1. \A q \in Request : Named(q)' = Named(q)
        BY <3>1 DEF Named
      <4> QED  BY <3>1, <4>1 DEF Still, Accepted, HasError, IsSuccess, Contested
    <3>3. \A n : Busy(n)' <=> Busy(n)
      BY <3>2 DEF Busy
    <3> QED  BY <3>1, <3>2, <3>3 DEF TagsInv, TagTells, Replaces
  <2>2. ASSUME NEW p \in Request, StepOf(p)
        PROVE  TagsInv'
    BY <2>2, TagsStep
  <2> QED  BY <2>1, <2>2 DEF Next, StepOf
<1>3. Inv /\ ValuesInv /\ TagsInv => ETagTellsProperties
  <2> SUFFICES ASSUME TagsInv  PROVE  ETagTellsProperties
    OBVIOUS
  <2>1. \A r \in Request : Accepted(r) => task[r].before.etag < etag[0]
    BY DEF TagsInv, Replaces, Accepted
  <2>2. ASSUME \A r \in Request : Still(r),
               NEW r \in Request, task[r].pc = "answered", task[r].before.quiet,
               task[r].before.etag = etag[0], NEW n \in Shown \ Contested
        PROVE  Dead(store)[n] = Dead(task[r].before.store)[n]
    <3>1. TagTells(r) /\ ~ Busy(n)
      BY <2>2 DEF TagsInv, Busy
    <3> QED  BY <2>2, <3>1 DEF TagTells, Found
  <2> QED  BY <2>1, <2>2 DEF ETagTellsProperties
<1> QED  BY <1>1, <1>2, <1>3, ValuesHold, PTL DEF Spec
=============================================================================
