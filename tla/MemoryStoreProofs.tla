------------------------- MODULE MemoryStoreProofs -------------------------
(***************************************************************************)
(* The in-memory store is linearizable, for any number of callers and ids. *)
(* The invariant says that the holder of the mutex is the only one past    *)
(* its Lock; the other callers' steps are then steps of the abstract store *)
(* that concern their own record only, and the statements of the holder    *)
(* add up to one abstract operation each.                                  *)
(***************************************************************************)
EXTENDS MemoryStore, FiniteSetTheorems, TLAPS

USE MaxIdIsNat, CallersAreFinite

-----------------------------------------------------------------------------
(***************************************************************************)
(* Ids that are still to be drawn.                                         *)
(***************************************************************************)
LEMMA CreatingFinite == IsFiniteSet(Creating) /\ Cardinality(Creating) \in Nat
<1>1. Creating \subseteq Callers
  BY DEF Creating
<1>2. IsFiniteSet(Creating)
  BY <1>1, FS_Subset
<1>3. QED BY <1>2, FS_CardinalityType

\* The bound on ids survives a step after which nobody else is creating.
LEMMA NoNewCreate ==
    ASSUME IInv, Creating' \subseteq Creating, nextID' = nextID
    PROVE  nextID' + Cardinality(Creating') <= MaxId
<1>1. IsFiniteSet(Creating) /\ Cardinality(Creating) \in Nat
  BY CreatingFinite
<1>2. IsFiniteSet(Creating') /\ Cardinality(Creating') <= Cardinality(Creating)
  BY <1>1, FS_Subset
<1>3. Cardinality(Creating') \in Nat
  BY <1>2, FS_CardinalityType
<1>4. QED BY <1>1, <1>2, <1>3 DEF IInv

-----------------------------------------------------------------------------
(***************************************************************************)
(* The invariant.                                                          *)
(***************************************************************************)
\* A step of one caller that leaves the ids to be drawn, the next id and the
\* shape of the tables alone.
LEMMA CallerStep ==
    ASSUME IInv, NEW c \in Callers, NEW q, call' = [call EXCEPT ![c] = q],
           IsCall(q), nextID' = nextID,
           q.op = "Create" /\ q.pc \in {"lock", "body"} => c \in Creating,
           table' = [k \in Kinds |-> [i \in Ids |-> table'[k][i]]],
           mu' \in Callers \cup {Nil},
           mu' = c <=> q.pc \notin {"idle", "lock"},
           \A d \in Callers : d # c => (mu' = d <=> mu = d)
    PROVE  IInv'
<1>1. call = [d \in Callers |-> call[d]]
  BY DEF IInv
<1>2. call'[c] = q /\ \A d \in Callers : d # c => call'[d] = call[d]
  BY <1>1
<1>3. call' = [d \in Callers |-> call'[d]]
  BY <1>1
<1>4. ASSUME NEW d \in Callers
      PROVE  IsCall(call[d])' /\ (mu' = d <=> call'[d].pc \notin {"idle", "lock"})
  <2>1. CASE d = c
    BY <2>1, <1>2 DEF IsCall
  <2>2. CASE d # c
    BY <2>2, <1>2 DEF IInv, IsCall
  <2>3. QED BY <2>1, <2>2
<1>5. Creating' \subseteq Creating
  BY <1>2 DEF Creating
<1>6. nextID' + Cardinality(Creating') <= MaxId
  BY <1>5, NoNewCreate
<1>7. nextID' \in Nat
  BY DEF IInv
<1>8. QED BY <1>3, <1>4, <1>6, <1>7 DEF IInv

\* The records that the steps leave behind.
LEMMA SetPc ==
    ASSUME NEW r, IsCall(r), NEW p
    PROVE  [r EXCEPT !.pc = p] = [pc |-> p, op |-> r.op, kind |-> r.kind, id |-> r.id,
                                  arg |-> r.arg, out |-> r.out]
BY DEF IsCall

LEMMA SetPcAndId ==
    ASSUME NEW r, IsCall(r), NEW p, NEW i
    PROVE  [r EXCEPT !.pc = p, !.id = i] = [pc |-> p, op |-> r.op, kind |-> r.kind, id |-> i,
                                            arg |-> r.arg, out |-> r.out]
<1> DEFINE s == [r EXCEPT !.pc = p]
<1>1. s = [pc |-> p, op |-> r.op, kind |-> r.kind, id |-> r.id, arg |-> r.arg, out |-> r.out]
  BY SetPc
<1>2. [r EXCEPT !.pc = p, !.id = i] = [s EXCEPT !.id = i]
  OBVIOUS
<1> HIDE DEF s
<1>3. [s EXCEPT !.id = i] = [pc |-> p, op |-> r.op, kind |-> r.kind, id |-> i,
                             arg |-> r.arg, out |-> r.out]
  BY <1>1
<1>4. QED BY <1>2, <1>3

LEMMA SetPcAndOut ==
    ASSUME NEW r, IsCall(r), NEW p, NEW o
    PROVE  [r EXCEPT !.pc = p, !.out = o] = [pc |-> p, op |-> r.op, kind |-> r.kind, id |-> r.id,
                                             arg |-> r.arg, out |-> o]
<1> DEFINE s == [r EXCEPT !.pc = p]
<1>1. s = [pc |-> p, op |-> r.op, kind |-> r.kind, id |-> r.id, arg |-> r.arg, out |-> r.out]
  BY SetPc
<1>2. [r EXCEPT !.pc = p, !.out = o] = [s EXCEPT !.out = o]
  OBVIOUS
<1> HIDE DEF s
<1>3. [s EXCEPT !.out = o] = [pc |-> p, op |-> r.op, kind |-> r.kind, id |-> r.id,
                              arg |-> r.arg, out |-> o]
  BY <1>1
<1>4. QED BY <1>2, <1>3

LEMMA InitInv == Init => IInv
<1>1. SUFFICES ASSUME Init PROVE IInv
  OBVIOUS
<1>2. \A c \in Callers : IsCall(call[c]) /\ call[c].pc = "idle" /\ mu # c
  BY <1>1 DEF Init, IsCall, NoCall, Ops, Kinds, Ok
<1>3. Creating = {}
  BY <1>2 DEF Creating
<1>4. Cardinality(Creating) = 0
  BY <1>3, FS_EmptySet
<1>5. nextID + Cardinality(Creating) <= MaxId
  BY <1>1, <1>4 DEF Init
<1>6. QED BY <1>1, <1>2, <1>5 DEF Init, IInv

\* A method is called.
LEMMA CallInv == ASSUME IInv, NEW c \in Callers, Call(c) PROVE IInv'
<1>1. PICK op \in Ops, k \in Kinds : \E i \in Targets(op, k), a \in Arguments(op, k) :
        /\ op = "Create" => nextID + Cardinality(Creating) < MaxId
        /\ call' = [call EXCEPT ![c] = [pc |-> "lock", op |-> op, kind |-> k, id |-> i,
                                        arg |-> a, out |-> Ok({})]]
  BY DEF Call
<1>2. PICK i \in Targets(op, k), a \in Arguments(op, k) :
        /\ op = "Create" => nextID + Cardinality(Creating) < MaxId
        /\ call' = [call EXCEPT ![c] = [pc |-> "lock", op |-> op, kind |-> k, id |-> i,
                                        arg |-> a, out |-> Ok({})]]
  BY <1>1
<1> DEFINE q == [pc |-> "lock", op |-> op, kind |-> k, id |-> i, arg |-> a, out |-> Ok({})]
<1>3. op \in {"Get", "Update", "Delete"} => i \in Ids
  BY DEF Targets
<1>4. IsCall(q)'
  BY <1>3 DEF IsCall
<1>5. /\ call = [d \in Callers |-> call[d]]
      /\ mu # c
      /\ nextID' = nextID /\ mu' = mu /\ table' = table
  BY DEF IInv, Call, At
<1>6. call'[c] = q /\ \A d \in Callers : d # c => call'[d] = call[d]
  BY <1>2, <1>5
<1>7. ASSUME NEW d \in Callers
      PROVE  IsCall(call[d])' /\ (mu' = d <=> call'[d].pc \notin {"idle", "lock"})
  <2>1. CASE d = c
    BY <2>1, <1>4, <1>5, <1>6
  <2>2. CASE d # c
    BY <2>2, <1>5, <1>6 DEF IInv, IsCall
  <2>3. QED BY <2>1, <2>2
<1>8. nextID' + Cardinality(Creating') <= MaxId
  <2>1. CASE op = "Create"
    <3>1. Creating' \subseteq Creating \cup {c}
      BY <1>6 DEF Creating
    <3>2. /\ IsFiniteSet(Creating \cup {c})
          /\ Cardinality(Creating \cup {c}) <= Cardinality(Creating) + 1
      <4>1. IsFiniteSet(Creating) /\ Cardinality(Creating) \in Nat
        BY CreatingFinite
      <4>2. /\ IsFiniteSet(Creating \cup {c})
            /\ Cardinality(Creating \cup {c}) =
                 IF c \in Creating THEN Cardinality(Creating) ELSE Cardinality(Creating) + 1
        BY <4>1, FS_AddElement
      <4>3. QED BY <4>1, <4>2
    <3>3. Cardinality(Creating') <= Cardinality(Creating \cup {c})
      BY <3>1, <3>2, FS_Subset
    <3>4. Cardinality(Creating') \in Nat /\ Cardinality(Creating \cup {c}) \in Nat
      BY <3>1, <3>2, FS_Subset, FS_CardinalityType
    <3>5. QED BY <2>1, <1>2, <1>5, <3>2, <3>3, <3>4, CreatingFinite DEF IInv
  <2>2. CASE op # "Create"
    <3>1. Creating' \subseteq Creating
      BY <2>2, <1>6 DEF Creating
    <3>2. QED BY <3>1, <1>5, NoNewCreate
  <2>3. QED BY <2>1, <2>2
<1>9. call' = [d \in Callers |-> call'[d]]
  BY <1>2, <1>5
<1>10. QED BY <1>5, <1>7, <1>8, <1>9 DEF IInv

\* An id is drawn: only the holder of the mutex has one that is not yet used.
LEMMA GenIDInv ==
    ASSUME IInv, NEW c \in Callers, GenID(c)
    PROVE  IInv' /\ nextID + 1 \in Ids
<1> DEFINE q == [call[c] EXCEPT !.pc = "insert", !.id = nextID + 1]
<1>1. /\ call = [d \in Callers |-> call[d]]
      /\ IsCall(call[c]) /\ call[c].op = "Create" /\ call[c].pc = "body"
      /\ mu = c /\ mu' = mu /\ table' = table
      /\ nextID \in Nat /\ nextID' = nextID + 1
  BY DEF IInv, GenID, Body, At
<1>2. call' = [call EXCEPT ![c] = q]
  BY <1>1 DEF GenID
<1>3. q = [pc |-> "insert", op |-> "Create", kind |-> call[c].kind, id |-> nextID + 1,
           arg |-> call[c].arg, out |-> call[c].out]
  <2> HIDE DEF q
  <2>1. q = [pc |-> "insert", op |-> call[c].op, kind |-> call[c].kind, id |-> nextID + 1,
             arg |-> call[c].arg, out |-> call[c].out]
    BY <1>1, SetPcAndId DEF q
  <2>2. QED BY <1>1, <2>1
<1>4. call'[c] = q /\ \A d \in Callers : d # c => call'[d] = call[d]
  BY <1>1, <1>2
<1>5. c \in Creating /\ Creating' = Creating \ {c}
  BY <1>1, <1>3, <1>4 DEF Creating
<1>6. Cardinality(Creating') = Cardinality(Creating) - 1
  BY <1>5, CreatingFinite, FS_RemoveElement
<1>7. Cardinality(Creating') \in Nat
  BY <1>5, CreatingFinite, FS_RemoveElement, FS_CardinalityType
<1>8. nextID' + Cardinality(Creating') <= MaxId
  BY <1>1, <1>6, CreatingFinite DEF IInv
<1>9. nextID + 1 \in Ids
  BY <1>1, <1>7, <1>8 DEF Ids
<1>10. IsCall(call[c])'
  <2> HIDE DEF q
  <2>1. QED BY <1>1, <1>3, <1>4, <1>9 DEF IsCall, Ops
<1>11. ASSUME NEW d \in Callers
       PROVE  IsCall(call[d])' /\ (mu' = d <=> call'[d].pc \notin {"idle", "lock"})
  <2>1. CASE d = c
    <3> HIDE DEF q
    <3>1. call'[c].pc = "insert"
      BY <1>3, <1>4
    <3>2. QED BY <2>1, <1>1, <1>10, <3>1
  <2>2. CASE d # c
    <3>1. call[d].pc \in {"idle", "lock"} /\ IsCall(call[d])
      BY <2>2, <1>1 DEF IInv
    <3>2. IsCall(call[d])'
      BY <3>1, <2>2, <1>4 DEF IsCall
    <3>3. QED BY <3>1, <3>2, <2>2, <1>1, <1>4
  <2>3. QED BY <2>1, <2>2
<1>12. call' = [d \in Callers |-> call'[d]]
  BY <1>1, <1>2
<1>13. QED BY <1>1, <1>8, <1>9, <1>11, <1>12 DEF IInv

\* Every other statement.
LEMMA MethodInv ==
    ASSUME IInv, NEW c \in Callers, Method(c), ~GenID(c)
    PROVE  IInv'
<1> DEFINE r == call[c]
<1>1. /\ call = [d \in Callers |-> call[d]]
      /\ table = [k \in Kinds |-> [i \in Ids |-> table[k][i]]]
      /\ IsCall(r)
      /\ mu = c <=> r.pc \notin {"idle", "lock"}
      /\ mu \in Callers \cup {Nil}
  BY DEF IInv
<1>2. CASE Lock(c)
  <2>1. call' = [call EXCEPT ![c] = [r EXCEPT !.pc = "body"]]
    BY <1>1, <1>2 DEF Lock
  <2>2. call' = [call EXCEPT ![c] = [pc |-> "body", op |-> r.op, kind |-> r.kind, id |-> r.id,
                                     arg |-> r.arg, out |-> r.out]]
    BY <2>1, <1>1, SetPc
  <2>3. r.pc = "lock" /\ mu = Nil /\ mu' = c /\ table' = table /\ nextID' = nextID
    BY <1>2 DEF Lock, At
  <2>4. IsCall([pc |-> "body", op |-> r.op, kind |-> r.kind, id |-> r.id,
                arg |-> r.arg, out |-> r.out])
    BY <1>1, <2>3 DEF IsCall
  <2>5. r.op = "Create" => c \in Creating
    BY <2>3 DEF Creating
  <2>6. QED BY <1>1, <2>2, <2>3, <2>4, <2>5, CallerStep
<1>3. CASE Insert(c) \/ Absent(c) \/ Get(c) \/ List(c) \/ SetSecond(c) \/ Delete(c)
  <2>1. PICK out : Finish(c, out)
    BY <1>3 DEF Insert, Absent, Get, List, SetSecond, Delete
  <2>2. call' = [call EXCEPT ![c] = [r EXCEPT !.pc = "unlock", !.out = out]]
    BY <1>1, <2>1 DEF Finish
  <2>3. call' = [call EXCEPT ![c] = [pc |-> "unlock", op |-> r.op, kind |-> r.kind, id |-> r.id,
                                     arg |-> r.arg, out |-> out]]
    <3>1. [r EXCEPT !.pc = "unlock", !.out = out] =
            [pc |-> "unlock", op |-> r.op, kind |-> r.kind, id |-> r.id, arg |-> r.arg, out |-> out]
      BY <1>1, SetPcAndOut
    <3>2. QED BY <2>2, <3>1
  <2>4. r.pc \notin {"idle", "lock"} /\ mu = c /\ mu' = mu /\ nextID' = nextID
    BY <1>1, <1>3 DEF Insert, Absent, Get, List, SetSecond, Delete, Body, At
  <2>5. IsCall([pc |-> "unlock", op |-> r.op, kind |-> r.kind, id |-> r.id,
                arg |-> r.arg, out |-> out])
    BY <1>1, <2>4 DEF IsCall
  <2>6. table' = [k \in Kinds |-> [i \in Ids |-> table'[k][i]]]
    <3>1. CASE Absent(c) \/ Get(c) \/ List(c)
      BY <1>1, <3>1 DEF Absent, Get, List
    <3>2. CASE Insert(c) \/ SetSecond(c) \/ Delete(c)
      <4>1. PICK row : table' = [table EXCEPT ![r.kind][r.id] = row]
        BY <3>2 DEF Insert, SetSecond, Delete
      <4>2. QED BY <1>1, <4>1
    <3>3. QED BY <1>3, <3>1, <3>2
  <2>7. QED BY <1>1, <2>3, <2>4, <2>5, <2>6, CallerStep
<1>4. CASE SetFirst(c)
  <2>1. call' = [call EXCEPT ![c] = [r EXCEPT !.pc = "second"]]
    BY <1>1, <1>4 DEF SetFirst
  <2>2. call' = [call EXCEPT ![c] = [pc |-> "second", op |-> r.op, kind |-> r.kind, id |-> r.id,
                                     arg |-> r.arg, out |-> r.out]]
    BY <2>1, <1>1, SetPc
  <2>3. r.pc = "body" /\ r.op = "Update" /\ mu = c /\ mu' = mu /\ nextID' = nextID
    BY <1>1, <1>4 DEF SetFirst, Body, At
  <2>4. IsCall([pc |-> "second", op |-> r.op, kind |-> r.kind, id |-> r.id,
                arg |-> r.arg, out |-> r.out])
    BY <1>1, <2>3 DEF IsCall
  <2>5. table' = [k \in Kinds |-> [i \in Ids |-> table'[k][i]]]
    BY <1>1, <1>4 DEF SetFirst
  <2>6. QED BY <1>1, <2>2, <2>3, <2>4, <2>5, CallerStep
<1>5. CASE Unlock(c)
  <2>1. call' = [call EXCEPT ![c] = NoCall] /\ table' = table /\ nextID' = nextID
    BY <1>5 DEF Unlock
  <2>2. mu = c /\ mu' = Nil
    BY <1>1, <1>5 DEF Unlock, At
  <2>3. IsCall(NoCall) /\ NoCall.pc = "idle"
    BY DEF IsCall, NoCall, Ops, Kinds
  <2>4. QED BY <1>1, <2>1, <2>2, <2>3, CallerStep
<1>6. QED BY <1>2, <1>3, <1>4, <1>5 DEF Method

LEMMA StepInv == IInv /\ [Next]_vars => IInv'
<1>1. SUFFICES ASSUME IInv, [Next]_vars PROVE IInv'
  OBVIOUS
<1>2. CASE UNCHANGED vars
  BY <1>1, <1>2 DEF vars, IInv, IsCall, Creating
<1>3. ASSUME NEW c \in Callers, Call(c) \/ Method(c) PROVE IInv'
  BY <1>1, <1>3, CallInv, GenIDInv, MethodInv
<1>4. QED BY <1>1, <1>2, <1>3 DEF Next

\* Between its Lock and its Unlock a goroutine is alone in the store, and an id
\* that it has drawn is the last one.
THEOREM Invariant == Spec => []IInv
BY InitInv, StepInv, PTL DEF Spec

-----------------------------------------------------------------------------
(***************************************************************************)
(* Linearizability.                                                        *)
(***************************************************************************)
SpecVars == <<SpecTable, SpecUsed, SpecCall>>

\* What the abstract store sees of a call record.
View(st, q, result) ==
    [st |-> st, op |-> q.op, kind |-> q.kind, id |-> IF q.op = "Create" THEN Nil ELSE q.id,
     arg |-> q.arg, result |-> result]

LEMMA ViewIsFunction == SpecCall = [d \in Callers |-> SpecCall[d]]
BY DEF SpecCall

LEMMA ViewBefore ==
    ASSUME NEW c \in Callers, ~At(c, "second")
    PROVE  SpecCall[c] = View(SpecStatus(call[c].pc), call[c], call[c].out)
BY DEF SpecCall, View, At

LEMMA ViewAfter ==
    ASSUME NEW c \in Callers, ~At(c, "second")'
    PROVE  SpecCall'[c] = View(SpecStatus(call'[c].pc), call'[c], call'[c].out)
BY DEF SpecCall, View, At, SpecStatus

LEMMA ViewInUpdate ==
    ASSUME NEW c \in Callers, call'[c].pc = "second"
    PROVE  SpecCall'[c] = View("done", call'[c],
                               Ok({<<call'[c].id, Assign(Row(c)', call'[c].arg,
                                                         Second(call'[c].kind))>>}))
BY DEF SpecCall, View, SpecStatus

\* Nobody past its Lock: the abstract store is the concrete one.
LEMMA FreeView ==
    ASSUME mu = Nil
    PROVE  SpecTable = table /\ SpecUsed = 1..nextID
BY DEF SpecTable, SpecUsed, Holder

LEMMA HolderView ==
    ASSUME NEW c \in Callers, mu = c
    PROVE  /\ ~At(c, "second") => SpecTable = table
           /\ ~At(c, "insert") => SpecUsed = 1..nextID
           /\ At(c, "insert") => SpecUsed = (1..nextID) \ {call[c].id}
           /\ At(c, "second") => SpecTable = [table EXCEPT ![call[c].kind][call[c].id] =
                                     Assign(Row(c), call[c].arg, Second(call[c].kind))]
<1>1. mu # Nil
  BY CallersAreFinite
<1>2. QED BY <1>1 DEF SpecTable, SpecUsed, Holder

LEMMA HolderViewAfter ==
    ASSUME NEW c \in Callers, mu' = c
    PROVE  /\ ~At(c, "second")' => SpecTable' = table'
           /\ ~At(c, "insert")' => SpecUsed' = 1..(nextID')
           /\ At(c, "insert")' => SpecUsed' = (1..(nextID')) \ {call'[c].id}
           /\ At(c, "second")' => SpecTable' = [table' EXCEPT ![call'[c].kind][call'[c].id] =
                                     Assign(Row(c)', call'[c].arg, Second(call'[c].kind))]
<1>1. mu' # Nil
  BY CallersAreFinite
<1>2. QED BY <1>1 DEF SpecTable, SpecUsed, Holder, At, Row, Assign, Second

\* A step of c changes the record of c only: another caller is in the middle of
\* an update only while c has no table to write to.
LEMMA OthersKeepView ==
    ASSUME IInv, NEW c \in Callers, NEW q, call' = [call EXCEPT ![c] = q],
           mu = c \/ table' = table
    PROVE  /\ call'[c] = q
           /\ SpecCall' = [SpecCall EXCEPT ![c] = SpecCall'[c]]
<1>1. call = [d \in Callers |-> call[d]]
  BY DEF IInv
<1>2. call'[c] = q /\ \A d \in Callers : d # c => call'[d] = call[d]
  BY <1>1
<1>3. ASSUME NEW d \in Callers, d # c PROVE SpecCall'[d] = SpecCall[d]
  <2>1. CASE At(d, "second")
    <3>1. mu = d
      BY <2>1 DEF IInv, At
    <3>2. table' = table /\ call'[d] = call[d]
      BY <3>1, <1>2, <1>3
    <3>3. QED BY <3>2 DEF SpecCall, Row
  <2>2. CASE ~At(d, "second")
    <3>1. call'[d] = call[d] /\ ~At(d, "second")'
      BY <2>2, <1>2, <1>3 DEF At
    <3>2. SpecCall[d] = View(SpecStatus(call[d].pc), call[d], call[d].out)
      BY <2>2, ViewBefore
    <3>3. SpecCall'[d] = View(SpecStatus(call'[d].pc), call'[d], call'[d].out)
      BY <3>1, ViewAfter
    <3>4. QED BY <3>1, <3>2, <3>3
  <2>3. QED BY <2>1, <2>2
<1>4. SpecCall = [d \in Callers |-> SpecCall[d]] /\ SpecCall' = [d \in Callers |-> SpecCall'[d]]
  BY DEF SpecCall
<1>5. QED BY <1>2, <1>3, <1>4

\* The abstract store has performed the call of c.
LEMMA DoneView ==
    ASSUME NEW c \in Callers, NEW st, NEW q, NEW old, NEW result,
           SpecCall[c] = View(st, q, old),
           SpecCall' = [SpecCall EXCEPT ![c] = View("done", q, result)]
    PROVE  Atomic!Done(c, result)
<1> DEFINE v == SpecCall[c]
           s == [v EXCEPT !.st = "done"]
<1>1. s = View("done", q, old)
  BY DEF View
<1>2. [v EXCEPT !.st = "done", !.result = result] = [s EXCEPT !.result = result]
  OBVIOUS
<1>3. [s EXCEPT !.result = result] = View("done", q, result)
  <2> HIDE DEF s
  <2>1. QED BY <1>1 DEF View
<1>4. SpecCall = [d \in Callers |-> SpecCall[d]]
  BY DEF SpecCall
<1>5. [SpecCall EXCEPT ![c].st = "done", ![c].result = result] =
        [SpecCall EXCEPT ![c] = [v EXCEPT !.st = "done", !.result = result]]
  BY <1>4
<1>6. QED BY <1>2, <1>3, <1>5 DEF Atomic!Done

LEMMA CallIsCall ==
    ASSUME IInv, NEW c \in Callers, Call(c)
    PROVE  Atomic!Call(c)
<1>1. PICK op \in Ops, k \in Kinds : \E i \in Targets(op, k), a \in Arguments(op, k) :
        call' = [call EXCEPT ![c] = [pc |-> "lock", op |-> op, kind |-> k, id |-> i,
                                     arg |-> a, out |-> Ok({})]]
  BY DEF Call
<1>2. PICK i \in Targets(op, k), a \in Arguments(op, k) :
        call' = [call EXCEPT ![c] = [pc |-> "lock", op |-> op, kind |-> k, id |-> i,
                                     arg |-> a, out |-> Ok({})]]
  BY <1>1
<1> DEFINE q == [pc |-> "lock", op |-> op, kind |-> k, id |-> i, arg |-> a, out |-> Ok({})]
<1>3. call[c].pc = "idle" /\ table' = table /\ nextID' = nextID /\ mu' = mu
  BY DEF Call, At
<1>4. call'[c] = q /\ SpecCall' = [SpecCall EXCEPT ![c] = SpecCall'[c]]
  BY <1>2, <1>3, OthersKeepView
<1>5. SpecCall[c] = View("idle", call[c], call[c].out)
  BY <1>3, ViewBefore DEF At, SpecStatus
<1>6. SpecCall'[c] = [st |-> "called", op |-> op, kind |-> k, id |-> i, arg |-> a,
                      result |-> Atomic!NoResult]
  <2>1. SpecCall'[c] = View("called", q, Ok({}))
    BY <1>4, ViewAfter DEF At, SpecStatus
  <2>2. op = "Create" => i = Nil
    BY DEF Targets
  <2>3. QED BY <2>1, <2>2 DEF View, Ok, Atomic!NoResult
<1>7. SpecTable' = SpecTable /\ SpecUsed' = SpecUsed
  <2>1. \A d \in Callers : d # c => call'[d] = call[d]
    BY <1>2 DEF IInv
  <2>2. mu # c /\ mu \in Callers \cup {Nil}
    BY <1>3 DEF IInv
  <2>3. CASE mu = Nil
    BY <1>3, <2>3 DEF SpecTable, SpecUsed, Holder
  <2>4. CASE mu # Nil
    <3>1. mu \in Callers /\ call'[mu] = call[mu]
      BY <2>1, <2>2, <2>4
    <3>2. QED BY <3>1, <1>3 DEF SpecTable, SpecUsed, Holder, At, Row
  <2>5. QED BY <2>3, <2>4
<1>8. /\ op \in Atomic!Ops /\ k \in Atomic!Kinds
      /\ i \in Atomic!Targets(op, k) /\ a \in Atomic!Arguments(op, k)
  BY DEF Targets, Arguments, Atomic!Targets, Atomic!Arguments, Ops, Kinds, Atomic!Ops, Atomic!Kinds
<1>9. SpecCall' = [SpecCall EXCEPT ![c] = [st |-> "called", op |-> op, kind |-> k, id |-> i,
                                           arg |-> a, result |-> Atomic!NoResult]]
  BY <1>4, <1>6
<1>10. SpecCall[c].st = "idle"
  BY <1>5 DEF View
<1>11. QED BY <1>7, <1>8, <1>9, <1>10 DEF Atomic!Call

\* Before its statement that counts and after it, the holder is not seen.
LEMMA LockIsStutter ==
    ASSUME IInv, NEW c \in Callers, Lock(c)
    PROVE  UNCHANGED SpecVars
<1> DEFINE r == call[c]
<1>1. call[c].pc = "lock" /\ mu = Nil /\ mu' = c /\ table' = table /\ nextID' = nextID
  BY DEF Lock, At
<1>2. call' = [call EXCEPT ![c] = [pc |-> "body", op |-> r.op, kind |-> r.kind, id |-> r.id,
                                   arg |-> r.arg, out |-> r.out]]
  <2>1. call' = [call EXCEPT ![c] = [r EXCEPT !.pc = "body"]]
    BY DEF Lock, IInv
  <2>2. QED BY <2>1, SetPc DEF IInv
<1>3. /\ call'[c] = [pc |-> "body", op |-> r.op, kind |-> r.kind, id |-> r.id,
                     arg |-> r.arg, out |-> r.out]
      /\ SpecCall' = [SpecCall EXCEPT ![c] = SpecCall'[c]]
  BY <1>1, <1>2, OthersKeepView
<1>4. SpecCall[c] = View("called", r, r.out)
  BY <1>1, ViewBefore DEF At, SpecStatus
<1>5. SpecCall'[c] = View("called", r, r.out)
  <2>1. SpecCall'[c] = View("called", call'[c], call'[c].out)
    BY <1>3, ViewAfter DEF At, SpecStatus
  <2>2. QED BY <1>3, <2>1 DEF View
<1>6. SpecCall' = SpecCall
  BY <1>3, <1>4, <1>5, ViewIsFunction
<1>7. SpecTable' = SpecTable /\ SpecUsed' = SpecUsed
  <2>1. ~At(c, "second")' /\ ~At(c, "insert")'
    BY <1>3 DEF At
  <2>2. QED BY <1>1, <2>1, FreeView, HolderViewAfter
<1>8. QED BY <1>6, <1>7 DEF SpecVars

LEMMA GenIDIsStutter ==
    ASSUME IInv, NEW c \in Callers, GenID(c)
    PROVE  UNCHANGED SpecVars
<1> DEFINE r == call[c]
<1>1. /\ r.pc = "body" /\ r.op = "Create" /\ mu = c /\ mu' = mu /\ table' = table
      /\ nextID \in Nat /\ nextID' = nextID + 1
  BY DEF IInv, GenID, Body, At
<1>2. call' = [call EXCEPT ![c] = [pc |-> "insert", op |-> r.op, kind |-> r.kind,
                                   id |-> nextID + 1, arg |-> r.arg, out |-> r.out]]
  <2>1. call' = [call EXCEPT ![c] = [r EXCEPT !.pc = "insert", !.id = nextID + 1]]
    BY DEF GenID, IInv
  <2>2. [r EXCEPT !.pc = "insert", !.id = nextID + 1] =
          [pc |-> "insert", op |-> r.op, kind |-> r.kind, id |-> nextID + 1,
           arg |-> r.arg, out |-> r.out]
    BY SetPcAndId DEF IInv
  <2>3. QED BY <2>1, <2>2
<1>3. /\ call'[c] = [pc |-> "insert", op |-> r.op, kind |-> r.kind, id |-> nextID + 1,
                     arg |-> r.arg, out |-> r.out]
      /\ SpecCall' = [SpecCall EXCEPT ![c] = SpecCall'[c]]
  BY <1>1, <1>2, OthersKeepView
<1>4. SpecCall[c] = View("called", r, r.out)
  BY <1>1, ViewBefore DEF At, SpecStatus
<1>5. SpecCall'[c] = View("called", r, r.out)
  <2>1. SpecCall'[c] = View("called", call'[c], call'[c].out)
    BY <1>3, ViewAfter DEF At, SpecStatus
  <2>2. QED BY <1>1, <1>3, <2>1 DEF View
<1>6. SpecCall' = SpecCall
  BY <1>3, <1>4, <1>5, ViewIsFunction
<1>a. /\ ~At(c, "second") /\ ~At(c, "insert")
      /\ ~At(c, "second")' /\ At(c, "insert")' /\ call'[c].id = nextID + 1
  BY <1>1, <1>3 DEF At
<1>7. SpecTable' = SpecTable
  BY <1>1, <1>a, HolderView, HolderViewAfter
<1>8. SpecUsed' = SpecUsed
  <2>1. SpecUsed = 1..nextID
    BY <1>1, <1>a, HolderView
  <2>2. SpecUsed' = (1..(nextID + 1)) \ {nextID + 1}
    BY <1>1, <1>a, HolderViewAfter
  <2>3. (1..(nextID + 1)) \ {nextID + 1} = 1..nextID
    BY <1>1
  <2>4. QED BY <2>1, <2>2, <2>3
<1>9. QED BY <1>6, <1>7, <1>8 DEF SpecVars

\* A statement that ends the body of the method of c, and what is then seen.
LEMMA FinishView ==
    ASSUME IInv, IInv', NEW c \in Callers, NEW out, Finish(c, out),
           call[c].pc \notin {"idle", "lock"}, mu' = mu
    PROVE  /\ mu = c /\ mu' = c
           /\ ~At(c, "second")' /\ ~At(c, "insert")'
           /\ SpecCall' = [SpecCall EXCEPT ![c] = View("done", call[c], out)]
<1> DEFINE r == call[c]
<1>1. mu = c /\ mu' = c
  BY DEF IInv
<1>2. call' = [call EXCEPT ![c] = [pc |-> "unlock", op |-> r.op, kind |-> r.kind, id |-> r.id,
                                   arg |-> r.arg, out |-> out]]
  <2>1. call' = [call EXCEPT ![c] = [r EXCEPT !.pc = "unlock", !.out = out]]
    BY DEF Finish, IInv
  <2>2. [r EXCEPT !.pc = "unlock", !.out = out] =
          [pc |-> "unlock", op |-> r.op, kind |-> r.kind, id |-> r.id, arg |-> r.arg, out |-> out]
    BY SetPcAndOut DEF IInv
  <2>3. QED BY <2>1, <2>2
<1>3. /\ call'[c] = [pc |-> "unlock", op |-> r.op, kind |-> r.kind, id |-> r.id,
                     arg |-> r.arg, out |-> out]
      /\ SpecCall' = [SpecCall EXCEPT ![c] = SpecCall'[c]]
  BY <1>1, <1>2, OthersKeepView
<1>4. SpecCall'[c] = View("done", r, out)
  <2>1. SpecCall'[c] = View("done", call'[c], out)
    BY <1>3, ViewAfter DEF At, SpecStatus
  <2>2. QED BY <1>3, <2>1 DEF View
<1>5. QED BY <1>1, <1>3, <1>4 DEF At

\* What the abstract store knows of a call that it is about to perform.
LEMMA CalledView ==
    ASSUME IInv, NEW c \in Callers, call[c].pc \in {"body", "insert"}
    PROVE  /\ SpecCall[c] = View("called", call[c], call[c].out)
           /\ SpecCall[c].st = "called"
           /\ SpecCall[c].op = call[c].op
           /\ SpecCall[c].kind = call[c].kind
           /\ SpecCall[c].arg = call[c].arg
           /\ call[c].op # "Create" => SpecCall[c].id = call[c].id
<1>1. SpecCall[c] = View("called", call[c], call[c].out)
  BY ViewBefore DEF At, SpecStatus
<1>2. QED BY <1>1 DEF View

LEMMA InsertIsCreate ==
    ASSUME IInv, IInv', NEW c \in Callers, Insert(c)
    PROVE  Atomic!Perform(c)
<1> DEFINE r == call[c]
           out == Ok({<<r.id, r.arg>>})
<1>1. /\ r.pc = "insert" /\ r.op = "Create" /\ r.id = nextID /\ r.id \in Ids
      /\ mu' = mu /\ nextID' = nextID
      /\ table' = [table EXCEPT ![r.kind][r.id] = r.arg]
      /\ Finish(c, out)
  BY DEF Insert, At, IInv, IsCall
<1>2. /\ mu = c /\ mu' = c
      /\ ~At(c, "second")' /\ ~At(c, "insert")'
      /\ SpecCall' = [SpecCall EXCEPT ![c] = View("done", r, out)]
  BY <1>1, FinishView
<1>3. Atomic!Done(c, out)
  <2>1. SpecCall[c] = View("called", r, r.out)
    BY <1>1, CalledView
  <2>2. QED BY <1>2, <2>1, DoneView
<1>4. /\ SpecTable = table /\ SpecTable' = table'
      /\ SpecUsed = (1..nextID) \ {r.id} /\ SpecUsed' = 1..nextID
  BY <1>1, <1>2, HolderView, HolderViewAfter DEF At
<1>5. r.id \in Ids \ SpecUsed /\ SpecUsed' = SpecUsed \cup {r.id}
  BY <1>1, <1>4 DEF Ids
<1>6. /\ SpecCall[c].st = "called" /\ SpecCall[c].op = "Create"
      /\ SpecCall[c].kind = r.kind /\ SpecCall[c].arg = r.arg
  BY <1>1, CalledView
<1>7. Atomic!Put(r.kind, r.id, r.arg)
  BY <1>1, <1>4 DEF Atomic!Put
<1>8. Atomic!Create(c)
  BY <1>3, <1>5, <1>6, <1>7 DEF Atomic!Create, Ok
<1>9. QED BY <1>6, <1>8 DEF Atomic!Perform

\* Statements that read, and the delete.
LEMMA ReadOrDelete ==
    ASSUME IInv, IInv', NEW c \in Callers, Absent(c) \/ Get(c) \/ List(c) \/ Delete(c)
    PROVE  Atomic!Perform(c)
<1> DEFINE r == call[c]
<1>1. /\ r.pc = "body" /\ r.op # "Create" /\ mu' = mu /\ nextID' = nextID
      /\ r.op \in {"Get", "Update", "Delete"} => r.id \in Ids
      /\ r.kind \in Kinds
      /\ table = [k \in Kinds |-> [i \in Ids |-> table[k][i]]]
  BY DEF Absent, Get, List, Delete, Body, At, IInv, IsCall
<1>2. PICK out : Finish(c, out)
  BY DEF Absent, Get, List, Delete
<1>3. /\ mu = c /\ mu' = c
      /\ ~At(c, "second")' /\ ~At(c, "insert")'
  BY <1>1, <1>2, FinishView
<1>4. /\ SpecTable = table /\ SpecTable' = table' /\ SpecUsed' = SpecUsed
  BY <1>1, <1>3, HolderView, HolderViewAfter DEF At
<1>5. ASSUME NEW o, Finish(c, o) PROVE Atomic!Done(c, o)
  <2>1. SpecCall' = [SpecCall EXCEPT ![c] = View("done", r, o)]
    BY <1>1, <1>5, FinishView
  <2>2. SpecCall[c] = View("called", r, r.out)
    BY <1>1, CalledView
  <2>3. QED BY <2>1, <2>2, DoneView
<1>6. /\ SpecCall[c].st = "called" /\ SpecCall[c].op = r.op /\ SpecCall[c].kind = r.kind
      /\ SpecCall[c].id = r.id
  BY <1>1, CalledView
<1>7. CASE Absent(c)
  <2>1. Atomic!Done(c, NotFound) /\ table' = table /\ table[r.kind][r.id] = Nil
        /\ r.op \in {"Get", "Update", "Delete"}
    BY <1>5, <1>7 DEF Absent, Row
  <2>2. Atomic!Missing(c)
    BY <1>4, <1>6, <2>1 DEF Atomic!Missing, Atomic!NotFound, NotFound
  <2>3. QED BY <1>6, <2>2 DEF Atomic!Perform
<1>8. CASE Get(c)
  <2>1. /\ r.op = "Get" /\ table[r.kind][r.id] # Nil /\ table' = table
        /\ Atomic!Done(c, [ok |-> TRUE, rows |-> {<<r.id, table[r.kind][r.id]>>}])
    BY <1>5, <1>8 DEF Get, Body, Row, Ok
  <2>2. Atomic!Get(c)
    BY <1>4, <1>6, <2>1 DEF Atomic!Get, Atomic!Found
  <2>3. QED BY <1>6, <2>2 DEF Atomic!Perform
<1>9. CASE List(c)
  <2>1. r.op = "List" /\ table' = table
    BY <1>9 DEF List, Body
  <2>2. Atomic!Done(c, [ok |-> TRUE, rows |-> Atomic!Listing(r.kind, r.id)])
    <3>1. Finish(c, [ok |-> TRUE, rows |-> Atomic!Listing(r.kind, r.id)])
      BY <1>4, <1>9 DEF List, Ok, Atomic!Listing
    <3>2. QED BY <1>5, <3>1
  <2>3. Atomic!List(c)
    BY <1>4, <1>6, <2>1, <2>2 DEF Atomic!List
  <2>4. QED BY <1>6, <2>3 DEF Atomic!Perform
<1>10. CASE Delete(c)
  <2>1. /\ r.op = "Delete" /\ table[r.kind][r.id] # Nil
        /\ table' = [table EXCEPT ![r.kind][r.id] = Nil]
        /\ Atomic!Done(c, Atomic!NoResult)
    BY <1>5, <1>10 DEF Delete, Body, Row, Ok, Atomic!NoResult
  <2>2. Atomic!Delete(c)
    BY <1>4, <1>6, <2>1 DEF Atomic!Delete, Atomic!Found, Atomic!Put
  <2>3. QED BY <1>6, <2>2 DEF Atomic!Perform
<1>11. QED BY <1>7, <1>8, <1>9, <1>10

\* The first assignment of an update is the moment it takes effect.
LEMMA SetFirstIsUpdate ==
    ASSUME IInv, IInv', NEW c \in Callers, SetFirst(c)
    PROVE  Atomic!Perform(c)
<1> DEFINE r == call[c]
           k == r.kind
           i == r.id
           half == Assign(table[k][i], r.arg, First(k))
           row == Assign(half, r.arg, Second(k))
<1>1. /\ r.pc = "body" /\ r.op = "Update" /\ mu = c /\ mu' = c /\ nextID' = nextID
      /\ i \in Ids /\ k \in Kinds /\ table[k][i] # Nil
      /\ table = [x \in Kinds |-> [j \in Ids |-> table[x][j]]]
      /\ table' = [table EXCEPT ![k][i] = half]
  BY DEF SetFirst, Body, At, IInv, IsCall, Row
<1>2. call' = [call EXCEPT ![c] = [pc |-> "second", op |-> r.op, kind |-> k, id |-> i,
                                   arg |-> r.arg, out |-> r.out]]
  <2>1. call' = [call EXCEPT ![c] = [r EXCEPT !.pc = "second"]]
    BY DEF SetFirst, IInv
  <2>2. [r EXCEPT !.pc = "second"] = [pc |-> "second", op |-> r.op, kind |-> k, id |-> i,
                                      arg |-> r.arg, out |-> r.out]
    BY SetPc DEF IInv
  <2>3. QED BY <2>1, <2>2
<1>3. /\ call'[c] = [pc |-> "second", op |-> r.op, kind |-> k, id |-> i,
                     arg |-> r.arg, out |-> r.out]
      /\ SpecCall' = [SpecCall EXCEPT ![c] = SpecCall'[c]]
  BY <1>1, <1>2, OthersKeepView
<1>4. table'[k][i] = half
  BY <1>1
<1>5. Row(c)' = half
  BY <1>3, <1>4 DEF Row
<1>6. SpecCall'[c] = View("done", r, Ok({<<i, row>>}))
  <2>1. SpecCall'[c] = View("done", call'[c],
                            Ok({<<call'[c].id, Assign(Row(c)', call'[c].arg,
                                                      Second(call'[c].kind))>>}))
    <3>1. call'[c].pc = "second" /\ call'[c].op # "Create"
      BY <1>1, <1>3
    <3>2. QED BY <3>1, ViewInUpdate
  <2>2. QED BY <1>3, <1>5, <2>1 DEF View
<1>7. Atomic!Done(c, [ok |-> TRUE, rows |-> {<<i, row>>}])
  <2>1. SpecCall' = [SpecCall EXCEPT ![c] = View("done", r, Ok({<<i, row>>}))]
    BY <1>3, <1>6
  <2>2. SpecCall[c] = View("called", r, r.out)
    BY <1>1, CalledView
  <2> HIDE DEF row
  <2>3. Atomic!Done(c, Ok({<<i, row>>}))
    BY <2>1, <2>2, DoneView
  <2>4. QED BY <2>3 DEF Ok
<1>a. /\ ~At(c, "second") /\ ~At(c, "insert")
      /\ At(c, "second")' /\ ~At(c, "insert")'
      /\ call'[c].kind = k /\ call'[c].id = i /\ call'[c].arg = r.arg
  BY <1>1, <1>3 DEF At
<1>8. SpecTable = table /\ SpecUsed' = SpecUsed
  BY <1>1, <1>a, HolderView, HolderViewAfter
<1>9. SpecTable' = [table EXCEPT ![k][i] = row]
  <2>1. SpecTable' = [table' EXCEPT ![k][i] = row]
    <3>1. SpecTable' = [table' EXCEPT ![call'[c].kind][call'[c].id] =
                          Assign(Row(c)', call'[c].arg, Second(call'[c].kind))]
      BY <1>1, <1>a, HolderViewAfter
    <3>2. QED BY <3>1, <1>a, <1>5
  <2>2. QED BY <1>1, <2>1
<1>10. /\ SpecCall[c].st = "called" /\ SpecCall[c].op = "Update" /\ SpecCall[c].kind = k
       /\ SpecCall[c].id = i /\ SpecCall[c].arg = r.arg
  BY <1>1, CalledView
<1>11. row = Atomic!Apply(k, SpecTable[k][i], r.arg)
  BY <1>8 DEF Assign, First, Second, Atomic!Apply, Atomic!SetField, Atomic!Field1, Atomic!Field2
<1>12. Atomic!Update(c)
  BY <1>1, <1>7, <1>8, <1>9, <1>10, <1>11 DEF Atomic!Update, Atomic!Found, Atomic!Put
<1>13. QED BY <1>10, <1>12 DEF Atomic!Perform

\* The second assignment has been seen already.
LEMMA SetSecondIsStutter ==
    ASSUME IInv, IInv', NEW c \in Callers, SetSecond(c)
    PROVE  UNCHANGED SpecVars
<1> DEFINE r == call[c]
           row == Assign(Row(c), r.arg, Second(r.kind))
<1>1. /\ r.pc = "second" /\ r.op = "Update" /\ mu' = mu /\ nextID' = nextID
      /\ table' = [table EXCEPT ![r.kind][r.id] = row]
      /\ Finish(c, Ok({<<r.id, row>>}))
  BY DEF SetSecond, At, IInv, IsCall
<1>2. /\ mu = c /\ mu' = c
      /\ ~At(c, "second")' /\ ~At(c, "insert")'
      /\ SpecCall' = [SpecCall EXCEPT ![c] = View("done", r, Ok({<<r.id, row>>}))]
  BY <1>1, FinishView
<1>3. SpecCall[c] = View("done", r, Ok({<<r.id, row>>}))
  BY <1>1 DEF SpecCall, View, SpecStatus
<1>4. SpecCall' = SpecCall
  BY <1>2, <1>3, ViewIsFunction
<1>5. SpecTable' = SpecTable /\ SpecUsed' = SpecUsed
  BY <1>1, <1>2, HolderView, HolderViewAfter DEF At
<1>6. QED BY <1>4, <1>5 DEF SpecVars

LEMMA UnlockIsReturn ==
    ASSUME IInv, NEW c \in Callers, Unlock(c)
    PROVE  Atomic!Return(c)
<1>1. /\ call[c].pc = "unlock" /\ mu = c /\ mu' = Nil /\ table' = table /\ nextID' = nextID
      /\ call' = [call EXCEPT ![c] = NoCall]
  BY DEF Unlock, At, IInv
<1>2. call'[c] = NoCall /\ SpecCall' = [SpecCall EXCEPT ![c] = SpecCall'[c]]
  BY <1>1, OthersKeepView
<1>3. SpecCall[c].st = "done"
  <2>1. SpecCall[c] = View("done", call[c], call[c].out)
    BY <1>1, ViewBefore DEF At, SpecStatus
  <2>2. QED BY <2>1 DEF View
<1>4. SpecCall'[c] = Atomic!NoCall
  <2>1. SpecCall'[c] = View("idle", NoCall, NoCall.out)
    BY <1>2, ViewAfter DEF At, SpecStatus, NoCall
  <2>2. QED BY <2>1 DEF View, NoCall, Ok, Atomic!NoCall, Atomic!NoResult
<1>5. SpecTable = table /\ SpecUsed = 1..nextID
  BY <1>1, HolderView DEF At
<1>6. SpecTable' = table' /\ SpecUsed' = 1..(nextID')
  BY <1>1 DEF SpecTable, SpecUsed, Holder
<1>7. QED BY <1>1, <1>2, <1>3, <1>4, <1>5, <1>6 DEF Atomic!Return

\* Every method of the memory store behaves as if it ran at one moment between
\* its call and its return, however many goroutines are in the store.
THEOREM MemoryIsLinearizable == Spec => Linearizable
<1>1. Init => Atomic!Init
  <2>1. SUFFICES ASSUME Init PROVE Atomic!Init
    OBVIOUS
  <2>2. SpecTable = table /\ SpecUsed = 1..0
    BY <2>1, FreeView DEF Init
  <2>3. ASSUME NEW c \in Callers PROVE SpecCall[c] = Atomic!NoCall
    <3>1. call[c] = NoCall
      BY <2>1 DEF Init
    <3>2. SpecCall[c] = View("idle", NoCall, NoCall.out)
      BY <3>1, ViewBefore DEF At, SpecStatus, NoCall
    <3>3. QED BY <3>2 DEF View, NoCall, Ok, Atomic!NoCall, Atomic!NoResult
  <2>4. SpecCall = [c \in Callers |-> Atomic!NoCall]
    BY <2>3, ViewIsFunction
  <2>5. SpecUsed = {}
    BY <2>2
  <2>6. QED BY <2>1, <2>2, <2>4, <2>5 DEF Init, Atomic!Init, Kinds, Atomic!Kinds
<1>2. IInv /\ IInv' /\ [Next]_vars => [Atomic!Next]_SpecVars
  <2>1. SUFFICES ASSUME IInv, IInv', [Next]_vars PROVE [Atomic!Next]_SpecVars
    OBVIOUS
  <2>2. ASSUME NEW c \in Callers, Call(c) \/ Method(c)
        PROVE  Atomic!Next \/ UNCHANGED SpecVars
    <3>1. CASE Call(c)
      BY <2>1, <3>1, CallIsCall DEF Atomic!Next
    <3>2. CASE Lock(c) \/ GenID(c) \/ SetSecond(c)
      BY <2>1, <3>2, LockIsStutter, GenIDIsStutter, SetSecondIsStutter
    <3>3. CASE Insert(c) \/ Absent(c) \/ Get(c) \/ List(c) \/ Delete(c) \/ SetFirst(c)
      BY <2>1, <3>3, InsertIsCreate, ReadOrDelete, SetFirstIsUpdate DEF Atomic!Next
    <3>4. CASE Unlock(c)
      BY <2>1, <3>4, UnlockIsReturn DEF Atomic!Next
    <3>5. QED BY <2>2, <3>1, <3>2, <3>3, <3>4 DEF Method
  <2>3. CASE UNCHANGED vars
    BY <2>3 DEF vars, SpecVars, SpecTable, SpecUsed, SpecCall, Holder, At, Row
  <2>4. QED BY <2>1, <2>2, <2>3 DEF Next
<1>3. IInv /\ IInv' /\ [Next]_vars => [Atomic!Next]_<<SpecTable, SpecUsed, SpecCall>>
  BY <1>2 DEF SpecVars
<1>4. QED
  BY <1>1, <1>3, InitInv, StepInv, PTL DEF Spec, Linearizable, Atomic!Spec, Atomic!specVars

-----------------------------------------------------------------------------
(***************************************************************************)
(* The two tables.  They are seen as they are, not as the abstract store   *)
(* above sees them: half an update is a row as well, and changes neither   *)
(* whose the row is nor what it belongs to.                                *)
(***************************************************************************)
Columns(k) == IF k = "book" THEN {"author"} ELSE {"book", "reviewer"}

\* What a call brings along for its Insert or its assignments.
Carries(q) ==
    /\ q.op = "Create" /\ q.pc \in {"lock", "body", "insert"} => q.arg \in Rows[q.kind]
    /\ q.op = "Update" /\ q.pc \in {"lock", "body", "second"} => q.arg \in Updates[q.kind]

\* A row has an id that was handed out, and is still there for the second
\* assignment of an update.
RowInv ==
    /\ \A k \in Kinds : \A i \in Ids : table[k][i] # Nil => table[k][i] \in Rows[k] /\ i \in SpecUsed
    /\ \A c \in Callers : Carries(call[c])
    /\ \A c \in Callers : call[c].pc = "second" => Row(c) # Nil

\* A step of one table of kind k, as module Table has it.
CreateRow(k, i) ==
    /\ table[k][i] = Nil /\ i \notin GoneFrom(k)
    /\ \E row \in Rows[k] : table'[k] = [table[k] EXCEPT ![i] = row]
    /\ GoneFrom(k)' = GoneFrom(k)

SkipId(k, i) ==
    /\ table[k][i] = Nil
    /\ GoneFrom(k)' = GoneFrom(k) \cup {i}
    /\ table'[k] = table[k]

UpdateRow(k, i) ==
    /\ table[k][i] # Nil
    /\ \E row \in Rows[k] :
         /\ \A f \in Columns(k) : row[f] = table[k][i][f]
         /\ table'[k] = [table[k] EXCEPT ![i] = row]
    /\ GoneFrom(k)' = GoneFrom(k)

DeleteRow(k, i) ==
    /\ table[k][i] # Nil
    /\ table'[k] = [table[k] EXCEPT ![i] = Nil]
    /\ GoneFrom(k)' = GoneFrom(k) \cup {i}

RowStep(k) ==
    \/ table'[k] = table[k] /\ GoneFrom(k)' = GoneFrom(k)
    \/ \E i \in Ids : CreateRow(k, i) \/ SkipId(k, i) \/ UpdateRow(k, i) \/ DeleteRow(k, i)

\* An assignment keeps a row a row, and its other columns.
LEMMA AssignRow ==
    ASSUME NEW k \in Kinds, NEW row \in Rows[k], NEW u \in Updates[k],
           NEW f \in {First(k), Second(k)}
    PROVE  /\ Assign(row, u, f) \in Rows[k]
           /\ \A g \in Columns(k) : Assign(row, u, f)[g] = row[g]
<1>1. Assign(row, u, f) \in Rows[k]
  BY RowsTakeUpdates
<1>2. Columns(k) \subseteq DOMAIN row /\ f \notin Columns(k)
  BY RowsHaveColumns DEF Kinds, Columns, First, Second
<1>3. \A g \in Columns(k) : Assign(row, u, f)[g] = row[g]
  BY <1>2 DEF Assign
<1>4. QED BY <1>1, <1>3

\* What a statement does to the record of its call.
LEMMA MethodCall ==
    ASSUME IInv, NEW c \in Callers, Method(c)
    PROVE  /\ \A d \in Callers : d # c => call'[d] = call[d]
           /\ \/ call'[c].pc \in {"idle", "unlock"}
              \/ /\ \/ call[c].pc = "lock" /\ call'[c].pc = "body"
                    \/ call[c].pc = "body" /\ call'[c].pc = "insert" /\ call[c].op = "Create"
                    \/ call[c].pc = "body" /\ call'[c].pc = "second" /\ SetFirst(c)
                 /\ call'[c].op = call[c].op
                 /\ call'[c].kind = call[c].kind
                 /\ call'[c].arg = call[c].arg
<1> DEFINE r == call[c]
<1>1. call = [d \in Callers |-> call[d]] /\ IsCall(r)
  BY DEF IInv
<1>2. CASE Lock(c) \/ SetFirst(c)
  <2>1. PICK p \in {"body", "second"} :
          /\ call' = [call EXCEPT ![c] = [r EXCEPT !.pc = p]]
          /\ p = "body" => r.pc = "lock"
          /\ p = "second" => r.pc = "body" /\ SetFirst(c)
    BY <1>1, <1>2 DEF Lock, SetFirst, Body, At
  <2>2. [r EXCEPT !.pc = p] = [pc |-> p, op |-> r.op, kind |-> r.kind, id |-> r.id,
                               arg |-> r.arg, out |-> r.out]
    BY <1>1, SetPc
  <2>3. call'[c] = [pc |-> p, op |-> r.op, kind |-> r.kind, id |-> r.id,
                    arg |-> r.arg, out |-> r.out]
    BY <1>1, <2>1, <2>2
  <2>4. QED BY <1>1, <2>1, <2>3
<1>3. CASE GenID(c)
  <2>1. r.pc = "body" /\ r.op = "Create"
    BY <1>3 DEF GenID, Body, At
  <2>2. call' = [call EXCEPT ![c] = [r EXCEPT !.pc = "insert", !.id = nextID + 1]]
    BY <1>1, <1>3 DEF GenID
  <2>3. [r EXCEPT !.pc = "insert", !.id = nextID + 1] =
          [pc |-> "insert", op |-> r.op, kind |-> r.kind, id |-> nextID + 1,
           arg |-> r.arg, out |-> r.out]
    BY <1>1, SetPcAndId
  <2>4. call'[c] = [pc |-> "insert", op |-> r.op, kind |-> r.kind, id |-> nextID + 1,
                    arg |-> r.arg, out |-> r.out]
    BY <1>1, <2>2, <2>3
  <2>5. QED BY <1>1, <2>1, <2>2, <2>4
<1>4. CASE Insert(c) \/ Absent(c) \/ Get(c) \/ List(c) \/ SetSecond(c) \/ Delete(c)
  <2>1. PICK out : Finish(c, out)
    BY <1>4 DEF Insert, Absent, Get, List, SetSecond, Delete
  <2>2. call' = [call EXCEPT ![c] = [r EXCEPT !.pc = "unlock", !.out = out]]
    BY <1>1, <2>1 DEF Finish
  <2>3. [r EXCEPT !.pc = "unlock", !.out = out] =
          [pc |-> "unlock", op |-> r.op, kind |-> r.kind, id |-> r.id, arg |-> r.arg, out |-> out]
    BY <1>1, SetPcAndOut
  <2>4. call'[c].pc = "unlock"
    BY <1>1, <2>2, <2>3
  <2>5. QED BY <1>1, <2>2, <2>4
<1>5. CASE Unlock(c)
  BY <1>1, <1>5 DEF Unlock, NoCall
<1>6. QED BY <1>2, <1>3, <1>4, <1>5 DEF Method

\* Ids are used up by Insert alone.
LEMMA UsedKept ==
    ASSUME IInv, IInv', NEW c \in Callers, Call(c) \/ Method(c), ~Insert(c)
    PROVE  SpecUsed' = SpecUsed
<1>1. CASE Call(c)
  BY <1>1, CallIsCall DEF Atomic!Call
<1>2. CASE Lock(c) \/ GenID(c) \/ SetSecond(c)
  BY <1>2, LockIsStutter, GenIDIsStutter, SetSecondIsStutter DEF SpecVars
<1>3. CASE Absent(c) \/ Get(c) \/ List(c) \/ Delete(c) \/ SetFirst(c)
  <2>1. call[c].pc = "body" /\ mu' = mu /\ nextID' = nextID
    BY <1>3 DEF Absent, Get, List, Delete, SetFirst, Body, At
  <2>2. mu = c /\ mu' = c
    BY <2>1 DEF IInv
  <2>3. call'[c].pc # "insert"
    BY <1>3, <2>1, MethodCall DEF Method, Absent, Get, List, Delete, SetFirst, Body, At
  <2>4. QED BY <2>1, <2>2, <2>3, HolderView, HolderViewAfter DEF At
<1>4. CASE Unlock(c)
  <2>1. call[c].pc = "unlock" /\ mu = c /\ mu' = Nil /\ nextID' = nextID
    BY <1>4 DEF Unlock, At, IInv
  <2>2. SpecUsed = 1..nextID
    BY <2>1, HolderView DEF At
  <2>3. QED BY <2>1, <2>2 DEF SpecUsed, Holder
<1>5. QED BY <1>1, <1>2, <1>3, <1>4 DEF Method

LEMMA InsertUses ==
    ASSUME IInv, IInv', NEW c \in Callers, Insert(c)
    PROVE  call[c].id \in Ids \ SpecUsed /\ SpecUsed' = SpecUsed \cup {call[c].id}
<1> DEFINE r == call[c]
<1>1. /\ r.pc = "insert" /\ r.id = nextID /\ r.id \in Ids /\ nextID \in Nat
      /\ mu = c /\ mu' = c /\ nextID' = nextID
  BY DEF Insert, At, IInv, IsCall
<1>2. call'[c].pc # "insert"
  BY <1>1, MethodCall DEF Method
<1>3. SpecUsed = (1..nextID) \ {r.id} /\ SpecUsed' = 1..nextID
  BY <1>1, <1>2, HolderView, HolderViewAfter DEF At
<1>4. QED BY <1>1, <1>3 DEF Ids

\* What the calls carry along stays what it was.
LEMMA CallsCarry ==
    ASSUME IInv, IInv', RowInv, NEW c \in Callers, Call(c) \/ Method(c)
    PROVE  \A d \in Callers : Carries(call'[d])
<1>1. CASE Call(c)
  <2>1. PICK op \in Ops, k \in Kinds : \E i \in Targets(op, k), a \in Arguments(op, k) :
          call' = [call EXCEPT ![c] = [pc |-> "lock", op |-> op, kind |-> k, id |-> i,
                                       arg |-> a, out |-> Ok({})]]
    BY <1>1 DEF Call
  <2>2. PICK i \in Targets(op, k), a \in Arguments(op, k) :
          call' = [call EXCEPT ![c] = [pc |-> "lock", op |-> op, kind |-> k, id |-> i,
                                       arg |-> a, out |-> Ok({})]]
    BY <2>1
  <2>3. /\ call'[c] = [pc |-> "lock", op |-> op, kind |-> k, id |-> i, arg |-> a, out |-> Ok({})]
        /\ \A d \in Callers : d # c => call'[d] = call[d]
    BY <2>2 DEF IInv
  <2>4. Carries(call'[c])
    BY <2>3 DEF Carries, Arguments
  <2>5. QED BY <2>3, <2>4 DEF RowInv
<1>2. CASE Method(c)
  BY <1>2, MethodCall DEF RowInv, Carries
<1>3. QED BY <1>1, <1>2

\* A step that leaves the tables alone.
LEMMA RowsKept ==
    ASSUME IInv, IInv', RowInv, NEW c \in Callers, Call(c) \/ Method(c),
           ~Insert(c), table' = table
    PROVE  RowInv' /\ \A k \in Kinds : RowStep(k)
<1>1. SpecUsed' = SpecUsed
  BY UsedKept
<1>2. \A k \in Kinds : \A i \in Ids :
        table'[k][i] # Nil => table'[k][i] \in Rows[k] /\ i \in SpecUsed'
  BY <1>1 DEF RowInv
<1>3. ASSUME NEW d \in Callers, call'[d].pc = "second" PROVE Row(d)' # Nil
  <2>1. CASE d # c \/ Call(c)
    <3>1. call'[d] = call[d]
      <4>1. Call(c) => call'[c].pc # "second" /\ \A x \in Callers : x # c => call'[x] = call[x]
        BY DEF Call, IInv
      <4>2. QED BY <1>3, <2>1, <4>1, MethodCall
    <3>2. QED BY <1>3, <3>1 DEF RowInv, Row
  <2>2. CASE d = c /\ Method(c)
    <3>1. SetFirst(c)
      BY <1>3, <2>2, MethodCall
    <3>2. call[c].op = "Update" /\ call[c].pc = "body" /\ Row(c) # Nil
      BY <3>1 DEF SetFirst, Body, At
    <3>3. call'[c].id = call[c].id /\ call'[c].kind = call[c].kind
      <4>1. call' = [call EXCEPT ![c] = [call[c] EXCEPT !.pc = "second"]]
        BY <3>1 DEF SetFirst, IInv
      <4>2. [call[c] EXCEPT !.pc = "second"] =
              [pc |-> "second", op |-> call[c].op, kind |-> call[c].kind, id |-> call[c].id,
               arg |-> call[c].arg, out |-> call[c].out]
        BY SetPc DEF IInv
      <4>3. QED BY <4>1, <4>2 DEF IInv
    <3>4. QED BY <2>2, <3>2, <3>3 DEF Row
  <2>3. QED BY <2>1, <2>2
<1>4. RowInv'
  BY <1>2, <1>3, CallsCarry DEF RowInv
<1>5. \A k \in Kinds : RowStep(k)
  BY <1>1 DEF RowStep, GoneFrom
<1>6. QED BY <1>4, <1>5

\* A step that writes one row, the row under the id of its call.
LEMMA RowWritten ==
    ASSUME IInv, IInv', RowInv, NEW c \in Callers, Method(c),
           NEW kind \in Kinds, NEW id \in Ids, NEW row \in Rows[kind] \cup {Nil},
           call[c].pc \notin {"idle", "lock"},
           table' = [table EXCEPT ![kind][id] = row],
           SpecUsed \subseteq SpecUsed',
           row # Nil => id \in SpecUsed',
           call'[c].pc = "second" => Row(c)' # Nil
    PROVE  /\ RowInv'
           /\ table'[kind] = [table[kind] EXCEPT ![id] = row]
           /\ table'[kind][id] = row
           /\ \A i \in Ids : i # id => table'[kind][i] = table[kind][i]
           /\ \A k \in Kinds : k # kind => table'[k] = table[k]
<1>1. table = [k \in Kinds |-> [i \in Ids |-> table[k][i]]]
  BY DEF IInv, IsCall
<1>2. /\ table'[kind] = [table[kind] EXCEPT ![id] = row]
      /\ \A k \in Kinds : k # kind => table'[k] = table[k]
  BY <1>1
<1>3. table'[kind][id] = row /\ \A i \in Ids : i # id => table'[kind][i] = table[kind][i]
  BY <1>1, <1>2
<1>4. ASSUME NEW k \in Kinds, NEW i \in Ids, table'[k][i] # Nil
      PROVE  table'[k][i] \in Rows[k] /\ i \in SpecUsed'
  <2>1. CASE k = kind /\ i = id
    BY <1>3, <1>4, <2>1
  <2>2. CASE ~(k = kind /\ i = id)
    <3>1. table'[k][i] = table[k][i]
      BY <1>2, <1>3, <2>2
    <3>2. QED BY <1>4, <3>1 DEF RowInv
  <2>3. QED BY <2>1, <2>2
<1>5. ASSUME NEW d \in Callers, call'[d].pc = "second" PROVE Row(d)' # Nil
  <2>1. CASE d = c
    BY <1>5, <2>1
  <2>2. CASE d # c
    <3>1. call'[d] = call[d] /\ mu = c /\ mu = d
      BY <1>5, <2>2, MethodCall DEF IInv
    <3>2. QED BY <2>2, <3>1
  <2>3. QED BY <2>1, <2>2
<1>6. RowInv'
  BY <1>4, <1>5, CallsCarry DEF RowInv
<1>7. QED BY <1>2, <1>3, <1>6

LEMMA InsertIsRowStep ==
    ASSUME IInv, IInv', RowInv, NEW c \in Callers, Insert(c)
    PROVE  RowInv' /\ \A k \in Kinds : RowStep(k)
<1>0. PICK kind \in Kinds, id \in Ids : kind = call[c].kind /\ id = call[c].id
  BY DEF Insert, At, IInv, IsCall
<1>r. PICK row : row = call[c].arg
  OBVIOUS
<1>1. /\ call[c].pc = "insert" /\ call[c].op = "Create" /\ nextID = id
      /\ table' = [table EXCEPT ![kind][id] = row]
  BY <1>0, <1>r DEF Insert, At, IInv, IsCall
<1>2. row \in Rows[kind] /\ row # Nil
  BY <1>0, <1>r, <1>1, NilIsNoRow DEF RowInv, Carries
<1>3. id \in Ids \ SpecUsed /\ SpecUsed' = SpecUsed \cup {id}
  BY <1>0, InsertUses
<1>4. call'[c].pc # "second"
  BY <1>1, MethodCall DEF Method
<1>5. /\ RowInv'
      /\ table'[kind] = [table[kind] EXCEPT ![id] = row]
      /\ table'[kind][id] = row
      /\ \A i \in Ids : i # id => table'[kind][i] = table[kind][i]
      /\ \A k \in Kinds : k # kind => table'[k] = table[k]
  <2>1. Method(c) /\ SpecUsed \subseteq SpecUsed' /\ id \in SpecUsed'
    BY <1>3 DEF Method
  <2>2. call[c].pc \notin {"idle", "lock"}
    BY <1>1
  <2>3. QED BY <1>1, <1>2, <1>4, <2>1, <2>2, RowWritten
<1>6. \A k \in Kinds : table[k][id] = Nil
  BY <1>3 DEF RowInv
<1>7. SpecUsed \subseteq Ids
  <2>1. mu = c
    BY <1>1 DEF IInv
  <2>2. SpecUsed = (1..nextID) \ {id}
    BY <2>1, <1>0, <1>1, HolderView DEF At
  <2>3. QED BY <2>2, <1>1 DEF Ids
<1>8. RowStep(kind)
  <2>1. GoneFrom(kind)' = GoneFrom(kind)
    BY <1>2, <1>3, <1>5, <1>7 DEF GoneFrom
  <2>2. CreateRow(kind, id)
    BY <1>2, <1>3, <1>5, <1>6, <2>1 DEF CreateRow, GoneFrom
  <2>3. QED BY <1>3, <2>2 DEF RowStep
<1>9. ASSUME NEW k \in Kinds, k # kind PROVE RowStep(k)
  <2>1. GoneFrom(k)' = GoneFrom(k) \cup {id}
    BY <1>3, <1>5, <1>6, <1>9 DEF GoneFrom
  <2>2. SkipId(k, id)
    BY <1>5, <1>6, <1>9, <2>1 DEF SkipId
  <2>3. QED BY <1>3, <2>2 DEF RowStep
<1>10. QED BY <1>5, <1>8, <1>9

LEMMA AssignmentIsRowStep ==
    ASSUME IInv, IInv', RowInv, NEW c \in Callers, SetFirst(c) \/ SetSecond(c)
    PROVE  RowInv' /\ \A k \in Kinds : RowStep(k)
<1>0. PICK kind \in Kinds, id \in Ids : kind = call[c].kind /\ id = call[c].id
  BY DEF SetFirst, SetSecond, Body, At, IInv, IsCall
<1>u. PICK u : u = call[c].arg
  OBVIOUS
<1>1. /\ call[c].pc \in {"body", "second"} /\ call[c].op = "Update"
      /\ Row(c) # Nil /\ Row(c) = table[kind][id]
  BY <1>0 DEF SetFirst, SetSecond, Body, At, IInv, IsCall, RowInv, Row
<1>2. PICK f \in {First(kind), Second(kind)} :
        table' = [table EXCEPT ![kind][id] = Assign(table[kind][id], u, f)]
  BY <1>0, <1>u, <1>1 DEF SetFirst, SetSecond
<1>3. table[kind][id] \in Rows[kind] /\ id \in SpecUsed
  BY <1>1 DEF RowInv
<1>4. u \in Updates[kind]
  BY <1>0, <1>u, <1>1 DEF RowInv, Carries
<1>5. PICK row \in Rows[kind] :
        /\ row = Assign(table[kind][id], u, f)
        /\ \A g \in Columns(kind) : row[g] = table[kind][id][g]
  BY <1>3, <1>4, AssignRow
<1>6. row # Nil
  BY NilIsNoRow
<1>7. SpecUsed' = SpecUsed
  <2>1. ~Insert(c) /\ Method(c)
    BY <1>1 DEF Insert, At, Method
  <2>2. QED BY <2>1, UsedKept
<1>8. table' = [table EXCEPT ![kind][id] = row]
  BY <1>2, <1>5
<1>9. call'[c].pc = "second" => Row(c)' # Nil
  <2>1. ASSUME call'[c].pc = "second"
        PROVE  call'[c].kind = kind /\ call'[c].id = id
    <3>1. SetFirst(c)
      BY <2>1, MethodCall DEF Method
    <3>2. call' = [call EXCEPT ![c] = [call[c] EXCEPT !.pc = "second"]]
      BY <3>1 DEF SetFirst, IInv
    <3>3. [call[c] EXCEPT !.pc = "second"] =
            [pc |-> "second", op |-> call[c].op, kind |-> call[c].kind, id |-> call[c].id,
             arg |-> call[c].arg, out |-> call[c].out]
      BY SetPc DEF IInv
    <3>4. QED BY <1>0, <3>2, <3>3 DEF IInv
  <2>2. table'[kind][id] = row
    BY <1>8 DEF IInv
  <2>3. QED BY <1>6, <2>1, <2>2 DEF Row
<1>10. /\ RowInv'
       /\ table'[kind] = [table[kind] EXCEPT ![id] = row]
       /\ table'[kind][id] = row
       /\ \A i \in Ids : i # id => table'[kind][i] = table[kind][i]
       /\ \A k \in Kinds : k # kind => table'[k] = table[k]
  <2>1. Method(c) /\ call[c].pc \notin {"idle", "lock"}
    BY <1>1 DEF Method
  <2>2. QED BY <1>3, <1>7, <1>8, <1>9, <2>1, RowWritten
<1>11. RowStep(kind)
  <2>1. GoneFrom(kind)' = GoneFrom(kind)
    <3>1. \A i \in SpecUsed : table'[kind][i] = Nil <=> table[kind][i] = Nil
      BY <1>1, <1>6, <1>8, <1>10 DEF IInv
    <3>2. QED BY <3>1, <1>7 DEF GoneFrom
  <2>2. UpdateRow(kind, id)
    BY <1>1, <1>5, <1>10, <2>1 DEF UpdateRow
  <2>3. QED BY <2>2 DEF RowStep
<1>12. ASSUME NEW k \in Kinds, k # kind PROVE RowStep(k)
  <2>1. GoneFrom(k)' = GoneFrom(k)
    BY <1>7, <1>10, <1>12 DEF GoneFrom
  <2>2. QED BY <1>10, <1>12, <2>1 DEF RowStep
<1>13. QED BY <1>10, <1>11, <1>12

LEMMA DeleteIsRowStep ==
    ASSUME IInv, IInv', RowInv, NEW c \in Callers, Delete(c)
    PROVE  RowInv' /\ \A k \in Kinds : RowStep(k)
<1>0. PICK kind \in Kinds, id \in Ids : kind = call[c].kind /\ id = call[c].id
  BY DEF Delete, Body, At, IInv, IsCall
<1>1. /\ call[c].pc = "body" /\ call[c].op = "Delete"
      /\ table[kind][id] # Nil
      /\ table' = [table EXCEPT ![kind][id] = Nil]
  BY <1>0 DEF Delete, Body, At, Row
<1>2. id \in SpecUsed
  BY <1>1 DEF RowInv
<1>3. Method(c) /\ ~Insert(c) /\ ~SetFirst(c)
  BY <1>1 DEF Insert, SetFirst, Body, At, Method
<1>4. SpecUsed' = SpecUsed /\ call'[c].pc # "second"
  BY <1>3, UsedKept, MethodCall
<1>5. /\ RowInv'
      /\ table'[kind] = [table[kind] EXCEPT ![id] = Nil]
      /\ table'[kind][id] = Nil
      /\ \A i \in Ids : i # id => table'[kind][i] = table[kind][i]
      /\ \A k \in Kinds : k # kind => table'[k] = table[k]
  <2>1. call[c].pc \notin {"idle", "lock"}
    BY <1>1
  <2>2. QED BY <1>1, <1>3, <1>4, <2>1, RowWritten
<1>6. RowStep(kind)
  <2>1. \A i \in SpecUsed : i # id => (table'[kind][i] = Nil <=> table[kind][i] = Nil)
    BY <1>1 DEF IInv
  <2>2. GoneFrom(kind)' = GoneFrom(kind) \cup {id}
    BY <1>2, <1>4, <1>5, <2>1 DEF GoneFrom
  <2>3. DeleteRow(kind, id)
    BY <1>1, <1>5, <2>2 DEF DeleteRow
  <2>4. QED BY <2>3 DEF RowStep
<1>7. ASSUME NEW k \in Kinds, k # kind PROVE RowStep(k)
  <2>1. GoneFrom(k)' = GoneFrom(k)
    BY <1>4, <1>5, <1>7 DEF GoneFrom
  <2>2. QED BY <1>5, <1>7, <2>1 DEF RowStep
<1>8. QED BY <1>5, <1>6, <1>7

\* Every statement of every method is a step of each of the two tables.
LEMMA RowSteps ==
    ASSUME IInv, IInv', RowInv, [Next]_vars
    PROVE  RowInv' /\ \A k \in Kinds : RowStep(k)
<1>1. ASSUME NEW c \in Callers, Call(c) \/ Method(c)
      PROVE  RowInv' /\ \A k \in Kinds : RowStep(k)
  <2>1. CASE Insert(c)
    BY <2>1, InsertIsRowStep
  <2>2. CASE SetFirst(c) \/ SetSecond(c)
    BY <2>2, AssignmentIsRowStep
  <2>3. CASE Delete(c)
    BY <2>3, DeleteIsRowStep
  <2>4. CASE ~(Insert(c) \/ SetFirst(c) \/ SetSecond(c) \/ Delete(c))
    <3>1. table' = table
      BY <1>1, <2>4 DEF Call, Method, Lock, GenID, Absent, Get, List, Unlock
    <3>2. QED BY <1>1, <2>4, <3>1, RowsKept
  <2>5. QED BY <2>1, <2>2, <2>3, <2>4
<1>2. CASE UNCHANGED vars
  <2>1. table' = table /\ call' = call /\ SpecUsed' = SpecUsed
    BY <1>2 DEF vars, SpecUsed, Holder, At
  <2>2. RowInv'
    BY <2>1 DEF RowInv, Row
  <2>3. \A k \in Kinds : RowStep(k)
    BY <2>1 DEF RowStep, GoneFrom
  <2>4. QED BY <2>2, <2>3
<1>3. QED BY <1>1, <1>2 DEF Next

LEMMA InitRows ==
    Init => /\ RowInv
            /\ SpecUsed = {}
            /\ \A k \in Kinds : table[k] = [i \in Ids |-> Nil] /\ GoneFrom(k) = {}
<1>1. SUFFICES ASSUME Init
               PROVE  /\ RowInv
                      /\ SpecUsed = {}
                      /\ \A k \in Kinds : table[k] = [i \in Ids |-> Nil] /\ GoneFrom(k) = {}
  OBVIOUS
<1>2. SpecUsed = {}
  BY <1>1, FreeView DEF Init
<1>3. \A k \in Kinds : table[k] = [i \in Ids |-> Nil] /\ GoneFrom(k) = {}
  BY <1>1, <1>2 DEF Init, GoneFrom
<1>4. \A c \in Callers : call[c].pc = "idle"
  BY <1>1 DEF Init, NoCall
<1>5. RowInv
  BY <1>3, <1>4 DEF RowInv, Carries
<1>6. QED BY <1>2, <1>3, <1>5

\* However the goroutines of the memory store interleave, an id of a book is
\* new, then live, then gone for good, and a book stays its author's.
THEOREM BooksTableRefined == Spec => BooksAreATable
<1>1. Init => BookTable!Init
  BY InitRows DEF BookTable!Init, Kinds
<1>2. ASSUME IInv, IInv', RowInv, [Next]_vars
      PROVE  [BookTable!Next]_<<table["book"], GoneFrom("book")>>
  <2>1. RowStep("book")
    BY <1>2, RowSteps DEF Kinds
  <2>2. Columns("book") = {"author"}
    BY DEF Columns
  <2>3. QED BY <2>1, <2>2 DEF RowStep, CreateRow, SkipId, UpdateRow, DeleteRow,
       BookTable!Next, BookTable!Create, BookTable!Refuse, BookTable!Update, BookTable!Delete
<1>3. RowInv /\ IInv /\ [Next]_vars => RowInv'
  BY StepInv, RowSteps
<1>4. Init => RowInv
  BY InitRows
<1>5. IInv /\ IInv' /\ RowInv /\ [Next]_vars =>
        [BookTable!Next]_<<table["book"], GoneFrom("book")>>
  BY <1>2
<1>6. QED BY <1>1, <1>3, <1>4, <1>5, InitInv, StepInv, PTL DEF Spec, BooksAreATable, BookTable!Spec

\* The same for reviews, which also stay with their book and their reviewer.
THEOREM ReviewsTableRefined == Spec => ReviewsAreATable
<1>1. Init => ReviewTable!Init
  BY InitRows DEF ReviewTable!Init, Kinds
<1>2. ASSUME IInv, IInv', RowInv, [Next]_vars
      PROVE  [ReviewTable!Next]_<<table["review"], GoneFrom("review")>>
  <2>1. RowStep("review")
    BY <1>2, RowSteps DEF Kinds
  <2>2. Columns("review") = {"book", "reviewer"}
    BY DEF Columns
  <2>3. QED BY <2>1, <2>2 DEF RowStep, CreateRow, SkipId, UpdateRow, DeleteRow,
       ReviewTable!Next, ReviewTable!Create, ReviewTable!Refuse, ReviewTable!Update,
       ReviewTable!Delete
<1>3. RowInv /\ IInv /\ [Next]_vars => RowInv'
  BY StepInv, RowSteps
<1>4. Init => RowInv
  BY InitRows
<1>5. IInv /\ IInv' /\ RowInv /\ [Next]_vars =>
        [ReviewTable!Next]_<<table["review"], GoneFrom("review")>>
  BY <1>2
<1>6. QED
  BY <1>1, <1>3, <1>4, <1>5, InitInv, StepInv, PTL DEF Spec, ReviewsAreATable, ReviewTable!Spec

=============================================================================
