---------------------------- MODULE MemoryStore ----------------------------
(***************************************************************************)
(* internal/store/memory: the store that the tests use next to pbstore.    *)
(* Two maps and an id counter behind one mutex.  Each method locks, reads  *)
(* and writes the maps in several statements and unlocks; here each        *)
(* statement that touches shared state is a step of its own, so the        *)
(* goroutines interleave in every way that the mutex allows.               *)
(*                                                                         *)
(*   Create: Lock -> GenID -> Insert -> Unlock                             *)
(*   Update: Lock -> SetFirst -> SetSecond -> Unlock                       *)
(*   Get, List, Delete: Lock -> one statement -> Unlock                    *)
(*                                                                         *)
(* Books and reviews draw their ids from one counter; "mem_n" is n here.   *)
(* Nothing is validated: a row of any author, status or rating is stored,  *)
(* a review may name a book that is not there, and a book is deleted under *)
(* its reviews, where pbstore refuses.                                     *)
(*                                                                         *)
(* Bound: MaxId is the number of ids that an instance hands out.           *)
(***************************************************************************)
EXTENDS Integers, FiniteSets

CONSTANTS
    Callers, Rows, Updates, Nil,   \* as in module StoreSpec
    MaxId

ASSUME MaxIdIsNat == MaxId \in Nat
ASSUME CallersAreFinite == IsFiniteSet(Callers) /\ Nil \notin Callers

Ids   == 1..MaxId
Kinds == {"book", "review"}
Ops   == {"Create", "Get", "List", "Update", "Delete"}

VARIABLES
    table,    \* s.books and s.reviews
    nextID,   \* s.nextID
    mu,       \* who holds s.mu, or Nil
    call      \* call[c]: where c is in the method it called, and its locals

vars == <<table, nextID, mu, call>>

NotFound == [ok |-> FALSE, rows |-> {}]
Ok(rows) == [ok |-> TRUE, rows |-> rows]

NoCall == [pc |-> "idle", op |-> "Get", kind |-> "book", id |-> Nil, arg |-> Nil, out |-> Ok({})]

Init ==
    /\ table = [k \in Kinds |-> [i \in Ids |-> Nil]]
    /\ nextID = 0
    /\ mu = Nil
    /\ call = [c \in Callers |-> NoCall]

At(c, pc) == call[c].pc = pc

\* The value that c looks up with "s.books[id]" or "s.reviews[id]".
Row(c) == table[call[c].kind][call[c].id]

Targets(op, k) == IF op = "Create" \/ <<op, k>> = <<"List", "book">> THEN {Nil} ELSE Ids

Arguments(op, k) ==
    IF op = "Create" THEN Rows[k] ELSE IF op = "Update" THEN Updates[k] ELSE {Nil}

\* The callers that have still to draw an id.
Creating == {c \in Callers : call[c].op = "Create" /\ call[c].pc \in {"lock", "body"}}

Call(c) ==
    /\ At(c, "idle")
    /\ \E op \in Ops, k \in Kinds : \E i \in Targets(op, k), a \in Arguments(op, k) :
         /\ op = "Create" => nextID + Cardinality(Creating) < MaxId
         /\ call' = [call EXCEPT ![c] = [pc |-> "lock", op |-> op, kind |-> k, id |-> i,
                                         arg |-> a, out |-> Ok({})]]
    /\ UNCHANGED <<table, nextID, mu>>

Lock_Bug(c) ==
    /\ At(c, "lock")
    /\ mu' = c
    /\ call' = [call EXCEPT ![c].pc = "body"]
    /\ UNCHANGED <<table, nextID>>

Lock(c) ==
    /\ At(c, "lock")
    /\ mu = Nil
    /\ mu' = c
    /\ call' = [call EXCEPT ![c].pc = "body"]
    /\ UNCHANGED <<table, nextID>>

\* The body of the method is done; the deferred Unlock comes next.
Finish(c, out) == call' = [call EXCEPT ![c].pc = "unlock", ![c].out = out]

Body(c, op) == At(c, "body") /\ call[c].op = op

GenID_Bug(c) ==
    LET n == Cardinality({i \in Ids : table[call[c].kind][i] # Nil}) + 1
    IN  /\ Body(c, "Create")
        /\ nextID' = nextID + 1
        /\ call' = [call EXCEPT ![c].pc = "insert", ![c].id = n]
        /\ UNCHANGED <<table, mu>>

GenID(c) ==
    /\ Body(c, "Create")
    /\ nextID' = nextID + 1
    /\ call' = [call EXCEPT ![c].pc = "insert", ![c].id = nextID + 1]
    /\ UNCHANGED <<table, mu>>

Insert(c) ==
    /\ At(c, "insert")
    /\ table' = [table EXCEPT ![call[c].kind][call[c].id] = call[c].arg]
    /\ Finish(c, Ok({<<call[c].id, call[c].arg>>}))
    /\ UNCHANGED <<nextID, mu>>

Absent(c) ==
    /\ At(c, "body")
    /\ call[c].op \in {"Get", "Update", "Delete"}
    /\ Row(c) = Nil
    /\ Finish(c, NotFound)
    /\ UNCHANGED <<table, nextID, mu>>

Get(c) ==
    /\ Body(c, "Get")
    /\ Row(c) # Nil
    /\ Finish(c, Ok({<<call[c].id, Row(c)>>}))
    /\ UNCHANGED <<table, nextID, mu>>

\* The loop over the map copies what it finds.
List(c) ==
    LET k            == call[c].kind
        Matches(row) == row # Nil /\ (k = "review" => row.book = call[c].id)
    IN  /\ Body(c, "List")
        /\ Finish(c, Ok({<<i, table[k][i]>> : i \in {j \in Ids : Matches(table[k][j])}}))
        /\ UNCHANGED <<table, nextID, mu>>

\* "if update.F != nil { row.F = *update.F }" for the field f.
Assign(row, u, f) == [row EXCEPT ![f] = IF u[f] = Nil THEN row[f] ELSE u[f]]

First(k)  == IF k = "book" THEN "title" ELSE "content"
Second(k) == IF k = "book" THEN "status" ELSE "rating"

\* A row is a struct: it has the columns that say what it is about, and an
\* update can put any of its values into a field.
ASSUME NilIsNoRow == \A k \in Kinds : Nil \notin Rows[k]
ASSUME RowsHaveColumns ==
    /\ \A row \in Rows["book"] : "author" \in DOMAIN row
    /\ \A row \in Rows["review"] : {"book", "reviewer"} \subseteq DOMAIN row
ASSUME RowsTakeUpdates ==
    \A k \in Kinds : \A row \in Rows[k], u \in Updates[k], f \in {First(k), Second(k)} :
      Assign(row, u, f) \in Rows[k]

SetFirst(c) ==
    LET k == call[c].kind
    IN  /\ Body(c, "Update")
        /\ Row(c) # Nil
        /\ table' = [table EXCEPT ![k][call[c].id] = Assign(Row(c), call[c].arg, First(k))]
        /\ call' = [call EXCEPT ![c].pc = "second"]
        /\ UNCHANGED <<nextID, mu>>

SetSecond(c) ==
    LET k   == call[c].kind
        row == Assign(Row(c), call[c].arg, Second(k))
    IN  /\ At(c, "second")
        /\ table' = [table EXCEPT ![k][call[c].id] = row]
        /\ Finish(c, Ok({<<call[c].id, row>>}))
        /\ UNCHANGED <<nextID, mu>>

Delete(c) ==
    /\ Body(c, "Delete")
    /\ Row(c) # Nil
    /\ table' = [table EXCEPT ![call[c].kind][call[c].id] = Nil]
    /\ Finish(c, Ok({}))
    /\ UNCHANGED <<nextID, mu>>

Unlock(c) ==
    /\ At(c, "unlock")
    /\ mu' = Nil
    /\ call' = [call EXCEPT ![c] = NoCall]
    /\ UNCHANGED <<table, nextID>>

Method(c) ==
    \/ Lock(c) \/ GenID(c) \/ Insert(c) \/ Absent(c) \/ Get(c) \/ List(c)
    \/ SetFirst(c) \/ SetSecond(c) \/ Delete(c) \/ Unlock(c)

Next == \E c \in Callers : Call(c) \/ Method(c)

Spec == Init /\ [][Next]_vars

-----------------------------------------------------------------------------
(***************************************************************************)
(* The atomic store that this one implements.  A create takes effect when  *)
(* the row is in the map, an update with its first assignment: the holder  *)
(* of the mutex is then bound to make the second.                          *)
(***************************************************************************)
Holder(pc) == mu # Nil /\ At(mu, pc)

SpecTable ==
    IF Holder("second")
    THEN [table EXCEPT ![call[mu].kind][call[mu].id] =
                         Assign(Row(mu), call[mu].arg, Second(call[mu].kind))]
    ELSE table

SpecUsed == IF Holder("insert") THEN (1..nextID) \ {call[mu].id} ELSE 1..nextID

SpecStatus(pc) ==
    IF pc = "idle" THEN "idle" ELSE IF pc \in {"second", "unlock"} THEN "done" ELSE "called"

SpecCall ==
    [c \in Callers |->
        LET q == call[c]
        IN  [st     |-> SpecStatus(q.pc),
             op     |-> q.op,
             kind   |-> q.kind,
             id     |-> IF q.op = "Create" THEN Nil ELSE q.id,
             arg    |-> q.arg,
             result |-> IF q.pc = "second"
                        THEN Ok({<<q.id, Assign(Row(c), q.arg, Second(q.kind))>>}) ELSE q.out]]

Atomic == INSTANCE StoreSpec WITH table <- SpecTable, used <- SpecUsed, call <- SpecCall

\* The life of an id in each of the two maps, see module Table.
GoneFrom(k) == {i \in SpecUsed : table[k][i] = Nil}

BookTable == INSTANCE Table WITH
    Rows <- Rows["book"], Fixed <- {"author"}, NoRow <- Nil,
    rows <- table["book"], gone <- GoneFrom("book")

ReviewTable == INSTANCE Table WITH
    Rows <- Rows["review"], Fixed <- {"book", "reviewer"}, NoRow <- Nil,
    rows <- table["review"], gone <- GoneFrom("review")

(***************************************************************************)
(* Every method of the memory store behaves as if it ran at one moment,    *)
(* whatever other goroutines call meanwhile: no id is handed out twice, no *)
(* result mixes the values of two updates, no list shows half an update.   *)
(***************************************************************************)
Linearizable == Atomic!Spec

(***************************************************************************)
(* What a caller may take for granted of pbstore it may take for granted   *)
(* of the memory store: an id is handed out once and never again, whatever *)
(* is deleted, and no update changes who a row belongs to.                 *)
(***************************************************************************)
BooksAreATable   == BookTable!Spec
ReviewsAreATable == ReviewTable!Spec

-----------------------------------------------------------------------------
(***************************************************************************)
(* The inductive invariant under it.  The shapes of the variables; a       *)
(* goroutine that is past the Lock and not yet past the Unlock is the one  *)
(* that holds the mutex; what a call has drawn, found and checked fits the *)
(* statement it is at; and the bound on ids is kept.                       *)
(***************************************************************************)
IsCall(q) ==
    /\ q = [pc |-> q.pc, op |-> q.op, kind |-> q.kind, id |-> q.id, arg |-> q.arg, out |-> q.out]
    /\ q.pc \in {"idle", "lock", "body", "insert", "second", "unlock"}
    /\ q.op \in Ops
    /\ q.kind \in Kinds
    /\ q.pc \in {"lock", "body", "second"} /\ q.op \in {"Get", "Update", "Delete"} => q.id \in Ids
    /\ q.pc = "insert" => q.op = "Create" /\ q.id = nextID /\ q.id \in Ids
    /\ q.pc = "second" => q.op = "Update"

IInv ==
    /\ table = [k \in Kinds |-> [i \in Ids |-> table[k][i]]]
    /\ nextID \in Nat
    /\ mu \in Callers \cup {Nil}
    /\ call = [c \in Callers |-> call[c]]
    /\ \A c \in Callers : IsCall(call[c]) /\ (mu = c <=> call[c].pc \notin {"idle", "lock"})
    /\ nextID + Cardinality(Creating) <= MaxId

=============================================================================
