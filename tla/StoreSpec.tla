----------------------------- MODULE StoreSpec -----------------------------
(***************************************************************************)
(* The contract of store.Store as its test suite exercises it: two tables  *)
(* whose methods, called by any number of goroutines, each take effect at  *)
(* one moment between the call and the return.  A call on an id without a  *)
(* row returns ErrNotFound and changes nothing.                            *)
(*                                                                         *)
(* A call is a record: the caller first fills in the method and its        *)
(* arguments (Call), the store performs it (Perform), the caller gets the  *)
(* result (Return).  A result is a success flag and a set of id-row pairs. *)
(***************************************************************************)
CONSTANTS
    Callers,   \* goroutines that use the store
    Ids,       \* record ids
    Rows,      \* Rows[k]: the rows of kind k that a caller can pass
    Updates,   \* Updates[k]: the updates of kind k, with Nil for a nil pointer
    Nil        \* no row, no argument

Kinds == {"book", "review"}
Ops   == {"Create", "Get", "List", "Update", "Delete"}

VARIABLES
    table,     \* table[k][i]: the row of kind k with id i, or Nil
    used,      \* the ids handed out so far, of both kinds
    call       \* call[c]: the last call of c

specVars == <<table, used, call>>

NoResult == [ok |-> TRUE, rows |-> {}]
NotFound == [ok |-> FALSE, rows |-> {}]
NoCall   == [st |-> "idle", op |-> "Get", kind |-> "book", id |-> Nil, arg |-> Nil,
             result |-> NoResult]

\* The ids and the other argument that the method op of kind k is called with.
Targets(op, k) == IF op = "Create" \/ <<op, k>> = <<"List", "book">> THEN {Nil} ELSE Ids

Arguments(op, k) ==
    IF op = "Create" THEN Rows[k] ELSE IF op = "Update" THEN Updates[k] ELSE {Nil}

Init ==
    /\ table = [k \in Kinds |-> [i \in Ids |-> Nil]]
    /\ used = {}
    /\ call = [c \in Callers |-> NoCall]

SetField(row, u, f) == [row EXCEPT ![f] = IF u[f] = Nil THEN row[f] ELSE u[f]]

\* The two fields that an update of kind k may set.
Field1(k) == IF k = "book" THEN "title" ELSE "content"
Field2(k) == IF k = "book" THEN "status" ELSE "rating"

Apply(k, row, u) == SetField(SetField(row, u, Field1(k)), u, Field2(k))

\* ListBooks returns every book, ListReviews the reviews of the book id.
Listing(k, id) ==
    LET Matches(row) == row # Nil /\ (k = "review" => row.book = id)
    IN  {<<i, table[k][i]>> : i \in {j \in Ids : Matches(table[k][j])}}

-----------------------------------------------------------------------------
Call(c) ==
    /\ call[c].st = "idle"
    /\ \E op \in Ops, k \in Kinds : \E i \in Targets(op, k), a \in Arguments(op, k) :
         call' = [call EXCEPT ![c] = [st |-> "called", op |-> op, kind |-> k, id |-> i,
                                      arg |-> a, result |-> NoResult]]
    /\ UNCHANGED <<table, used>>

Done(c, result) == call' = [call EXCEPT ![c].st = "done", ![c].result = result]

Put(k, i, row) == table' = [table EXCEPT ![k][i] = row]

Create(c) ==
    /\ call[c].op = "Create"
    /\ \E i \in Ids \ used :
         /\ Put(call[c].kind, i, call[c].arg)
         /\ used' = used \cup {i}
         /\ Done(c, [ok |-> TRUE, rows |-> {<<i, call[c].arg>>}])

Missing(c) ==
    /\ call[c].op \in {"Get", "Update", "Delete"}
    /\ table[call[c].kind][call[c].id] = Nil
    /\ Done(c, NotFound)
    /\ UNCHANGED <<table, used>>

\* The method finds the row that it is about.
Found(c, op) == call[c].op = op /\ table[call[c].kind][call[c].id] # Nil

Get(c) ==
    /\ Found(c, "Get")
    /\ Done(c, [ok |-> TRUE, rows |-> {<<call[c].id, table[call[c].kind][call[c].id]>>}])
    /\ UNCHANGED <<table, used>>

List(c) ==
    /\ call[c].op = "List"
    /\ Done(c, [ok |-> TRUE, rows |-> Listing(call[c].kind, call[c].id)])
    /\ UNCHANGED <<table, used>>

Update(c) ==
    LET k   == call[c].kind
        i   == call[c].id
        row == Apply(k, table[k][i], call[c].arg)
    IN  /\ Found(c, "Update")
        /\ Put(k, i, row)
        /\ Done(c, [ok |-> TRUE, rows |-> {<<i, row>>}])
        /\ UNCHANGED used

Delete(c) ==
    /\ Found(c, "Delete")
    /\ Put(call[c].kind, call[c].id, Nil)
    /\ Done(c, NoResult)
    /\ UNCHANGED used

Perform(c) ==
    /\ call[c].st = "called"
    /\ Create(c) \/ Missing(c) \/ Get(c) \/ List(c) \/ Update(c) \/ Delete(c)

Return(c) ==
    /\ call[c].st = "done"
    /\ call' = [call EXCEPT ![c] = NoCall]
    /\ UNCHANGED <<table, used>>

Next == \E c \in Callers : Call(c) \/ Perform(c) \/ Return(c)

Spec == Init /\ [][Next]_specVars

=============================================================================
