----------------------------- MODULE Callables -----------------------------
(***************************************************************************)
(* AK/Function.h: two Functions whose callables, while they run, may call  *)
(* assign and clear either Function; clearing one that is being called is  *)
(* put off until its last call returns.  AK/Optional.h and AK/Variant.h:   *)
(* two of each, whose storage holds an object of one alternative or none.  *)
(* A failing VERIFY stops the program, so it is a guard.                   *)
(***************************************************************************)
EXTENDS Integers, Sequences, FiniteSets, SequencesExt

CONSTANTS Callable,    \* callables that may be put into a Function
          Alternative, \* the types of a Variant, the first of them of an Optional
          Empty, Null,
          MaxNesting   \* bound: calls in progress

Name == {"x", "y"}

VARIABLE holder

Functions ==
    [kind |-> "function", callable |-> [f \in Name |-> Null], deferred |-> [f \in Name |-> FALSE],
     live |-> {},                  \* callables constructed and not destroyed
     calls |-> <<>>]               \* the calls in progress, the innermost last
Storages(kind) ==
    [kind |-> kind, index |-> [v \in Name |-> Empty],
     data |-> [v \in Name |-> Empty],          \* the object in m_data
     fault |-> FALSE]                          \* built over, or destroyed as something else

-----------------------------------------------------------------------------
(* Function                                                                *)

IsFunction == holder.kind = "function"
Nesting(h, f) == Cardinality({i \in DOMAIN h.calls : h.calls[i].of = f})

\* clear(may_defer)
\* Mutant: it never puts off.
NeverDefers(h, f) == FALSE
Defers(h, f) == Nesting(h, f) > 0
Cleared(h, f) ==
    IF Defers(h, f) THEN [h EXCEPT !.deferred[f] = TRUE]
    ELSE [h EXCEPT !.deferred[f] = FALSE, !.callable[f] = Null, !.live = @ \ {h.callable[f]}]

\* operator=(callable): clear, then init_with_callable, which VERIFYs that no call is in progress
AssignCallable(f, c) ==
    LET h == Cleared(holder, f)
    IN  /\ IsFunction /\ c \in Callable \ holder.live /\ Nesting(holder, f) = 0
        /\ holder' = [h EXCEPT !.callable[f] = c, !.live = @ \union {c}]
AssignNull(f) == IsFunction /\ holder' = Cleared(holder, f)

\* move_from: an outline wrapper changes hands; an inline callable is moved out of the other
\* wrapper, which is forgotten.
AssignMoved(f, g) ==
    LET h == Cleared(holder, f)
    IN  /\ IsFunction /\ f # g /\ Nesting(holder, f) = 0 /\ Nesting(holder, g) = 0
        /\ holder' = [h EXCEPT !.callable = [h.callable EXCEPT ![f] = h.callable[g], ![g] = Null]]

Call(f) ==
    /\ IsFunction /\ holder.callable[f] # Null /\ Len(holder.calls) < MaxNesting
    /\ holder' = [holder EXCEPT !.calls = Append(@, [of |-> f, runs |-> holder.callable[f]])]

\* The guard of operator(): the last call to return clears what was put off.
\* Mutant: any call that returns does.
EveryReturnClears(h, f) == h.deferred[f]
\* Mutant: what was put off is forgotten.
NoReturnClears(h, f) == FALSE
ClearsOnReturn(h, f) == Nesting(h, f) = 0 /\ h.deferred[f]
Return ==
    LET f == Last(holder.calls).of
        h == [holder EXCEPT !.calls = Front(@)]
    IN  /\ IsFunction /\ holder.calls # <<>>
        /\ holder' = IF ClearsOnReturn(h, f)
                     THEN [h EXCEPT !.deferred[f] = FALSE, !.callable[f] = Null,
                                    !.live = @ \ {h.callable[f]}]
                     ELSE h

-----------------------------------------------------------------------------
(* Storage of an Optional (index Empty: no value) or a Variant             *)

\* new (&m_storage) T(...)
Construct(h, v, type) ==
    [h EXCEPT !.data[v] = type, !.fault = @ \/ h.data[v] # Empty]
\* Helper::delete_ destroys the alternative that m_index says.
Delete(h, v) ==
    IF h.index[v] = Empty THEN h
    ELSE [h EXCEPT !.data[v] = Empty, !.fault = @ \/ h.data[v] # h.index[v]]
WithIndex(h, v, type) == [h EXCEPT !.index[v] = type]

OptionalType == CHOOSE t \in Alternative : TRUE
Types(kind) == IF kind = "optional" THEN {OptionalType} ELSE Alternative

\* emplace, assignment of a value: clear() first; Variant::set: delete_ first
SetValue(v, type) ==
    /\ holder.kind \in {"optional", "variant"} /\ type \in Types(holder.kind)
    /\ holder' = WithIndex(Construct(Delete(holder, v), v, type), v, type)

\* Copy assignment; move assignment of a Variant leaves a moved-from object behind, that of
\* an Optional releases the other's value.
\* Mutant: the other's value stays, its flag does not.
FlagOnly(h, w) == WithIndex(h, w, Empty)
Released(h, w) == WithIndex(Delete(h, w), w, Empty)
Transferred(h, v, w) ==
    LET d == WithIndex(Delete(h, v), v, h.index[w])
    IN  IF h.index[w] = Empty THEN d ELSE Construct(d, v, h.index[w])
CopyValue(v, w) ==
    /\ ~IsFunction /\ v # w /\ holder' = Transferred(holder, v, w)
MoveValue(v, w) ==
    /\ ~IsFunction /\ v # w
    /\ holder' = IF holder.kind = "optional" /\ holder.index[w] # Empty
                 THEN Released(Transferred(holder, v, w), w) ELSE Transferred(holder, v, w)
ClearValue(v) ==
    /\ holder.kind = "optional" /\ holder' = Released(holder, v)

-----------------------------------------------------------------------------

\* A Variant always holds one of its alternatives.
SomeVariant == [Storages("variant") EXCEPT !.index = [v \in Name |-> OptionalType],
                                           !.data = [v \in Name |-> OptionalType]]
Init == holder \in {Functions, Storages("optional"), SomeVariant}
Next ==
    \/ \E f \in Name : AssignNull(f) \/ Call(f) \/ \E c \in Callable : AssignCallable(f, c)
    \/ \E f, g \in Name : AssignMoved(f, g) \/ CopyValue(f, g) \/ MoveValue(f, g)
    \/ Return
    \/ \E v \in Name : ClearValue(v) \/ \E type \in Alternative : SetValue(v, type)
Spec == Init /\ [][Next]_holder

-----------------------------------------------------------------------------
(* Properties                                                              *)

\* A callable that runs is not destroyed under its own call, however deep.
RunningIsAlive ==
    IsFunction => \A i \in DOMAIN holder.calls :
        holder.calls[i].runs \in holder.live /\ holder.callable[holder.calls[i].of] = holder.calls[i].runs

\* Exactly the callables that a Function holds are alive, and a clearing that was put off
\* has happened when no call is in progress.
CallablesOwned ==
    IsFunction =>
        /\ holder.live = {holder.callable[f] : f \in Name} \ {Null}
        /\ holder.callable["x"] = holder.callable["y"] => holder.callable["x"] = Null
        /\ \A f \in Name : holder.deferred[f] => Nesting(holder, f) > 0

\* The storage holds an object of the type the index says, and none when it says so; none
\* was built over another.
StorageMatches == ~IsFunction => holder.data = holder.index /\ ~holder.fault
=============================================================================
