------------------------------- MODULE Params -------------------------------
(***************************************************************************)
(* The resolution of the parameters of a configuration                     *)
(* (_resolve_declarations in floogen/params.py).  Declarations may refer   *)
(* to earlier and later ones; the function `lookup` calls itself for every *)
(* parameter an expression needs, and its stack `resolving` detects cycles.*)
(* A step is one call or one return of it.                                 *)
(***************************************************************************)
EXTENDS Naturals, Sequences

CONSTANTS
    Resolve(_, _),    \* substitute, for a scalar and the values so far
    Override(_, _)    \* _coerce_override, for a raw override and a value

VARIABLES
    declared,         \* the declarations, by name
    order,            \* the names in the order of the file
    overrides,        \* raw overrides, by name
    resolved,         \* values so far, by name
    resolving,        \* the stack of names whose lookup has not returned
    status            \* "resolving", "resolved", or the exception raised

params == <<declared, order, overrides, resolved, resolving, status>>

Top == resolving[Len(resolving)]
\* Mutant: only the call on top is looked at.
OnlyTop == {Top}
OnStack == {resolving[k] : k \in DOMAIN resolving}

\* What the evaluation of the declaration on top of the stack comes to.
Outcome == Resolve(declared[Top], resolved)

\* Names that are overridden but not declared are refused first.
Start(decls, names, raw) ==
    /\ declared = decls /\ order = names /\ overrides = raw
    /\ resolved = [n \in {} |-> 0]
    /\ resolving = <<>>
    /\ status = IF DOMAIN raw \subseteq DOMAIN decls THEN "resolving" ELSE "ParamError"

Fail(error) ==
    /\ status' = error /\ resolving' = <<>>
    /\ UNCHANGED <<declared, order, overrides, resolved>>

\* Mutant: parameters that have a value are looked up again.
AnyDeclared == order
Open == SelectSeq(order, LAMBDA n : n \notin DOMAIN resolved)

\* The loop over the declarations looks up the next one that has no value.
LookupNext ==
    /\ status = "resolving" /\ resolving = <<>>
    /\ IF Open = <<>>
       THEN status' = "resolved" /\ resolving' = <<>>
       ELSE resolving' = <<Head(Open)>> /\ UNCHANGED status
    /\ UNCHANGED <<declared, order, overrides, resolved>>

\* An expression needs a parameter that has no value yet.
LookupNeeded ==
    /\ status = "resolving" /\ resolving # <<>>
    /\ DOMAIN Outcome = {"need"}
    /\ IF Outcome.need \notin DOMAIN declared \/ Outcome.need \in OnStack
       THEN Fail("ParamError")
       ELSE /\ resolving' = Append(resolving, Outcome.need)
            /\ UNCHANGED <<declared, order, overrides, resolved, status>>

LookupFails ==
    /\ status = "resolving" /\ resolving # <<>>
    /\ DOMAIN Outcome = {"err"}
    /\ Fail(Outcome.err)

\* The value a declaration gets: its own, which an override then replaces.
Value(n, v) == IF n \in DOMAIN overrides THEN Override(overrides[n], v) ELSE [val |-> v]

LookupReturns ==
    /\ status = "resolving" /\ resolving # <<>>
    /\ DOMAIN Outcome = {"val"}
    /\ LET r == Value(Top, Outcome.val)
       IN  IF DOMAIN r = {"err"} THEN Fail(r.err)
           ELSE /\ resolved' = [n \in DOMAIN resolved \cup {Top} |->
                                  IF n = Top THEN r.val ELSE resolved[n]]
                /\ resolving' = SubSeq(resolving, 1, Len(resolving) - 1)
                /\ UNCHANGED <<declared, order, overrides, status>>

ParamsNext == LookupNext \/ LookupNeeded \/ LookupFails \/ LookupReturns

-----------------------------------------------------------------------------
(* Properties *)

\* The names under evaluation are declared, each of them is on the stack once,
\* and only those that have no value yet: resolving can neither loop nor
\* overwrite a value.
StackSound ==
    /\ \A k \in DOMAIN resolving :
          /\ resolving[k] \in DOMAIN declared
          /\ resolving[k] \notin DOMAIN resolved
    /\ \A j, k \in DOMAIN resolving : resolving[j] = resolving[k] => j = k

\* A value is what the declaration, and the override after it, come to with
\* the values of the other parameters, whatever the order they were found in.
IsMeaning(n, v, env) ==
    LET r == Resolve(declared[n], env)
    IN  DOMAIN r = {"val"} /\ Value(n, r.val) = [val |-> v]
ValuesMeant ==
    \A n \in DOMAIN resolved :
       n \in DOMAIN declared /\ IsMeaning(n, resolved[n], resolved)

\* At the end every declared parameter has a value.
AllResolved == status = "resolved" => DOMAIN resolved = DOMAIN declared

ParamsRight == StackSound /\ ValuesMeant /\ AllResolved

=============================================================================
