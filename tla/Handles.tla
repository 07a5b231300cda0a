------------------------------ MODULE Handles ------------------------------
(***************************************************************************)
(* Handles (src/adapter/src/handles.ts): numbers that stand for the        *)
(* objects of an adapter, such as stack frames and scopes, until the       *)
(* adapter resets them, usually when the debuggee runs on.                 *)
(*                                                                         *)
(* The objects are numbered in the order in which they are created.  The   *)
(* value stored for one may be falsy in JavaScript: 0, '' or false.        *)
(***************************************************************************)
EXTENDS Integers

CONSTANTS
    StartHandle,    \* the argument of the constructor
    START_HANDLE,   \* the constant of the class, 1000
    MaxCreated      \* bound on the objects created

ASSUME HandlesAssumption ==
    /\ StartHandle \in Int /\ START_HANDLE \in Int
    /\ MaxCreated \in Nat

VARIABLES
    nextHandle,     \* _nextHandle
    handleMap,      \* _handleMap
    falsy,          \* history: whether the value of each object is falsy
    handleOf,       \* history: the handle given to each object
    fresh           \* history: the objects created since the last reset

handlesVars == <<nextHandle, handleMap, falsy, handleOf, fresh>>

created == DOMAIN falsy
Objects == 1..MaxCreated
None    == 0        \* the default that get is called with

HandlesTypeOK ==
    /\ nextHandle \in Int
    /\ DOMAIN handleMap \subseteq Int
    /\ \A h \in DOMAIN handleMap : h < nextHandle /\ handleMap[h] \in created
    /\ \E n \in 0..MaxCreated : created = 1..n
    /\ falsy \in [created -> BOOLEAN] /\ handleOf \in [created -> Int]
    /\ fresh \subseteq created

\* The map holds just the objects made since the last reset, each at its handle.
Current ==
    /\ \A n \in fresh : handleOf[n] \in DOMAIN handleMap /\ handleMap[handleOf[n]] = n
    /\ \A h \in DOMAIN handleMap : handleMap[h] \in fresh

HandlesIInv == HandlesTypeOK /\ Current

\* get: a value that is falsy gives way to the default.
get(h) ==
    IF h \in DOMAIN handleMap /\ ~falsy[handleMap[h]] THEN handleMap[h] ELSE None

\* A plausible bug: the handle is not counted up.
SameHandle == nextHandle
Increment  == nextHandle + 1

create(isFalsy) ==
    \E n \in Objects :
        /\ created = 1..(n - 1)
        /\ handleMap' = [h \in DOMAIN handleMap \cup {nextHandle} |->
                            IF h = nextHandle THEN n ELSE handleMap[h]]
        /\ nextHandle' = Increment
        /\ falsy' = [m \in 1..n |-> IF m = n THEN isFalsy ELSE falsy[m]]
        /\ handleOf' = [m \in 1..n |-> IF m = n THEN nextHandle ELSE handleOf[m]]
        /\ fresh' = fresh \cup {n}

\* A plausible bug: only the numbers start again.
KeptMap == handleMap
NewMap  == [h \in {} |-> None]

\* Whatever the constructor was given, the numbers go on from START_HANDLE.
reset ==
    /\ nextHandle' = START_HANDLE
    /\ handleMap' = NewMap
    /\ fresh' = {}
    /\ UNCHANGED <<falsy, handleOf>>

HandlesInit ==
    /\ nextHandle = StartHandle
    /\ handleMap = [h \in {} |-> None]
    /\ falsy = [n \in {} |-> FALSE] /\ handleOf = [n \in {} |-> 0]
    /\ fresh = {}

HandlesNext == (\E isFalsy \in BOOLEAN : create(isFalsy)) \/ reset

HandlesSpec == HandlesInit /\ [][HandlesNext]_handlesVars

-----------------------------------------------------------------------------
(* Properties *)

\* A handle leads to the object it was made for until the next reset, whatever was
\* created before or since; a falsy value reads as the default.
HandleNamesObject ==
    \A n \in fresh : get(handleOf[n]) = IF falsy[n] THEN None ELSE n

\* A handle that a client has kept from before a reset never leads to an object of
\* that time, although it may lead to a new one: numbers are used again.
OldObjectsForgotten ==
    \A n \in created : get(handleOf[n]) \in fresh \cup {None}
=============================================================================
