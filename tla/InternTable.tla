---------------------------- MODULE InternTable ----------------------------
(***************************************************************************)
(* What jbroot() and rootfs() promise their callers about the strings they *)
(* return (roothide.h, "auto cache"): a table from paths to handles that   *)
(* only grows.  Asking for a path that is in the table answers with the    *)
(* handle it has; asking for a new one puts a handle nobody else has into  *)
(* the table.  Every call takes effect at one instant between its          *)
(* invocation and its return.                                              *)
(***************************************************************************)
EXTENDS Functions

CONSTANTS
    Thread,   \* the callers
    Path,     \* the strings they ask for
    Handle,   \* the pointers that can be returned
    None      \* "no argument", "no answer"

VARIABLES
    table,    \* the interned paths and their handles
    asked,    \* asked[t]: the path t's call is about, None between calls
    answer    \* answer[t]: what t's call will return, None before it is decided

vars == <<table, asked, answer>>

Init ==
    /\ table = [p \in {} |-> None]
    /\ asked = [t \in Thread |-> None]
    /\ answer = [t \in Thread |-> None]

Call(t, p) ==
    /\ asked[t] = None
    /\ asked' = [asked EXCEPT ![t] = p]
    /\ UNCHANGED <<table, answer>>

Hit(t) ==
    /\ asked[t] \in DOMAIN table
    /\ answer[t] = None
    /\ answer' = [answer EXCEPT ![t] = table[asked[t]]]
    /\ UNCHANGED <<table, asked>>

(* The handle given to a new path is answer'[t]: any that no path has yet. *)
Miss(t) ==
    /\ asked[t] \in Path \ DOMAIN table
    /\ answer'[t] \in Handle \ Range(table)
    /\ answer' = [answer EXCEPT ![t] = answer'[t]]
    /\ table' = [p \in DOMAIN table \cup {asked[t]} |->
                     IF p = asked[t] THEN answer'[t] ELSE table[p]]
    /\ UNCHANGED asked

Return(t) ==
    /\ answer[t] # None
    /\ asked' = [asked EXCEPT ![t] = None]
    /\ answer' = [answer EXCEPT ![t] = None]
    /\ UNCHANGED table

Next ==
    \E t \in Thread :
        \/ \E p \in Path : Call(t, p)
        \/ Hit(t)
        \/ Miss(t)
        \/ Return(t)

Spec == Init /\ [][Next]_vars
=============================================================================
