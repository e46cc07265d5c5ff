----------------------------- MODULE ObjectStore -----------------------------
(***************************************************************************)
(* What an object map promises: it holds versions of objects, and a        *)
(* look-up for (o, x) answers in one step with the newest version of o     *)
(* that is not newer than transaction x, with none when there is none, or  *)
(* with an error.                                                          *)
(***************************************************************************)
EXTENDS Integers

CONSTANTS Threads, Targets, Contents

VARIABLES content, busy, target, result, found

vars == <<content, busy, target, result, found>>

NoResult == -2
NoKey == <<0, 0>>

\* The versions a look-up for k may answer with.
Versions(k) == {c \in content : c[1] = k[1] /\ c[2] <= k[2]}

Init ==
    /\ content \in Contents
    /\ busy = [t \in Threads |-> FALSE]
    /\ target = [t \in Threads |-> NoKey]
    /\ result = [t \in Threads |-> NoResult]
    /\ found = [t \in Threads |-> NoKey]

Ask(t) ==
    /\ ~busy[t]
    /\ busy' = [busy EXCEPT ![t] = TRUE]
    /\ \E k \in Targets : target' = [target EXCEPT ![t] = k]
    /\ result' = [result EXCEPT ![t] = NoResult]
    /\ UNCHANGED <<content, found>>

Finish(t, r) ==
    /\ busy[t]
    /\ busy' = [busy EXCEPT ![t] = FALSE]
    /\ result' = [result EXCEPT ![t] = r]
    /\ UNCHANGED <<content, target>>

AnswerFound(t) ==
    /\ Finish(t, 1)
    /\ \E c \in Versions(target[t]) :
        /\ \A d \in Versions(target[t]) : d[2] <= c[2]
        /\ found' = [found EXCEPT ![t] = c]

AnswerNone(t) ==
    /\ Finish(t, 0)
    /\ Versions(target[t]) = {}
    /\ UNCHANGED found

AnswerError(t) == Finish(t, -1) /\ UNCHANGED found

Next == \E t \in Threads :
            Ask(t) \/ AnswerFound(t) \/ AnswerNone(t) \/ AnswerError(t)

Spec == Init /\ [][Next]_vars
=============================================================================
