---------------------------- MODULE MethodHooks ----------------------------
(***************************************************************************)
(* In which order the hooks of a decorated method are run, and what a hook  *)
(* that throws does to the others and to the answer of the call.  A hook is *)
(* faulty when it throws or when no event can be built from what it asks.   *)
(***************************************************************************)
EXTENDS Sequences, SequencesExt

Hooks == {"before", "after", "throw", "finally"}

\* A hook that is run emits its event, unless it throws.
Told(faulty, hook) == IF hook \in faulty THEN <<>> ELSE <<hook>>

\* try, catch and finally of the synchronous part, once the method has returned a
\* value or thrown.  A hook that throws replaces the result, and the hook `after` comes
\* behind `finally`.
SyncEnd(faulty, result) ==
    IF result = "error"
    THEN [events |-> Told(faulty, "throw") \o Told(faulty, "finally"),
          answer |-> IF faulty \cap {"throw", "finally"} # {} THEN "hook" ELSE "error"]
    ELSE [events |-> IF "finally" \in faulty THEN <<>> ELSE <<"finally">> \o Told(faulty, "after"),
          answer |-> IF faulty \cap {"finally", "after"} # {} THEN "hook" ELSE result]

\* A mutant: nothing follows a promise that is rejected but `throw`.
AsyncEndInTry(faulty, result) ==
    [events |-> IF result = "error" THEN Told(faulty, "throw")
                ELSE Told(faulty, "after") \o Told(faulty, "finally"),
     answer |-> result]

\* The same for a promise.  What `after` throws is taken for a failure of the
\* method; after a `throw` that throws nobody settles the promise of the caller.
AsyncEnd(faulty, result) ==
    LET failed == result = "error" \/ "after" \in faulty
    IN  [events |-> (IF result = "error" THEN <<>> ELSE Told(faulty, "after"))
                    \o (IF failed THEN Told(faulty, "throw") ELSE <<>>) \o Told(faulty, "finally"),
         answer |-> CASE ~failed -> result
                      [] failed /\ "throw" \in faulty -> "none"
                      [] OTHER -> IF result = "error" THEN "error" ELSE "hook"]

\* The hook `before` throws: inside the try block of the metrics, outside that of
\* the logger.
BeforeThrows(kind, faulty) ==
    [events |-> IF kind = "elk" THEN <<>> ELSE Told(faulty, "throw") \o Told(faulty, "finally"),
     answer |-> "hook"]
=============================================================================
