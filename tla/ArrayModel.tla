---------------------------- MODULE ArrayModel -----------------------------
(***************************************************************************)
(* What the language promises of arrays and structs in storage.            *)
(*                                                                         *)
(* There are two of them, target and source, each a sequence of values.    *)
(* Requests change the target; the source is only assigned as a whole.  An *)
(* array that grows starts empty, a fixed array or a struct has a value in *)
(* every place from the beginning.  answer is the outcome of the last      *)
(* request; after a panic nothing has changed.  StorageLayout implements   *)
(* this with slots and bytes.                                              *)
(***************************************************************************)
EXTENDS Integers, Sequences, SequencesExt

CONSTANT
    MaxArrayLength    \* the length from which on growing or copying may fail

VARIABLES
    target, source,   \* the two arrays or structs
    places,           \* 0 if they grow, else the number of values of each
    request, answer   \* the last request and its outcome: done or panic

amVars == <<target, source, places, request, answer>>

\* What may be asked.
Requests ==
    [op : {"pop", "delete", "copy", "self"}]
    \cup [op : {"push"}, value : Int]
    \cup [op : {"write"}, index : Nat, value : Int]
    \cup [op : {"assign", "fill"}, values : Seq(Int)]

Grows(a) == places[a] = 0
Zeros(n) == [i \in 1..n |-> 0]

AMInit ==
    /\ target = Zeros(places["target"])
    /\ source = Zeros(places["source"])
    /\ request = [op |-> "none"] /\ answer = "done"

\* A sequence assigned to a fixed array with more places leaves zeros behind.
Assigned(a, s) ==
    IF Grows(a) THEN s
    ELSE [i \in 1..places[a] |-> IF i \in DOMAIN s THEN s[i] ELSE 0]

\* The contents of the target after a request that succeeds.
Result(r) ==
    CASE r.op = "push" -> Append(target, r.value)
      [] r.op = "pop" -> Front(target)
      [] r.op = "write" -> [target EXCEPT ![r.index] = r.value]
      [] r.op = "delete" -> Assigned("target", <<>>)
      [] r.op = "assign" -> Assigned("target", r.values)
      [] r.op = "copy" -> Assigned("target", source)
      [] OTHER -> target

\* Removing from an empty array and leaving its bounds must fail.
MustFail(r) ==
    \/ r.op = "pop" /\ target = <<>>
    \/ r.op = "write" /\ r.index \notin DOMAIN target

\* Lengths at the limit may be refused, by an operation that makes or copies one.
MayFail(r) ==
    \/ r.op = "push" /\ Len(target) >= MaxArrayLength
    \/ r.op \in {"assign", "fill"} /\ Len(r.values) >= MaxArrayLength
    \/ r.op = "copy" /\ Len(source) >= MaxArrayLength

Succeed(r) ==
    /\ ~MustFail(r)
    /\ answer' = "done"
    /\ target' = Result(r)
    /\ source' = IF r.op = "fill" THEN Assigned("source", r.values) ELSE source

Fail(r) ==
    /\ MustFail(r) \/ MayFail(r)
    /\ answer' = "panic"
    /\ UNCHANGED <<target, source>>

AMNext ==
    /\ request' \in Requests
    /\ UNCHANGED places
    /\ Succeed(request') \/ Fail(request')

AMSpec == AMInit /\ [][AMNext]_amVars
=============================================================================
