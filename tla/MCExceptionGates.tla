--------------------------- MODULE MCExceptionGates ---------------------------
(* Small repositories for ExceptionGates.  The gates read different files,   *)
(* so these are varied one gate at a time.                                   *)
EXTENDS ExceptionGates, SequencesExt

\* Up to two exceptions, each good or wrong in any way the gate looks at.
Exceptions ==
  [id : {"a1", "a2"}, package : {"p"}, reason : BOOLEAN, added : {0, 2, NaN},
   expires : {1, 3, NaN}, services : {"absent", "malformed", "s1", "s2"}]

Advisories ==
  {[id |-> i, pkg |-> "p", severity |-> s, fixable |-> f] :
     i \in {"a1", "a2"}, s \in {"moderate", "high"}, f \in BOOLEAN}

UpToTwo(S) == {{}} \cup {{a, b} : a, b \in S}

Lists == UpToTwo({e \in Exceptions : e.reason \/ (e.id = "a1" /\ e.added # NaN)})
Audits == {A \in UpToTwo(Advisories) : \A a, b \in A : a.id = b.id => a = b}

\* Every file of up to n lines whose entries have the given dates.
Files(dates, n) ==
  BoundedSeq({[kind |-> k, exp |-> Missing] : k \in {"blank", "comment", "empty comment"}}
               \cup {[kind |-> "entry", exp |-> d] : d \in dates}, n)

Dates == {Missing, NaN, 0, 1, 2, 3, 4}

MCRepositories ==
  [list : Lists, audit : Audits, text : {<<>>}]
    \cup [list : {{}}, audit : {{}}, text : Files(Dates, 4)]
=============================================================================
