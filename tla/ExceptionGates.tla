---------------------------- MODULE ExceptionGates ----------------------------
(***************************************************************************)
(* The two CI gates that allow exceptions for a time: the dependency gate    *)
(* (security/dependency-scan/gate.mjs) on an npm audit report and a list of  *)
(* exceptions, and the image gate (security/image-scan/gate.mjs) on a        *)
(* .trivyignore file.  Days go by and nobody touches the repository.         *)
(*                                                                         *)
(* Dates are day numbers; NaN is what Date.parse returns for anything that   *)
(* is not a date.  A line of .trivyignore is blank, a comment (with or       *)
(* without text) or an entry, whose exp: date may be missing.                *)
(***************************************************************************)
EXTENDS Integers, Sequences

CONSTANTS
  Repositories,  \* the files to try: records with fields list, audit and text
  Service,       \* SERVICE
  MAX_EXCEPTION_DAYS,
  LastDay        \* bound: the days that go by

\* A date that is none, and an entry without one.
NaN == -1
Missing == -2
Date == Nat \cup {NaN}

Line == [kind : {"blank", "comment", "empty comment", "entry"}, exp : Date \cup {Missing}]

ASSUME DaysAssumption == MAX_EXCEPTION_DAYS \in Nat /\ LastDay \in Nat

ASSUME RepositoriesAssumption ==
  \A r \in Repositories : /\ \A e \in r.list : e.added \in Date /\ e.expires \in Date
                          /\ r.text \in Seq(Line)

VARIABLES
  repo,   \* list: exceptions, audit: advisories, text: lines of .trivyignore
  today

gateVars == <<repo, today>>

BLOCKING == {"high", "critical"}

GatesInit == repo \in Repositories /\ today = 0

-----------------------------------------------------------------------------
isFinite(d) == d # NaN

badServices(e) == e.services = "malformed"

\* Mutant: an exception counts from the day it was added.
validFromAdded(e, day) ==
  /\ e.reason
  /\ isFinite(e.added) /\ isFinite(e.expires)
  /\ e.expires - e.added <= MAX_EXCEPTION_DAYS
  /\ e.added <= day /\ e.expires >= day
  /\ ~badServices(e)

\* checkExceptions finds no problem with e.
valid(e, day) ==
  /\ e.reason
  /\ isFinite(e.added) /\ isFinite(e.expires)
  /\ e.expires - e.added <= MAX_EXCEPTION_DAYS
  /\ e.expires >= day
  /\ ~badServices(e)

problems(day) == {e \in repo.list : ~valid(e, day)}

appliesTo(e, a) ==
  /\ e.id = a.id /\ e.package = a.pkg
  /\ e.services = "absent" \/ e.services = Service

status(a, day) ==
  IF \E e \in repo.list : valid(e, day) /\ appliesTo(e, a) THEN "excepted"
  ELSE IF a.fixable THEN "blocking" ELSE "no fix"

blocking(day) ==
  {a \in repo.audit : a.severity \in BLOCKING /\ status(a, day) = "blocking"}

\* The verdict of the dependency gate.
dependenciesOk(day) == blocking(day) = {} /\ problems(day) = {}

-----------------------------------------------------------------------------
\* The loop of parse: the entries so far, and whether a comment has given a
\* reason for the next one.
start == [entries |-> <<>>, reason |-> FALSE]

\* Mutant: a blank line keeps the reason.
parseLineKeeping(acc, line) ==
  CASE line.kind = "blank" -> acc
    [] line.kind = "comment" -> [acc EXCEPT !.reason = TRUE]
    [] line.kind = "empty comment" -> [acc EXCEPT !.reason = FALSE]
    [] line.kind = "entry" ->
         [entries |-> Append(acc.entries, [reason |-> acc.reason, exp |-> line.exp]),
          reason |-> FALSE]

parseLine(acc, line) ==
  CASE line.kind \in {"blank", "empty comment"} -> [acc EXCEPT !.reason = FALSE]
    [] line.kind = "comment" -> [acc EXCEPT !.reason = TRUE]
    [] line.kind = "entry" ->
         [entries |-> Append(acc.entries, [reason |-> acc.reason, exp |-> line.exp]),
          reason |-> FALSE]

\* after(lines)[n]: what the loop has when it has seen n lines.
after(lines) ==
  LET f[n \in 0..Len(lines)] == IF n = 0 THEN start ELSE parseLine(f[n - 1], lines[n])
  IN  f

parse(lines) == after(lines)[Len(lines)].entries

\* Comparing NaN with anything is false: no problem is found.
tooLate(d, day) == d # NaN /\ d - day > MAX_EXCEPTION_DAYS

problem(e, day) == ~e.reason \/ e.exp = Missing \/ tooLate(e.exp, day)

\* The verdict of the image gate.
imagesOk(day) ==
  \A i \in DOMAIN parse(repo.text) : ~problem(parse(repo.text)[i], day)

(* A day goes by.                                                            *)
NextDay ==
  /\ today < LastDay
  /\ today' = today + 1
  /\ UNCHANGED repo

GatesNext == NextDay

GatesSpec == GatesInit /\ [][GatesNext]_gateVars

-----------------------------------------------------------------------------
(* Waiting does not make the dependency gate pass.                           *)
WaitingNeverHelps == [][dependenciesOk(today') => dependenciesOk(today)]_gateVars

(* The image gate passes exactly the files in which every entry has a        *)
(* comment with text on the line directly above it and a date, at most the   *)
(* maximum from today unless it only looks like one (2026-13-01).            *)
ImageVerdictRight ==
  imagesOk(today) <=> \A i \in DOMAIN repo.text : repo.text[i].kind = "entry" =>
    /\ i > 1 /\ repo.text[i - 1].kind = "comment"
    /\ \/ repo.text[i].exp = NaN
       \/ repo.text[i].exp \in 0..(today + MAX_EXCEPTION_DAYS)

(* What the head of image-scan/gate.mjs says, without that exemption; the    *)
(* README tells of it.                                                       *)
EntriesDated ==
  imagesOk(today) => \A i \in DOMAIN repo.text : repo.text[i].kind = "entry" =>
    repo.text[i].exp \in 0..(today + MAX_EXCEPTION_DAYS)
=============================================================================
