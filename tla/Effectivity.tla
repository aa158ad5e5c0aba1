---------------------------- MODULE Effectivity ----------------------------
(***************************************************************************)
(* Which passages apply to a question: the one rule of the system that is   *)
(* implemented twice.  The domain model states it over Python objects       *)
(* (domain.py), the store states it again as a WHERE fragment               *)
(* (store/effectivity.py), and every retrieval stage trusts the second to   *)
(* mean the first.  The two differ in their logic: Python's is two-valued   *)
(* and tests for None, SQL's is three-valued and lets a comparison with     *)
(* NULL come out as NULL.                                                   *)
(*                                                                          *)
(* Dates and serials are integers, an absent bound is None.  A chunk and a  *)
(* row of the table have the same fields; a query has as_of, known_as_of,   *)
(* language, variant_id and serial.                                         *)
(***************************************************************************)
EXTENDS Integers

CONSTANT None   \* Python's None, SQL's NULL

ASSUME NoneAssumption == None \notin Int

OptInt == Int \union {None}

-----------------------------------------------------------------------------
(* The domain model: two-valued, None tested first. *)

Covers(first, last, serial) ==
    IF serial = None
      THEN first = None /\ last = None
      ELSE /\ first # None => serial >= first
           /\ last # None => serial <= last

\* Mutant: the day a revision ends still counts as its own.
InForceOnLastDay(c, as_of) ==
    /\ c.valid_from <= as_of
    /\ c.valid_to # None => as_of <= c.valid_to

InForceOn(c, as_of) ==
    /\ c.valid_from <= as_of
    /\ c.valid_to # None => as_of < c.valid_to

KnownOn(c, known_as_of) ==
    IF known_as_of = None
      THEN c.known_to = None
      ELSE /\ c.known_from <= known_as_of
           /\ c.known_to # None => known_as_of < c.known_to

VisibleAt(c, as_of, known_as_of) == InForceOn(c, as_of) /\ KnownOn(c, known_as_of)

AppliesTo(c, variant_id, serial) ==
    c.variant_id = variant_id /\ Covers(c.serial_first, c.serial_last, serial)

\* `languages=None` falls back to the query's own; an empty list constrains nothing.
Selected(q, languages) == IF languages = None THEN {q.language} ELSE languages

AppliesInPython(c, q, languages, apply_effectivity) ==
    /\ Selected(q, languages) # {} => c.language \in Selected(q, languages)
    /\ apply_effectivity =>
         /\ VisibleAt(c, q.as_of, q.known_as_of)
         /\ q.variant_id # None => AppliesTo(c, q.variant_id, q.serial)

-----------------------------------------------------------------------------
(* SQL's truth values, ordered so that AND is the least and OR the greatest. *)

SqlFalse == 0
SqlNull == 1
SqlTrue == 2

Sql(b) == IF b THEN SqlTrue ELSE SqlFalse
SqlAnd(a, b) == IF a <= b THEN a ELSE b
SqlOr(a, b) == IF a <= b THEN b ELSE a

IsNull(x) == Sql(x = None)
SqlLeq(x, y) == IF x = None \/ y = None THEN SqlNull ELSE Sql(x <= y)
SqlLess(x, y) == IF x = None \/ y = None THEN SqlNull ELSE Sql(x < y)

AsOfPredicate(r, as_of) ==
    SqlAnd(SqlLeq(r.valid_from, as_of),
           SqlOr(IsNull(r.valid_to), SqlLess(as_of, r.valid_to)))

KnownAsOfPredicate(r, known_as_of) ==
    SqlAnd(SqlLeq(r.known_from, known_as_of),
           SqlOr(IsNull(r.known_to), SqlLess(known_as_of, r.known_to)))

CurrentKnowledgePredicate(r) == IsNull(r.known_to)

SerialPredicate(r, serial) ==
    IF serial = None
      THEN SqlAnd(IsNull(r.serial_first), IsNull(r.serial_last))
      ELSE SqlAnd(SqlOr(IsNull(r.serial_first), SqlLeq(r.serial_first, serial)),
                  SqlOr(IsNull(r.serial_last), SqlLeq(serial, r.serial_last)))

\* The fragment candidate_filter assembles: a clause that is not added is TRUE.
CandidateFilter(r, q, languages, apply_effectivity) ==
    LET knowledge == IF q.known_as_of = None
                       THEN CurrentKnowledgePredicate(r)
                       ELSE KnownAsOfPredicate(r, q.known_as_of)
        language == Sql(Selected(q, languages) # {} => r.language \in Selected(q, languages))
        machine == IF q.variant_id = None
                     THEN SqlTrue
                     ELSE SqlAnd(Sql(r.variant_id = q.variant_id), SerialPredicate(r, q.serial))
        effectivity == IF apply_effectivity
                         THEN SqlAnd(SqlAnd(AsOfPredicate(r, q.as_of), knowledge), machine)
                         ELSE SqlTrue
    IN  SqlAnd(effectivity, language)

\* WHERE keeps a row only when the predicate is TRUE, neither FALSE nor NULL.
SelectedBySql(r, q, languages, apply_effectivity) ==
    CandidateFilter(r, q, languages, apply_effectivity) = SqlTrue

-----------------------------------------------------------------------------
(* What the columns can hold: the loader writes them from validated models. *)

WellFormedRow(r) ==
    /\ r.valid_from \in Int
    /\ r.known_from \in Int
    /\ r.valid_to \in OptInt
    /\ r.known_to \in OptInt
    /\ r.serial_first \in OptInt
    /\ r.serial_last \in OptInt

WellFormedQuery(q) ==
    /\ q.as_of \in Int
    /\ q.known_as_of \in OptInt
    /\ q.serial \in OptInt
=============================================================================
