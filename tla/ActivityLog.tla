---------------------------- MODULE ActivityLog ----------------------------
(***************************************************************************)
(* The log of what users do (usr_activities): rows written as the panel    *)
(* reports them, read page by page with the time of the last row as the    *)
(* cursor, and counted for the report on the partners' logins.  Postgres   *)
(* keeps microseconds, the cursor is a JavaScript date and has only        *)
(* milliseconds.                                                           *)
(***************************************************************************)
EXTENDS Integers, Sequences, FiniteSets, FiniteSetsExt

CONSTANTS
  Users,
  Companies,
  CompanyOf,  \* CompanyOf[u]: usr.id_company, None when he has none
  WrittenFor, \* WrittenFor[u]: the company his session names, which need not be the same
  External,   \* users that are not ICT and are administrators or managers
  None,
  Grain,      \* units of time of Postgres in a millisecond
  MaxTime,    \* bound on the clock
  MaxRows,    \* bound on the log
  Limit       \* rows of a page

ActivityLogAssumption ==
  /\ CompanyOf \in [Users -> Companies \cup {None}] /\ None \notin Companies \cup Nat
  /\ WrittenFor \in [Users -> Companies \cup {None}]
  /\ External \subseteq Users /\ IsFiniteSet(External)
  /\ Grain \in Nat \ {0} /\ MaxTime \in Nat /\ MaxRows \in Nat /\ Limit \in Nat \ {0}

VARIABLES
  now,
  log,      \* rows [id, user, company, action, at]; the ids are 1, 2, ...
  visible,  \* ids of the rows that are committed
  list,     \* the list that is being read: [of, cursor, more]
  pages,    \* history: the pages shown, as sets of ids
  base      \* history: the ids of the list that were committed when its first page was read

vars == <<now, log, visible, list, pages, base>>

NoList == [of |-> None, cursor |-> None, more |-> FALSE]

Init ==
  /\ now = 0 /\ log = {} /\ visible = {}
  /\ list = NoList /\ pages = <<>> /\ base = {}

Row(id) == CHOOSE r \in log : r.id = id
Time(id) == Row(id).at
Milli(t) == t \div Grain

\* The rows of a user, or of a company: written for it, or by who belongs to it now.
Of(x) == {r.id : r \in {q \in log : IF x \in Users THEN q.user = x
                                    ELSE x \in {q.company, CompanyOf[q.user]}}}
Listed(x) == Of(x) \cap visible

-----------------------------------------------------------------------------
\* The panel reports an action; created_at is the time the INSERT began.  (An
\* INSERT that fails leaves no trace: UserActivityService.logActivity.)
Track(u) ==
  /\ Cardinality(log) < MaxRows
  /\ \E action \in {"LOGIN", "VIEW"} :
       log' = log \cup {[id |-> Cardinality(log) + 1, user |-> u,
                         company |-> WrittenFor[u], action |-> action, at |-> now]}
  /\ UNCHANGED <<now, visible, list, pages, base>>

Commit(id) ==
  /\ id \in {r.id : r \in log} \ visible
  /\ visible' = visible \cup {id}
  /\ UNCHANGED <<now, log, list, pages, base>>

\* One row more than the page tells whether there is another; rows of one time come in
\* any order.
Page(x, before) ==
  LET rows == {id \in Listed(x) : before # None => Time(id) < before}
      size == IF Cardinality(rows) > Limit THEN Limit ELSE Cardinality(rows)
  IN  \E page \in kSubset(size, rows) :
        /\ \A id \in page, other \in rows \ page : Time(id) >= Time(other)
        /\ pages' = IF before = None THEN <<page>> ELSE Append(pages, page)
        /\ list' = IF page # rows
                     THEN [of |-> x, more |-> TRUE,
                           cursor |-> Grain * Milli(Min({Time(id) : id \in page}))]
                     ELSE [of |-> x, cursor |-> None, more |-> FALSE]
        /\ UNCHANGED <<now, log, visible>>

FirstPage(x) == Page(x, None) /\ base' = Listed(x)
NextPage == list.more /\ Page(list.of, list.cursor) /\ UNCHANGED base

Tick ==
  /\ now < MaxTime /\ now' = now + 1
  /\ UNCHANGED <<log, visible, list, pages, base>>

Next ==
  \/ \E u \in Users : Track(u)
  \/ \E id \in 1..MaxRows : Commit(id)
  \/ \E x \in Users \cup Companies : FirstPage(x)
  \/ NextPage \/ Tick

-----------------------------------------------------------------------------
(* The report on the partners' logins: every external user, with or without  *)
(* a row in the period; the companies are made of the rows of their users.   *)

Within(id, from, to) == (from # None => Time(id) >= from) /\ (to # None => Time(id) <= to)
Did(u, action, from, to) ==
  {id \in Listed(u) : Row(id).action = action /\ Within(id, from, to)}

PartnerRow(u, from, to) ==
  [user |-> u, company |-> CompanyOf[u], logins |-> Cardinality(Did(u, "LOGIN", from, to))]

\* The sum of a column.
Total(field, rows) == MapThenSumSet(LAMBDA row : row[field], rows)

CompanyRows(from, to) ==
  LET users == {PartnerRow(u, from, to) : u \in External}
      of(c) == {p \in users : p.company = c}
  IN  {[company |-> c, users |-> Cardinality(of(c)), logins |-> Total("logins", of(c)),
        active |-> Cardinality({p \in of(c) : p.logins > 0})] : c \in {p.company : p \in users}}

Totals(from, to) ==
  LET rows == CompanyRows(from, to)
  IN  [companies |-> Cardinality(rows), users |-> Total("users", rows),
       active |-> Total("active", rows), logins |-> Total("logins", rows),
       activeCompanies |-> Cardinality({c \in rows : c.logins > 0})]

-----------------------------------------------------------------------------
(* Properties *)

\* The log, the list and the pages are what the code can make of them.
TypeOK ==
  /\ now \in 0..MaxTime
  /\ \A r \in log : /\ r.id \in 1..MaxRows /\ r.user \in Users /\ r.at \in 0..now
                    /\ r.company \in Companies \cup {None} /\ r.action \in {"LOGIN", "VIEW"}
  /\ visible \subseteq {r.id : r \in log} /\ base \subseteq visible
  /\ list.more = (list.cursor # None)
  /\ \A i \in DOMAIN pages : pages[i] \subseteq visible /\ Cardinality(pages[i]) <= Limit

\* Who reads a list to its end sees no row twice, the younger ones first, and every row
\* that was there when he began but for those of the millisecond in which a page ended
\* (getUserActivities, getCompanyActivities).
PagesSound ==
  /\ \A i, j \in DOMAIN pages : i < j =>
       \A young \in pages[i], old \in pages[j] : young # old /\ Time(young) >= Time(old)
  /\ ~list.more => \A id \in base \ UNION {pages[i] : i \in DOMAIN pages} :
       \E i \in DOMAIN pages : \E last \in pages[i] :
         /\ \A other \in pages[i] : Time(last) <= Time(other)
         /\ Milli(Time(last)) = Milli(Time(id))

\* The totals of the report are those of the log: each login of an external user in the
\* period counts once, whatever company it was written for, and the users without one
\* are there (getExternalPartnersLoginReport).
ReportAddsUp ==
  \A from, to \in {None} \cup 0..MaxTime :
    LET logins == {id \in visible : /\ Row(id).user \in External /\ Row(id).action = "LOGIN"
                                    /\ Within(id, from, to)}
        totals == Totals(from, to)
    IN  /\ totals.logins = Cardinality(logins)
        /\ totals.users = Cardinality(External)
        /\ totals.active = Cardinality({Row(id).user : id \in logins})
        /\ totals.activeCompanies = Cardinality({CompanyOf[Row(id).user] : id \in logins})
=============================================================================
