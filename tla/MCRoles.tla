------------------------------ MODULE MCRoles ------------------------------
(***************************************************************************)
(* Roles for TLC: two instances that start on one database, with crashes   *)
(* and a change of the roles; a request in the guard among changes of the  *)
(* roles; a client that lists the roles, or searches them, while some come *)
(* and go.  A page holds fewer than the permissions there are, as in the   *)
(* code (10 of 18).                                                        *)
(***************************************************************************)
EXTENDS Roles

MCSorted == <<"auditor", "guest", "super_admin", "viewer">>
MCActivities == {{"start"}, {"guard"}, {"list"}}

(* In the order of their bytes. *)
MCTexts == <<"-Infinity", "007", "2025-05-01", "2025-05-01T09:30:00.000Z", "2025-05-02",
             "2025-05-02T12:00:00.000Z", "7", "Guest", "Infinity", "Super Administrator",
             "admin", "auditor", "guest", "null", "super_admin", "viewer", "wer">>

MCDays == {"2025-05-01", "2025-05-02"}

MCReads == [t \in Range(MCTexts) |-> CASE t = "007" -> "7" [] t = "null" -> None [] OTHER -> t]

(* Case does not matter; an underscore is part of a word. *)
MCWithin == {<<t, t>> : t \in Range(MCTexts)}
  \union {<<"guest", "Guest">>, <<"admin", "super_admin">>,
          <<"admin", "Super Administrator">>, <<"wer", "viewer">>}
MCWords == {<<t, t>> : t \in Range(MCTexts)} \union {<<"guest", "Guest">>}

(* The roles of the seeder come first; those that users create have no     *)
(* display name, and deleted_at is stored as null in all.                  *)
MCContent ==
  [d \in Range(MCSorted) |->
     [name |-> d, deleted_at |-> None,
      created_at |-> IF d \in {"guest", "super_admin"} THEN "2025-05-01T09:30:00.000Z"
                                                     ELSE "2025-05-02T12:00:00.000Z",
      display_name |-> CASE d = "guest" -> "Guest"
                         [] d = "super_admin" -> "Super Administrator"
                         [] OTHER -> Absent]]

Term(f, v) == [field |-> f, values |-> v]
With(f, o) == [field |-> f, operator |-> o]
Null(f, set) == [field |-> f, set |-> set]
Dates(f, from, to) == [field |-> f, from |-> from, to |-> to]
Ask(s, f) == [NoSearch EXCEPT !.search = s, !.searchFields = f]

(* Queries, and by hand what each asks for. *)
MCTable ==
  LET all == Range(MCSorted)
      row(q, m) == [query |-> q, means |-> m]
      twoTerms == Ask(<<Term("name", <<"admin">>), Term("display_name", <<"guest">>)>>,
                         <<With("display_name", "contains")>>)
  IN {row(NoSearch, all),
      row([NoSearch EXCEPT !.orderBy = TRUE], all),
      row(twoTerms, {"super_admin", "guest"}),
      row([twoTerms EXCEPT !.searchJoin = "and"], {}),
      row(Ask(<<Term("name", <<"wer">>), Term("name", <<"admin">>)>>, <<>>),
          {"viewer", "super_admin"}),
      row([Ask(<<Term("name", <<"guest">>)>>, <<With("name", "!=")>>)
             EXCEPT !.orderBy = TRUE], all \ {"guest"}),
      row([Ask(<<Term("name", <<"guest", "viewer">>)>>, <<With("name", "in")>>)
             EXCEPT !.searchNull = Null("display_name", FALSE)], {"viewer"}),
      row(Ask(<<Term("name", <<"auditor", "super_admin">>)>>, <<With("name", "between")>>),
          {"auditor", "guest", "super_admin"}),
      row(Ask(<<Term("name", <<"auditor">>)>>, <<With("name", "between")>>), all),
      row(Ask(<<Term("name", <<"guest">>), Term("display_name", <<"Guest">>)>>,
                 <<With("name", ">"), With("display_name", "notexist")>>),
          {"auditor", "super_admin", "viewer"}),
      row(Ask(<<Term("deleted_at", <<"7">>)>>, <<With("deleted_at", "exist")>>), all),
      row(Ask(<<Term("deleted_at", <<"7">>)>>, <<With("deleted_at", "notexist")>>), {}),
      row([NoSearch EXCEPT !.searchDate =
             Dates(None, "2025-05-01", "2025-05-01T09:30:00.000Z")], {"guest", "super_admin"}),
      row([NoSearch EXCEPT !.searchDate = Dates("created_at", "2025-05-02", None),
                           !.searchNull = Null("display_name", FALSE)], {"auditor", "viewer"}),
      row([NoSearch EXCEPT !.searchDate = Dates("created_at", None, "2025-05-02")], all),
      row([NoSearch EXCEPT !.searchNull = Null("display_name", TRUE)],
          {"guest", "super_admin"}),
      row([NoSearch EXCEPT !.searchNull = Null("deleted_at", TRUE)], {}),
      row(Ask(<<Term("name", <<"null">>)>>, <<>>), {}),
      row(Ask(<<Term("name", <<"007">>)>>, <<With("name", "<=")>>), {}),
      row(Ask(<<Term("name", <<"guest">>)>>, <<With("name", "near")>>), {})}

MCQueries == {r.query : r \in MCTable}
MCMeant == [q \in MCQueries |-> (CHOOSE r \in MCTable : r.query = q).means]
==============================================================================
