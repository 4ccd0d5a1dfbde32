----------------------------- MODULE MC_QueryApi -----------------------------
(* Small instances of QueryApi: ties and NULLs in the times, pages of one and *)
(* two rows, texts with the characters that LIKE and COPY treat specially.    *)
EXTENDS QueryApi

Line(ts, severity, message, component) ==
  [ts |-> ts, severity |-> severity, message |-> message, component |-> component]

MCBatches == {<<Line(1, 0, <<"a">>, Null), Line(1, 2, <<"A", "%">>, <<"\\", "N">>)>>,
              <<Line(Null, 1, <<"\\">>, <<"TAB">>), Line(Null, 0, <<"a">>, Null)>>,
              <<Line(2, 1, <<"_", "a">>, Null)>>}

Rows4(s, f, e, a) == [sessions |-> s, files |-> f, entries |-> e, audit |-> a]
MCBudgets == {Rows4(3, 0, 0, 0), Rows4(1, 3, 0, 0), Rows4(1, 3, 4, 0), Rows4(0, 0, 0, 3)}

NoFilter == [file |-> Null, severity |-> Null, after |-> Null, before |-> Null, q |-> Null]

Walk(list, of, filter, limit) ==
  [list |-> list, of |-> of, filter |-> filter, limit |-> limit, cursor |-> Null]

\* The texts searched for: Postgres takes any, SQLite only plain ones.
MCTexts(engine) == {<<"a">>} \cup (IF engine = "postgres" THEN {<<"%">>, <<"\\">>, <<"_">>} ELSE {})

MCListings ==
  {Walk("devices", Null, NoFilter, n) : n \in {Null, 0}}
  \cup {Walk("sessions", 1, NoFilter, n) : n \in {Null, MaxLimit + 1}}
  \cup {Walk("files", 1, NoFilter, n) : n \in {Null, 2}}
  \cup {Walk("entries", 1, NoFilter, n) : n \in {Null, 2, MaxLimit + 1}}
  \cup {Walk("entries", 1, f, Null) : f \in {[NoFilter EXCEPT !.severity = 1],
                                             [NoFilter EXCEPT !.after = 2],
                                             [NoFilter EXCEPT !.before = 2],
                                             [NoFilter EXCEPT !.file = 1]}}
  \cup {Walk("audit", Null, NoFilter, n) : n \in {Null, 2}}
  \cup {[Walk("sessions", 1, NoFilter, Null) EXCEPT !.cursor = [ts |-> 1, id |-> Null]]}

MCWalks(engine) ==
  MCListings \cup {Walk("entries", 1, [NoFilter EXCEPT !.q = text], Null) : text \in MCTexts(engine)}

\* A search for a character that is special in a pattern, whatever the store
MCSearches(engine) == {Walk("entries", 1, [NoFilter EXCEPT !.q = <<"%">>], Null)}

\* An audit walk with the largest page
MCWidest(engine) == {Walk("audit", Null, NoFilter, MaxLimit)}
=============================================================================
