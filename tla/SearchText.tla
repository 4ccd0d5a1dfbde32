----------------------------- MODULE SearchText -----------------------------
(* The two text conversions between the query API and the metadata stores:   *)
(* the LIKE pattern of a substring search (entries.rs, and what each engine  *)
(* makes of it) and the COPY text format in which the Postgres store loads   *)
(* entries.  A text is a sequence of characters.                             *)
EXTENDS Naturals, Sequences, SequencesExt

Metacharacters == {"%", "_", "\\"}

Escaped(text, special) ==
  FlattenSeq([i \in 1..Len(text) |-> IF text[i] \in special THEN <<"\\", text[i]>> ELSE <<text[i]>>])

\* Mutant: the text goes into the pattern as it is.
BuildLikePatternRaw(q) == <<"%">> \o q \o <<"%">>

\* build_like_pattern
BuildLikePattern(q) == <<"%">> \o Escaped(q, Metacharacters) \o <<"%">>

\* SQLite's LIKE ignores the case of letters.
SameChar(engine, a, b) == a = b \/ (engine = "sqlite" /\ {a, b} = {"a", "A"})

\* message LIKE pattern, without an ESCAPE clause: a backslash escapes by
\* default in Postgres and means itself in SQLite.
Like(engine, pattern, message) ==
  LET P == Len(pattern)
      M == Len(message)
      matches[i \in 1..(P + 1)] ==
        [j \in 1..(M + 1) |->
           IF i > P THEN j > M
           ELSE IF pattern[i] = "\\" /\ engine = "postgres" /\ i < P
                THEN j <= M /\ pattern[i + 1] = message[j] /\ matches[i + 2][j + 1]
           ELSE IF pattern[i] = "%" THEN \E k \in j..(M + 1) : matches[i + 1][k]
           ELSE j <= M /\ (pattern[i] = "_" \/ SameChar(engine, pattern[i], message[j]))
                       /\ matches[i + 1][j + 1]]
  IN  matches[1][1]

\* What a search promises: "plain substring match against message".
HasSubstring(engine, message, q) ==
  \E i \in 0..(Len(message) - Len(q)) :
    \A k \in 1..Len(q) : SameChar(engine, message[i + k], q[k])

-----------------------------------------------------------------------------
(* COPY ... FROM STDIN (FORMAT text).                                        *)

\* Mutant: the backslash itself is not escaped.
PushTextPlain(text) ==
  FlattenSeq([i \in 1..Len(text) |-> IF text[i] = "TAB" THEN <<"\\", "t">> ELSE <<text[i]>>])

\* push_text; TAB stands for the three control characters.
PushText(text) ==
  FlattenSeq([i \in 1..Len(text) |-> CASE text[i] = "\\" -> <<"\\", "\\">>
                                       [] text[i] = "TAB" -> <<"\\", "t">>
                                       [] OTHER -> <<text[i]>>])

\* push_text_or_null
PushTextOrNull(text, Null) == IF text = Null THEN <<"\\", "N">> ELSE PushText(text)

\* How the server reads a field: \N is NULL, a backslash escapes.
CopyField(field, Null) ==
  LET F == Len(field)
      read[i \in 1..(F + 2)] ==
        IF i > F THEN <<>>
        ELSE IF field[i] = "\\" /\ i < F
             THEN <<IF field[i + 1] = "t" THEN "TAB" ELSE field[i + 1]>> \o read[i + 2]
        ELSE <<field[i]>> \o read[i + 1]
  IN  IF field = <<"\\", "N">> THEN Null ELSE read[1]
=============================================================================
