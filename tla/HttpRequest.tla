---------------------------- MODULE HttpRequest ----------------------------
(***************************************************************************)
(* What the embedded web server makes of the text of a request: the path   *)
(* without empty, "." and ".." parts between two slashes, the variables of *)
(* the query, and the token that the authentication callbacks take from    *)
(* them.                                                                   *)
(*                                                                         *)
(* A path is its text split at the slashes: "/a/b" is <<"", "a", "b">> and *)
(* "../b/" is <<"..", "b", "">>.  The last name is the entry.  A query is  *)
(* a sequence of parameters: a name, which is a sequence of characters,    *)
(* and the values after each "=" of the parameter, decoded.                *)
(* The code cleans path and query as one text; queries here have their     *)
(* slashes encoded, as the gateway's own links do, so that only the path   *)
(* is concerned.                                                           *)
(***************************************************************************)
EXTENDS Naturals, Sequences, SequencesExt

Parameter == [name : Seq(STRING \ {"0"}), values : Seq(STRING)]

\* No path at all: no first line came, or one without a slash.
NoPath == <<>>

Directories(path) == Front(path)
Entry(path) == Last(path)
\* strtok() skips the empty name before a leading slash.
Lookups(path) ==
    LET names == Directories(path)
    IN IF names # <<>> /\ Head(names) = "" THEN Tail(names) ELSE names

\* The slash before the last name copied is where "/../" goes back to, and the code
\* keeps only one such place; at first it is the start of the text.
Copy(s, name) == [out |-> Append(s.out, name), last |-> Len(s.out)]
Back(s) == [s EXCEPT !.out = IF s.last = 0 THEN <<"">> ELSE SubSeq(@, 1, s.last)]

Part(s, name) ==
    IF name \in {"", "."} THEN s ELSE IF name = ".." THEN Back(s) ELSE Copy(s, name)

\* A wrong _httpd_sanitiseUrl: the slash after ".." is skipped with it.
_httpd_sanitiseUrlSkips(path) ==
    LET names == Tail(Directories(path))
        Step(s, i) == IF names[i] = ".." /\ i > 1 /\ names[i - 1] = ".."
                      THEN Copy(s, names[i]) ELSE Part(s, names[i])
        done == FoldLeft(Step, [out |-> <<Head(path)>>, last |-> 0], [i \in 1 .. Len(names) |-> i])
    IN IF path = NoPath THEN NoPath ELSE Append(done.out, Entry(path))

\* What precedes the first slash is copied as it is, and so is the entry.
Clean(first, names) ==
    LET s[i \in 0 .. Len(names)] ==
            IF i = 0 THEN [out |-> <<first>>, last |-> 0] ELSE Part(s[i - 1], names[i])
    IN  s[Len(names)].out
_httpd_sanitiseUrl(path) ==
    IF path = NoPath THEN NoPath
    ELSE Append(Clean(Head(path), Tail(Directories(path))), Entry(path))

----------------------------------------------------------------------------
(* Variables: one per name, in the order of their first values. *)

\* A wrong httpdAddVariable: a new value goes before the older ones.
httpdAddVariableFirst(variables, name, value) ==
    IF \E i \in 1 .. Len(variables) : variables[i].name = name
    THEN [i \in 1 .. Len(variables) |->
             IF variables[i].name = name
             THEN [variables[i] EXCEPT !.values = <<value>> \o @] ELSE variables[i]]
    ELSE Append(variables, [name |-> name, values |-> <<value>>])

httpdAddVariable(variables, name, value) ==
    IF \E i \in 1 .. Len(variables) : variables[i].name = name
    THEN [i \in 1 .. Len(variables) |->
             IF variables[i].name = name
             THEN [variables[i] EXCEPT !.values = Append(@, value)] ELSE variables[i]]
    ELSE Append(variables, [name |-> name, values |-> <<value>>])

\* The first value of the variable, as a set of at most one.
httpdGetVariableByName(variables, name) ==
    {Head(v.values) : v \in {w \in ToSet(variables) : w.name = name}}

\* The buffer in which _httpd_storeData() collects a name is written from its
\* start for every parameter; only a "=" puts the terminating 0 after it.
Write(buffer, chars) == chars \o SubSeq(buffer, Len(chars) + 1, Len(buffer))
Name(buffer) ==
    LET Ends == {i \in 1 .. Len(buffer) : buffer[i] = "0"}
    IN IF Ends = {} THEN buffer
       ELSE SubSeq(buffer, 1, (CHOOSE i \in Ends : \A j \in Ends : i <= j) - 1)

\* A parameter is stored at the "&" after it, without "=" with a blank value;
\* the last one only if it has a "=".
Store(s, p, last) ==
    LET buffer == IF p.values = <<>> THEN Write(s.buffer, p.name)
                  ELSE Write(s.buffer, Append(p.name, "0"))
        value == IF p.values = <<>> THEN "" ELSE Last(p.values)
    IN [buffer |-> buffer,
        variables |-> IF last /\ p.values = <<>> THEN s.variables
                      ELSE httpdAddVariable(s.variables, Name(buffer), value)]
_httpd_storeData(query) ==
    LET s[i \in 0 .. Len(query)] ==
            IF i = 0 THEN [buffer |-> <<>>, variables |-> <<>>]
            ELSE Store(s[i - 1], query[i], i = Len(query))
    IN  s[Len(query)].variables

\* The variable "tok" as the callbacks get it.
decode_authtarget(variables, tok) ==
    LET v == httpdGetVariableByName(variables, tok)
    IN IF v = {} THEN "" ELSE CHOOSE x \in v : TRUE

\* The reference: the first parameter of the name, among parameters that
\* all have a "=" (the last one need not).
FirstNamed(query, name) ==
    LET Is == {i \in 1 .. Len(query) : query[i].name = name /\ query[i].values # <<>>}
    IN IF Is = {} THEN "" ELSE Last(query[CHOOSE i \in Is : \A j \in Is : i <= j].values)
WellFormed(query) == \A i \in 1 .. Len(query) - 1 : query[i].values # <<>>
============================================================================
