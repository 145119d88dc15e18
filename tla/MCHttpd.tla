------------------------------ MODULE MCHttpd ------------------------------
(* A small instance of Httpd: two threads at a time, three connections, and *)
(* first lines that reach every handler: nested paths, paths with "." and   *)
(* "..", with and without a leading slash, a method that is refused, and    *)
(* queries that repeat a name or leave out a "=".                           *)
EXTENDS Httpd

CONSTANTS t1, t2

TwoThreads == {t1, t2}

tk == <<"t", "k">>

Get(path, query) == [method |-> "GET", path |-> path, query |-> query]
Param(name, values) == [name |-> name, values |-> values]

Lines ==
    { [method |-> "HEAD", path |-> <<"", "">>, query |-> <<>>],
      [method |-> "POST", path |-> <<"", "">>, query |-> <<>>],
      Get(NoPath, <<>>),
      Get(<<"", "">>, <<>>),
      Get(<<"", "auth", "">>, << Param(tk, <<"1">>), Param(tk, <<"2">>) >>),
      Get(<<"", "auth", "">>, << Param(<<"x", "k">>, <<"0">>), Param(<<"t">>, <<>>),
                                 Param(tk, <<"1">>) >>),
      Get(<<"auth", "deny", "x">>, << Param(tk, <<"1", "2">>), Param(<<"x">>, <<>>) >>),
      Get(<<"a", "", "..", "..", "deny", "">>, <<>>),
      Get(<<"", "a", ".", "..", "images", "logo">>, <<>>),
      Get(<<"..", "pages", "x">>, <<>>) }
============================================================================
