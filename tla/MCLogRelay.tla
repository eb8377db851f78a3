----------------------------- MODULE MCLogRelay -----------------------------
(***************************************************************************)
(* Small instances of LogRelay for TLC: streams of one or two lines, ended *)
(* by LF, by CRLF or not at all, of every length around the limit and of   *)
(* every shape of object: plain, empty, nested, with reserved keys at the  *)
(* top level, before and after a nested value, and inside one.             *)
(***************************************************************************)
EXTENDS LogRelay

Values == {<<"7">>, <<"cid">>, <<"[", "cid", "]">>, <<"{", "cid", "7", "}">>}

Members == {<<k>> \o v : k \in Keys, v \in Values}

SomeObjects ==
    {<<"{", "}">>} \cup {<<"{">> \o m \o <<"}">> : m \in Members}
    \cup {<<"{">> \o m \o n \o <<"}">> : m \in Members, n \in {<<"cid", "7">>, <<"host", "7">>, <<"a", "cid">>}}

Plain(n) == [i \in 1 .. n |-> "7"]

Junk == {Plain(n) : n \in {0, 1, MaxLine - 1, MaxLine, MaxLine + 1, MaxLine + 2, 2 * MaxLine + 3}}
        \cup {<<"{", "cid">>, <<"7", "cr">>}

Ends == {<<"lf">>, <<"cr", "lf">>, << >>}

SomeStreams ==
    {l \o e : l \in SomeObjects \cup Junk, e \in Ends}
    \cup {k \o <<"lf">> \o l \o e : k \in Junk, l \in Junk, e \in Ends}
=============================================================================
