----------------------------- MODULE MCPlanning -----------------------------
(* Scopes over the characters a and b, with every special segment: a file,  *)
(* a file below it, a name it is a prefix of, a pattern, odd spellings, and *)
(* one that is refused; and, for lists, an empty one and one of two.        *)
EXTENDS Planning

SmallCharacters == {"a", "b", ".", "*"}
SmallNames == {<<"a">>, <<"a", "b">>, <<"b">>}
SmallSegments == SmallNames \cup {<<>>, <<".">>, <<".", ".">>, <<"*">>, <<"a", "*">>}
SmallScopes == {<< <<"a">> >>, << <<"a">>, <<"b">> >>, << <<"a", "b">> >>,
                << <<"a", "*">> >>, << <<"a">>, <<"*">> >>, << <<".">>, <<"a">> >>,
                << <<".", ".">> >>}
SmallLists == {{p} : p \in SmallScopes} \cup {{}, {<< <<"a">>, <<"b">> >>, << <<"b">> >>}}
=============================================================================
