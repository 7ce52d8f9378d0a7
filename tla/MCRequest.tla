------------------------------ MODULE MCRequest ------------------------------
(* Requests to a few URLs, some of which the grammar rejects. *)
EXTENDS RequestBuilder, TLC

UrlStrings ==
    {<<"http", ":", "/", "/", "a", "?", "z">>,
     <<"https", ":", "/", "/", "a", "@", "z", ":", "8", "0", "/", "a">>,
     <<"https", ":", "/", "/", "z", "/", "SP">>,        \* rejected at the space
     <<"a", ".", "a">>}                                 \* rejected: no schema

Symmetry == Permutations(Urls)

MethodNames == {<<"GET">>, <<"POST">>}

HeaderPairs == {<< <<"X">>, <<"x">> >>, << <<"Transfer-Encoding">>, <<"chunked">> >>}
=============================================================================
