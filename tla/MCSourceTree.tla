---------------------------- MODULE MCSourceTree ----------------------------
(* A directory with which TLC checks SourceTree.                           *)
EXTENDS SourceTree

File(folder, base, ext) == [folder |-> folder, base |-> base, ext |-> ext]

TwoFolders ==
    {File(<<>>, "a", <<"luau">>), File(<<>>, "a", <<"json">>),
     File(<<>>, "b", <<"so">>), File(<<>>, "c", <<>>),
     File(<<"d">>, "", <<"so">>), File(<<"d", "e">>, "c", <<"luau">>)}
Required == {<<"a">>, <<"c">>, <<"d", "e", "c">>}
Start == <<"a">>
=============================================================================
