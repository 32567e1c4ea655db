-------------------------- MODULE MCSharedNamespace --------------------------
(* SharedNamespace on a small instance.                                    *)
EXTENDS SharedNamespace

KubeNova(namespace, name) == [namespace |-> namespace, name |-> name]

\* Two in namespace a; b-c in a and c in a-b put the same binding name together.
Instance ==
  {KubeNova(<<"a">>, <<"b", "c">>), KubeNova(<<"a">>, <<"d">>), KubeNova(<<"a", "b">>, <<"c">>)}
=============================================================================
