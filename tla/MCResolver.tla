---------------------------- MODULE MCResolver ----------------------------
(***************************************************************************)
(* A small database with every feature the lookup grammar has: inherited   *)
(* and overridden keys, templates with several tokens and with forward and *)
(* backward references, "@" references resolved per plat, structural       *)
(* references to a list and to a dict in the middle of a path, the two     *)
(* reserved literals, a self-reference, a cycle, unbalanced and misordered *)
(* braces, a reference to a "null" and one to a "true" value.              *)
(***************************************************************************)
EXTENDS Resolver

T(x) == Str(<<x>>)
Ref(segs) == <<LB>> \o Path(segs) \o <<RB>>

MCRoot ==
     ("arm"   :> Dict(("rel" :> T("r1901")) @@ ("vsn" :> T("v1901c"))))
  @@ ("url"   :> T("rooturl"))
  @@ ("thing" :> Dict(
          ("url" :> T("exurl")) @@ ("name0" :> T("AAA"))
       @@ ("name" :> Str(Ref(<<"name0">>) \o <<"-">> \o Ref(<<"name1">>)))
       @@ ("v1" :> Dict("name1" :> T("111")))
       @@ ("v3" :> Dict(("name0" :> T("BBB")) @@ ("name1" :> T("333"))))))
  @@ ("fedora" :> Dict("url" :> Str(<<"host">> \o Ref(<<AT, "fedora", "vsn">>))))
  @@ ("p" :> Dict(
          ("b" :> Dict(("fedora" :> Dict("vsn" :> T("27")))
                    @@ ("k" :> List(<<"k1", "k2">>))))
       @@ ("m" :> Dict(("fedora" :> Dict("vsn" :> T("28")))
                    @@ ("k" :> Str(<<HASH>> \o Ref(<<"p", "b", "k">>)))))
       @@ ("t" :> Dict("oe" :> Str(<<HASH>> \o Ref(<<"p", "b", "fedora">>))))))
  @@ ("flags" :> Dict(("yes" :> T("true")) @@ ("no" :> T("null"))
                   @@ ("ref" :> Str(Ref(<<"no">>)))
                   @@ ("bool" :> Str(Ref(<<"yes">>)))))
  @@ ("me"  :> Str(Ref(<<"me">>)))
  @@ ("bad" :> Str(<<"x", RB>>))
  @@ ("mis" :> Str(<<RB, "y", LB>>))
  @@ ("cyc" :> Dict(("a" :> Str(Ref(<<"b">>))) @@ ("b" :> Str(Ref(<<"a">>)))))

MCKeys ==
  {Path(s) : s \in {<<"arm", "rel">>, <<"arm", "rel", "vsn">>, <<"url">>,
                    <<"thing", "v1", "name">>, <<"thing", "v3", "name">>,
                    <<"thing", "v1", "url">>, <<"thing", "v3", "name0">>,
                    <<"thing", "name">>, <<"fedora", "url">>,
                    <<AT, "fedora", "vsn">>, <<"p", "m", "k">>,
                    <<"p", "t", "oe", "vsn">>, <<"flags", "yes">>,
                    <<"flags", "no">>, <<"flags", "ref">>, <<"flags", "bool">>,
                    <<"me">>, <<"bad">>, <<"mis">>, <<"cyc", "a">>,
                    <<"zz">>, <<"p", "zz", "url">>}}

MCPlats == {NoPlat, Plat(Path(<<"p", "b">>)), Plat(Path(<<"p", "m">>))}

MCRequests == [key : MCKeys, plat : MCPlats, na : BOOLEAN]

MCMaxDepth == 5
=============================================================================
