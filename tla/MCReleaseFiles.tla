---------------------------- MODULE MCReleaseFiles ----------------------------
(***************************************************************************)
(* Two lanes of one platform; a build leaves nothing, a good wheel, one    *)
(* with a single defect, or two wheels in dist/.                           *)
(***************************************************************************)
EXTENDS ReleaseFiles

MCPythonOf == [l \in {"linux", "linux311"} |-> IF l = "linux" THEN "cp310" ELSE "cp311"]

MCPlatformOf == [l \in {"linux", "linux311"} |-> "manylinux_2_28_x86_64"]

GoodMembers ==
    ExpectedPackageFiles \cup {<<"_oxipng", "__init__.py">>, <<"_oxipng", "_oxipng.abi3.so">>}
        \cup ({"ours.dist-info"} \X WheelMetadata)
        \cup {<<"ours.dist-info", "licenses", "LICENSE">>, <<"ours.dist-info", "THIRD_PARTY_NOTICES.md">>}

Good(l) == [kind |-> "wheel", distribution |-> "oxipng-pybind", version |-> <<"version", 0>>,
            python |-> {MCPythonOf[l]}, abi |-> {"abi3"}, platform |-> {MCPlatformOf[l]},
            members |-> GoodMembers]

Defective(l) ==
    {[Good(l) EXCEPT !.distribution = "oxipng"],
     [Good(l) EXCEPT !.python = @ \cup {"cp39"}],
     [Good(l) EXCEPT !.python = {"cp312"}],
     [Good(l) EXCEPT !.abi = {"cp310"}],
     [Good(l) EXCEPT !.platform = {"linux_x86_64"}],
     [Good(l) EXCEPT !.members = @ \ {<<"oxipng", "py.typed">>}],
     [Good(l) EXCEPT !.members = @ \ {<<"ours.dist-info", "RECORD">>}],
     [Good(l) EXCEPT !.members = @ \ {<<"ours.dist-info", "licenses", "LICENSE">>}],
     [Good(l) EXCEPT !.members = @ \ ({"ours.dist-info"} \X WheelMetadata)],
     [Good(l) EXCEPT !.members = @ \ {<<"_oxipng", "_oxipng.abi3.so">>}],
     [Good(l) EXCEPT !.members = (@ \ {<<"_oxipng", "_oxipng.abi3.so">>}) \cup {<<"", "_oxipng.abi3.so">>}],
     [Good(l) EXCEPT !.members = @ \cup {<<"_oxipng", "_oxipng.pyd">>}],
     [Good(l) EXCEPT !.members = @ \cup {<<"oxipng", "_oxipng.pyd">>}]}

Repaired(l) == [Good(l) EXCEPT !.platform = @ \cup {"manylinux_2_34_x86_64"}]

MCOutputs ==
    [l \in {"linux", "linux311"} |->
        {{}, {Good(l)}, {Repaired(l)}, {Good(l), Repaired(l)}} \cup {{w} : w \in Defective(l)}]

GoodSDist == {"oxipng-pybind"} \X ExpectedSDistFiles

MCSDists ==
    {GoodSDist, GoodSDist \ {<<"oxipng-pybind", "Cargo.lock">>},
     (GoodSDist \ {<<"oxipng-pybind", "LICENSE">>}) \cup {<<"other", "LICENSE">>}}
=============================================================================
