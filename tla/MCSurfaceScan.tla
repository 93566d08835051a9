---------------------------- MODULE MCSurfaceScan ----------------------------
(***************************************************************************)
(* A crate with optimize, a method of that name instead, or neither, one   *)
(* option, public or not, an enum of up to two variants, or none. Version  *)
(* 3 is the text of version 2 and a digit more.                            *)
(***************************************************************************)
EXTENDS SurfaceScan

Item(name, kind, public, children) ==
    [name |-> name, kind |-> kind, public |-> public, children |-> children]

MCItems ==
    [optimize |-> Item("optimize", "function", TRUE, {}),
     method   |-> Item("optimize", "method", TRUE, {}),
     options  |-> Item("Options", "struct", TRUE, {"force", "hidden"}),
     force    |-> Item("force", "field", TRUE, {}),
     hidden   |-> Item("force", "field", FALSE, {}),
     enum     |-> Item("Deflater", "enum", TRUE, {"one", "two"}),
     one      |-> Item("One", "variant", FALSE, {}),
     two      |-> Item("Two", "variant", FALSE, {})]

MCPrefixes == {<<2, 3>>}

MCIndexes ==
    {{"options", "force"}, {"options", "force", "method"}, {"options", "optimize", "hidden"}} \cup
    {{"options", "optimize", "enum", "two"} \cup field \cup variant :
        field \in {{"force"}, {"hidden"}}, variant \in {{}, {"one"}}}

\* Of a release with the enum; One may not be in it yet.
MCManifests ==
    {[exposedOptions |-> options, unexposedOptions |-> {},
      exposedVariants |-> {"Deflater"} \X variants, unexposedVariants |-> {},
      functions |-> {"optimize"}] :
        options \in {{"force"}, {}}, variants \in {{"Two"}, {"One", "Two"}}}
=============================================================================
