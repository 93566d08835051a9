----------------------------- MODULE SurfaceScan -----------------------------
(***************************************************************************)
(* scripts/scan_upstream_surface.py: reads the rustdoc index of the pinned *)
(* oxipng, compares it with the manifest of docs/api-surface, writes a     *)
(* report and adds the new names to the docs. A scan can be interrupted    *)
(* after each file and run again, on a manifest triaged in between.        *)
(***************************************************************************)
EXTENDS Naturals, Sequences

CONSTANTS
    Items,       \* id -> item of a rustdoc index
    Indexes,     \* the sets of ids that a release of upstream may have
    Manifests,   \* what the first manifest may say
    Required,    \* the functions that parse_upstream_surface insists on
    MaxVersion,  \* bound: releases of upstream, in ascending order
    Prefixes     \* <<v, w>>: the text of v is a proper prefix of that of w

Versions == 1..MaxVersion

\* api-compatibility.md and options-surface.md, in the order they are written.
Docs == 1..2

\* Versions ascend: one that is a prefix of another is older.
ASSUME VersionsAssumption == MaxVersion \in Nat \ {0} /\ \A p \in Prefixes : p[1] < p[2]

\* An item has a name, a kind, whether it is public and the ids of its fields or
\* variants.
ASSUME ItemsAssumption ==
    /\ \A ids \in Indexes : ids \subseteq DOMAIN Items
    /\ \A i \in DOMAIN Items : Items[i].children \subseteq DOMAIN Items

\* What the report calls "fn" and "Options" is no enum.
Headings == {"fn", "Options"}

ManifestFields ==
    {"functions", "exposedOptions", "unexposedOptions", "exposedVariants", "unexposedVariants"}

ASSUME NamesAssumption ==
    /\ \A i \in DOMAIN Items : Items[i].kind = "enum" => Items[i].name \notin Headings
    /\ \A m \in Manifests : /\ m = [f \in ManifestFields |-> m[f]]
                             /\ \A p \in m.exposedVariants : p[1] \notin Headings

VARIABLES
    version,   \* the oxipng that Cargo.toml pins
    index,     \* its rustdoc index
    manifest,  \* its manifest, which starts as a copy of the previous one
    sections,  \* per document: the sections "### oxipng <version>", in order
    noted,     \* the versions with a note in the changelog
    scan       \* the running scan, or the last one

scanVars == <<version, index, manifest, sections, noted, scan>>

-----------------------------------------------------------------------------
\* The surface that is read from the index.
Public(kind) == {i \in index : Items[i].public /\ Items[i].kind = kind}

Methods == {Items[i].name : i \in Public("method")}

\* The items of a rustdoc index are not nested: public methods are among them, as
\* functions, under their own names.
Functions == {Items[i].name : i \in Public("function")} \cup Methods

\* Variant: variants must be public too, which rustdoc never says of them.
EnumVariants_PublicOnly(i) == {Items[c].name : c \in {c \in Items[i].children \cap index : Items[c].public}}

EnumVariants(i) == {Items[c].name : c \in Items[i].children \cap index}

PublicFields(i) == {Items[c].name : c \in {c \in Items[i].children \cap index : Items[c].public}}

OptionsFields == UNION {PublicFields(i) : i \in {i \in Public("struct") : Items[i].name = "Options"}}

EnumNames == {Items[i].name : i \in Public("enum")}

VariantsOf(enum) == UNION {EnumVariants(i) : i \in {i \in Public("enum") : Items[i].name = enum}}

-----------------------------------------------------------------------------
\* A manifest has the option fields and the enum variants (pairs of an enum and
\* a name) it maps or lists, and the functions the wrapper calls.
KnownOptions == manifest.exposedOptions \cup manifest.unexposedOptions

KnownVariants == manifest.exposedVariants \cup manifest.unexposedVariants

Of(enum, pairs) == {p \in pairs : p[1] = enum}

Pairs(enum) == {enum} \X VariantsOf(enum)

\* The report has an entry for every enum that upstream has.
RemovedExposedVariants == UNION {Of(e, manifest.exposedVariants) \ Pairs(e) : e \in EnumNames}

NewOptions == {<<"Options", o>> : o \in OptionsFields \ KnownOptions}

NewVariants == UNION {Pairs(e) : e \in EnumNames} \ KnownVariants

\* Variant: what is listed as unexposed blocks as well.
Blocking_Known ==
    \/ KnownOptions \ OptionsFields # {}
    \/ manifest.functions \ Functions # {}
    \/ RemovedExposedVariants # {}

Blocking ==
    \/ manifest.exposedOptions \ OptionsFields # {}
    \/ manifest.functions \ Functions # {}
    \/ RemovedExposedVariants # {}

CompareSurface == [version |-> version, new |-> NewOptions \cup NewVariants, blocking |-> Blocking]

\* Variant: only new names are looked at.
PrBody_OnlyNew(report) == IF report.new # {} THEN "new" ELSE "none"

PrBody(report) ==
    IF report.blocking THEN "blocking" ELSE IF report.new # {} THEN "new" ELSE "none"

-----------------------------------------------------------------------------
\* What a caller of the crate can name: its functions, methods not among them,
\* the public fields of Options and the variants of its public enums.
Exported ==
    {<<"fn", Items[i].name>> : i \in Public("function")}
        \cup {<<"Options", o>> : o \in OptionsFields}
        \cup UNION {{Items[i].name} \X {Items[c].name : c \in Items[i].children \cap index} :
                       i \in Public("enum")}

\* What the wrapper uses, by the manifest.
Exposed ==
    {<<"fn", f>> : f \in manifest.functions} \cup {<<"Options", o>> : o \in manifest.exposedOptions}
        \cup manifest.exposedVariants

Known ==
    Exposed \cup {<<"Options", o>> : o \in manifest.unexposedOptions} \cup manifest.unexposedVariants

-----------------------------------------------------------------------------
NoScan == [stage |-> "none", next |-> 1, body |-> "none",
           report |-> [version |-> 1, new |-> {}, blocking |-> FALSE]]

\* The manifest starts complete and right.
ScanInit ==
    /\ version = 1 /\ index \in Indexes /\ manifest \in Manifests
    /\ Exposed \subseteq Exported /\ Exported \subseteq Known
    /\ sections = [d \in Docs |-> <<>>] /\ noted = {}
    /\ scan = NoScan

\* main up to write_outputs. Without a required function it ends with an error.
StartScan ==
    /\ scan.stage \in {"none", "crashed", "done"}
    /\ scan' = IF Required \subseteq Functions
               THEN [stage |-> "writing", next |-> 1, body |-> PrBody(CompareSurface),
                     report |-> CompareSurface]
               ELSE [NoScan EXCEPT !.stage = "error"]
    /\ UNCHANGED <<version, index, manifest, sections, noted>>

\* Variant: any generated section is taken for this version's.
HasHeading_Any(d, v) == sections[d] # <<>>

\* The heading of the version is looked for as text.
HasHeading(d, v) ==
    \E i \in DOMAIN sections[d] : sections[d][i].version = v \/ <<v, sections[d][i].version>> \in Prefixes

\* Variant: the section is added on every run.
Appended_Always(d) == Append(sections[d], [version |-> version, new |-> scan.report.new])

Appended(d) ==
    IF HasHeading(d, version) THEN sections[d]
    ELSE Append(sections[d], [version |-> version, new |-> scan.report.new])

\* Variant: the files are written in no fixed order.
Writing_AnyOrder(n) == scan.stage = "writing" /\ scan.report.new # {} /\ n \in 1..3

Writing(n) == scan.stage = "writing" /\ scan.report.new # {} /\ scan.next = n

WriteDoc ==
    \E d \in Docs :
        /\ Writing(d)
        /\ sections' = [sections EXCEPT ![d] = Appended(d)]
        /\ scan' = [scan EXCEPT !.next = d + 1]
        /\ UNCHANGED <<version, index, manifest, noted>>

\* The note in the changelog, then the end of main.
WriteChangelog ==
    /\ Writing(3)
    /\ noted' = noted \cup {version}
    /\ scan' = [scan EXCEPT !.stage = "done"]
    /\ UNCHANGED <<version, index, manifest, sections>>

NothingNew ==
    /\ scan.stage = "writing" /\ scan.report.new = {}
    /\ scan' = [scan EXCEPT !.stage = "done"]
    /\ UNCHANGED <<version, index, manifest, sections, noted>>

Crash ==
    /\ scan.stage = "writing"
    /\ scan' = [scan EXCEPT !.stage = "crashed"]
    /\ UNCHANGED <<version, index, manifest, sections, noted>>

-----------------------------------------------------------------------------
\* A maintainer maps or lists a name that the manifest does not know.
Triage ==
    /\ scan.stage # "writing"
    /\ \/ \E o \in OptionsFields \ KnownOptions :
            \/ manifest' = [manifest EXCEPT !.exposedOptions = @ \cup {o}]
            \/ manifest' = [manifest EXCEPT !.unexposedOptions = @ \cup {o}]
       \/ \E p \in NewVariants :
            \/ manifest' = [manifest EXCEPT !.exposedVariants = @ \cup {p}]
            \/ manifest' = [manifest EXCEPT !.unexposedVariants = @ \cup {p}]
    /\ UNCHANGED <<version, index, sections, noted, scan>>

\* A scan that exits with 0 lets the version be merged; the next release comes
\* and its manifest is a copy.
NextRelease ==
    /\ scan.stage = "done" /\ ~scan.report.blocking /\ version < MaxVersion
    /\ version' = version + 1
    /\ index' \in Indexes
    /\ scan' = NoScan
    /\ UNCHANGED <<manifest, sections, noted>>

ScanNext ==
    \/ StartScan \/ WriteDoc \/ WriteChangelog \/ NothingNew \/ Crash
    \/ Triage \/ NextRelease

ScanSpec == ScanInit /\ [][ScanNext]_scanVars

-----------------------------------------------------------------------------
ItemNames == {Items[i].name : i \in DOMAIN Items}

ScanTypeOK ==
    /\ version \in Versions /\ index \in Indexes /\ noted \subseteq Versions
    /\ \A d \in Docs : \A i \in DOMAIN sections[d] :
          sections[d][i].version \in Versions /\ sections[d][i].new \in SUBSET (ItemNames \X ItemNames)
    /\ scan.stage \in {"none", "writing", "crashed", "error", "done"}
    /\ scan.next \in 1..3 /\ scan.report.version \in 1..version
    /\ scan.body = "none" <=> ~scan.report.blocking /\ scan.report.new = {}

\* A scan blocks a release exactly if something is missing from it that the wrapper
\* uses and that the scan can tell: an option, a variant of an enum that is still
\* there, or a function with the name of no method, however upstream marks the
\* visibility of variants. That an enum is gone altogether, or a function while a
\* method of its name is there, is overlooked.
BlocksExactlyTheBroken ==
    scan.stage = "done" =>
        LET compared == {x \in Exposed : x[1] \in Headings \cup EnumNames}
                           \ {<<"fn", m>> : m \in Methods}
        IN  scan.report.blocking <=> ~(compared \subseteq Exported)

\* When a scan has run to its end, both documents name everything the manifest
\* does not know, in one section of the version, and the changelog speaks only
\* of versions that both have: although earlier scans of the version stopped
\* between two files, the manifest was triaged meanwhile and an older version
\* has a similar name.
DocumentsAreComplete ==
    \A d \in Docs :
        /\ \A i, j \in DOMAIN sections[d] : sections[d][i].version = sections[d][j].version => i = j
        /\ noted \subseteq {sections[d][i].version : i \in DOMAIN sections[d]}
        /\ scan.stage = "done" =>
              NewOptions \cup NewVariants \subseteq
                  UNION {sections[d][i].new : i \in {i \in DOMAIN sections[d] : sections[d][i].version = version}}
=============================================================================
