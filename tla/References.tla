----------------------------- MODULE References -----------------------------
(***************************************************************************)
(* From a dataset's location to one of its snapshots                        *)
(* (backend/src/api/dataset.rs, with the buttons of                         *)
(* frontend/src/components/LineageGraph.tsx): a discovery reads branches,   *)
(* tags and versions one after the other while other programs write to the  *)
(* dataset, the lineage graph offers a button per version and per tag, and  *)
(* the reference text of the button pressed is resolved against the dataset *)
(* as it is then.                                                           *)
(*                                                                         *)
(* A reference text is the sequence of its pieces between colons.  Names of *)
(* branches and tags hold no colon; they may be spelled like a number or    *)
(* like one of the prefixes.                                                *)
(***************************************************************************)
EXTENDS Naturals, Sequences, FiniteSetsExt

CONSTANTS
    BranchNames,    \* what branches other than main may be called
    TagNames,       \* what tags may be called
    Mains,          \* the spellings of main, in any case
    Spelling,       \* the decimal text of each version
    Texts,          \* reference texts sent without the lineage graph
    Nothing         \* no snapshot, no answer yet

Main == "main"
Prefixes == {"version", "branch", "tag"}
Versions == DOMAIN Spelling

ASSUME ReferencesAssumption ==
    /\ Versions \subseteq Nat \ {0} /\ 1 \in Versions
    /\ \A v, w \in Versions : Spelling[v] = Spelling[w] => v = w
    /\ \A v \in Versions : Spelling[v] \notin Mains \cup Prefixes
    /\ Main \in Mains /\ Main \notin BranchNames /\ Prefixes \cap Mains = {}

VARIABLES
    versions,   \* the versions of each branch of the dataset
    tags,       \* the snapshot each tag of the dataset is on
    phase,      \* how far the discovery is
    root,       \* the latest version of main when the dataset was opened
    listed,     \* branches of the catalog
    listedTags, \* tags of the catalog
    catalog,    \* versions of each branch of the catalog, as far as read
    opened      \* the button last answered with a snapshot, and that snapshot

dataset == <<versions, tags>>
discovery == <<phase, root, listed, listedTags, catalog>>
referencesVars == <<dataset, discovery, opened>>

Snapshot(branch, version) == [branch |-> branch, version |-> version]
Latest(branch) == Max(versions[branch])
NoBranch == [b \in {} |-> {}]

ReferencesInit ==
    /\ versions = [b \in {Main} |-> {1}] /\ tags = << >>
    /\ phase = "start" /\ root = Nothing
    /\ listed = {} /\ listedTags = << >> /\ catalog = NoBranch
    /\ opened = Nothing

-----------------------------------------------------------------------------
(* What other programs do to the dataset *)

With(f, x, value) == [y \in DOMAIN f \cup {x} |-> IF y = x THEN value ELSE f[y]]

Commit(branch) ==
    /\ branch \in DOMAIN versions /\ Latest(branch) + 1 \in Versions
    /\ versions' = [versions EXCEPT ![branch] = @ \cup {Latest(branch) + 1}]
    /\ UNCHANGED <<tags, discovery, opened>>

\* The first version of a branch follows the version it forks from.
Fork(branch, parent, version) ==
    /\ branch \in BranchNames \ DOMAIN versions
    /\ parent \in DOMAIN versions /\ version \in versions[parent]
    /\ version + 1 \in Versions
    /\ versions' = With(versions, branch, {version + 1})
    /\ UNCHANGED <<tags, discovery, opened>>

\* Creates the tag or moves it.
SetTag(tag, branch, version) ==
    /\ branch \in DOMAIN versions /\ version \in versions[branch]
    /\ tags' = With(tags, tag, Snapshot(branch, version))
    /\ UNCHANGED <<versions, discovery, opened>>

-----------------------------------------------------------------------------
(* discover *)

OpenRoot ==
    /\ phase = "start" /\ phase' = "opened"
    /\ root' = Latest(Main)
    /\ UNCHANGED <<dataset, listed, listedTags, catalog, opened>>

ListBranches ==
    /\ phase = "opened" /\ phase' = "branches"
    /\ listed' = DOMAIN versions \cup {Main}
    /\ UNCHANGED <<dataset, root, listedTags, catalog, opened>>

ListTags ==
    /\ phase = "branches" /\ phase' = "tags"
    /\ listedTags' = tags
    /\ UNCHANGED <<dataset, root, listed, catalog, opened>>

\* Versions read before the tags are listed.
BeforeTags == phase = "branches"

AfterTags == phase = "tags"

\* checkout_branch and version_refs of the next branch.
ReadVersions(branch) ==
    /\ AfterTags /\ branch \in listed \ DOMAIN catalog
    /\ catalog' = With(catalog, branch, versions[branch])
    /\ UNCHANGED <<dataset, phase, root, listed, listedTags, opened>>

Offer ==
    /\ phase = "tags" /\ listed = DOMAIN catalog /\ phase' = "offered"
    /\ UNCHANGED <<dataset, root, listed, listedTags, catalog, opened>>

-----------------------------------------------------------------------------
(* resolve_reference *)

Target(kind, name, version) == [kind |-> kind, name |-> name, version |-> version]
Invalid == Target("invalid", << >>, Nothing)

IsNumber(piece) == \E v \in Versions : Spelling[v] = piece
Number(piece) == CHOOSE v \in Versions : Spelling[v] = piece

VersionTarget(pieces) ==
    IF Len(pieces) = 1 /\ IsNumber(pieces[1])
    THEN Target("version", << >>, Number(pieces[1])) ELSE Invalid

\* A text without a colon; the names are looked up last.
Bare(piece) ==
    IF piece \in Mains THEN Target("main", << >>, Nothing)
    ELSE IF IsNumber(piece) THEN VersionTarget(<<piece>>)
    ELSE IF piece \in DOMAIN versions \ {Main} THEN Target("branch", <<piece>>, Nothing)
    ELSE IF piece \in DOMAIN tags THEN Target("tag", <<piece>>, Nothing)
    ELSE Invalid

Last(text) == text[Len(text)]
Front(text) == SubSeq(text, 1, Len(text) - 1)

\* rsplit_once(':') with a number behind the colon.
BranchVersion(text) ==
    IF IsNumber(Last(text))
    THEN Target("branch version", Front(text), Number(Last(text))) ELSE Invalid

\* A text with a colon.
Qualified(text) ==
    CASE Head(text) = "version" -> VersionTarget(Tail(text))
      [] Head(text) = "branch"  -> Target("branch", Tail(text), Nothing)
      [] Head(text) = "tag"     -> Target("tag", Tail(text), Nothing)
      [] OTHER                  -> BranchVersion(text)

Resolve(text) == IF Len(text) = 1 THEN Bare(text[1]) ELSE Qualified(text)

\* A name with a colon in it is the name of nothing.
Named(target, S) == Len(target.name) = 1 /\ target.name[1] \in S

RootMain == Snapshot(Main, root)

\* checkout_version of a branch without a look at its versions.
AnyVersion(branch, version) == {Snapshot(branch, version)}

AtVersion(branch, version) ==
    {Snapshot(branch, v) : v \in {version} \cap versions[branch]}

\* The snapshot checked out, if there is one.
Checkout(target) ==
    CASE target.kind = "main"    -> {RootMain}
      [] target.kind = "version" -> AtVersion(Main, target.version)
      [] target.kind = "branch" /\ Named(target, DOMAIN versions) ->
            {Snapshot(target.name[1], Latest(target.name[1]))}
      [] target.kind = "tag" /\ Named(target, DOMAIN tags) -> {tags[target.name[1]]}
      [] target.kind = "branch version" /\ Named(target, DOMAIN versions) ->
            AtVersion(target.name[1], target.version)
      [] OTHER -> {}

-----------------------------------------------------------------------------
(* LineageGraph and connect *)

\* A button that names no branch.
ShortReference(branch, version) == <<Spelling[version]>>

NodeReference(branch, version) ==
    IF branch = Main THEN <<Spelling[version]>> ELSE <<branch, Spelling[version]>>

TagReference(tag) == <<"tag", tag>>

Connect(button, text) ==
    /\ phase = "offered"
    /\ \E snapshot \in Checkout(Resolve(text)) :
          opened' = [button |-> button, snapshot |-> snapshot]
    /\ UNCHANGED <<dataset, discovery>>

SelectVersion(branch, version) ==
    /\ branch \in DOMAIN catalog /\ version \in catalog[branch]
    /\ Connect([kind |-> "version", on |-> Snapshot(branch, version)],
               NodeReference(branch, version))

\* A tag has its button at the node of its version.
SelectTag(tag) ==
    /\ tag \in DOMAIN listedTags
    /\ LET on == listedTags[tag]
       IN  /\ on.branch \in DOMAIN catalog /\ on.version \in catalog[on.branch]
           /\ Connect([kind |-> "tag", on |-> on], TagReference(tag))

\* A request with no reference.
SelectDefault == Connect([kind |-> "main", on |-> RootMain], <<Main>>)

\* A request with a text of its own.
SelectText(text) == Connect([kind |-> "text", on |-> Nothing], text)

Writer ==
    \/ \E b \in BranchNames \cup {Main} : Commit(b)
    \/ \E b \in BranchNames, p \in BranchNames \cup {Main}, v \in Versions :
          Fork(b, p, v)
    \/ \E t \in TagNames, b \in BranchNames \cup {Main}, v \in Versions :
          SetTag(t, b, v)

Discover ==
    \/ OpenRoot \/ ListBranches \/ ListTags \/ Offer
    \/ \E b \in BranchNames \cup {Main} : ReadVersions(b)

Select ==
    \/ \E b \in BranchNames \cup {Main}, v \in Versions : SelectVersion(b, v)
    \/ \E t \in TagNames : SelectTag(t)
    \/ \E text \in Texts : SelectText(text)
    \/ SelectDefault

ReferencesNext == Writer \/ Discover \/ Select

ReferencesSpec == ReferencesInit /\ [][ReferencesNext]_referencesVars

-----------------------------------------------------------------------------
(* Properties *)

Branches == BranchNames \cup {Main}
Snapshots == [branch : Branches, version : Versions]
Tables == UNION {[S -> SUBSET Versions] : S \in SUBSET Branches}
TagTables == UNION {[S -> Snapshots] : S \in SUBSET TagNames}

\* The shape of the state; main is there from the start, and a snapshot opened is
\* one the dataset has.
ReferencesTypeOK ==
    /\ versions \in Tables /\ Main \in DOMAIN versions
    /\ tags \in TagTables
    /\ phase \in {"start", "opened", "branches", "tags", "offered"}
    /\ root \in Versions \cup {Nothing}
    /\ listed \subseteq Branches /\ DOMAIN catalog \subseteq listed
    /\ catalog \in Tables /\ listedTags \in TagTables
    /\ opened # Nothing => /\ opened.snapshot.branch \in DOMAIN versions
                        /\ opened.snapshot.version \in versions[opened.snapshot.branch]

\* A version's button opens that version of that branch, whatever was committed,
\* forked and tagged since the graph was drawn: "Opens any discovered branch
\* version or tag directly" (README.md:46; LineageGraph.tsx:101, dataset.rs:180-206).
NodeOpensItself ==
    opened # Nothing /\ opened.button.kind = "version" => opened.snapshot = opened.button.on

\* A tag listed for a branch of the catalog has a node there, though branches,
\* tags and versions are read one after the other: "tags remain associated with
\* their versions" (README.md:149-150; dataset.rs:63-64, 81-107).
TagsHaveNodes ==
    phase = "offered" =>
        \A t \in DOMAIN listedTags :
            LET on == listedTags[t]
            IN  on.branch \in listed => on.version \in catalog[on.branch]

\* A request with no reference opens main as it was discovered
\* (connect_reuses_the_discovered_dataset_root, dataset.rs:405).
DefaultIsDiscovered ==
    opened # Nothing /\ opened.button.kind = "main" => opened.snapshot = Snapshot(Main, root)

\* "Select any version or tag to open that immutable dataset snapshot"
\* (README.md:156): the snapshot opened is the one whose node has the tag's button.
TagOpensItsNode ==
    opened # Nothing /\ opened.button.kind = "tag" => opened.snapshot = opened.button.on
=============================================================================
