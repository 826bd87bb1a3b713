---------------------------- MODULE OpeningProofs ----------------------------
(***************************************************************************)
(* Proofs about the way from a dataset's location to a snapshot on screen:  *)
(* the backend's half, References, for any names, any number of versions    *)
(* and any reference texts, and the browser's half, SnapshotBrowser, for    *)
(* any number of datasets, picks, pages and failures.  The two share no     *)
(* variable.                                                                *)
(***************************************************************************)
EXTENDS References, SnapshotBrowser, FiniteSetTheorems, SequenceTheorems, TLAPS

\* No branch is called like one of the prefixes of a reference text.
PlainNames == BranchNames \cap Prefixes = {}

(* The decimal text of a version is read back as that version. *)
LEMMA NumberOfSpelling ==
    ASSUME NEW v \in Versions
    PROVE  IsNumber(Spelling[v]) /\ Number(Spelling[v]) = v
  BY ReferencesAssumption DEF IsNumber, Number

(* The text of a node's button is resolved to that version of that branch,   *)
(* though prefixes, numbers and names are told apart by the text alone.       *)
LEMMA NodeTarget ==
    ASSUME NEW b \in Branches, NEW v \in Versions, PlainNames
    PROVE  Resolve(NodeReference(b, v)) =
              IF b = Main THEN Target("version", << >>, v)
              ELSE Target("branch version", <<b>>, v)
<1>1. IsNumber(Spelling[v]) /\ Number(Spelling[v]) = v
  BY NumberOfSpelling
<1>2. CASE b = Main
  <2>1. NodeReference(b, v) = <<Spelling[v]>>
    BY <1>2 DEF NodeReference
  <2>2. Resolve(<<Spelling[v]>>) = Bare(Spelling[v])
    BY DEF Resolve
  <2>3. Bare(Spelling[v]) = VersionTarget(<<Spelling[v]>>)
    BY <1>1, ReferencesAssumption DEF Bare
  <2>4. VersionTarget(<<Spelling[v]>>) = Target("version", << >>, v)
    BY <1>1 DEF VersionTarget
  <2> QED
    BY <1>2, <2>1, <2>2, <2>3, <2>4
<1>3. CASE b # Main
  <2> DEFINE text == <<b, Spelling[v]>>
  <2>1. NodeReference(b, v) = text
    BY <1>3 DEF NodeReference
  <2>2. Len(text) = 2 /\ Head(text) = b /\ Last(text) = Spelling[v]
    BY DEF Last
  <2>3. Front(text) = <<b>>
    <3>1. Front(text) = SubSeq(text, 1, 1) /\ text \in Seq({b, Spelling[v]})
      BY DEF Front
    <3>2. /\ SubSeq(text, 1, 1) \in Seq({b, Spelling[v]})
          /\ Len(SubSeq(text, 1, 1)) = 1
          /\ SubSeq(text, 1, 1)[1] = text[1]
      BY <3>1, SubSeqProperties
    <3> QED
      BY <3>1, <3>2
  <2>4. b \notin Prefixes
    BY <1>3 DEF PlainNames, Branches
  <2>5. Resolve(text) = Qualified(text)
    BY <2>2 DEF Resolve
  <2>6. Qualified(text) = BranchVersion(text)
    BY <2>2, <2>4 DEF Qualified, Prefixes
  <2>7. BranchVersion(text) = Target("branch version", <<b>>, v)
    BY <1>1, <2>2, <2>3 DEF BranchVersion
  <2> QED
    BY <1>3, <2>1, <2>5, <2>6, <2>7
<1> QED
  BY <1>2, <1>3

(* So the snapshot checked out for a node, if there still is one, is its own. *)
LEMMA NodeCheckout ==
    ASSUME NEW b \in Branches, NEW v \in Versions, PlainNames
    PROVE  Checkout(Resolve(NodeReference(b, v))) \subseteq {Snapshot(b, v)}
<1>1. CASE b = Main
  <2>1. Resolve(NodeReference(b, v)) = Target("version", << >>, v)
    BY <1>1, NodeTarget
  <2>2. Checkout(Target("version", << >>, v)) = AtVersion(Main, v)
    BY DEF Checkout, Target
  <2> QED
    BY <1>1, <2>1, <2>2 DEF AtVersion
<1>2. CASE b # Main
  <2>1. Resolve(NodeReference(b, v)) = Target("branch version", <<b>>, v)
    BY <1>2, NodeTarget
  <2>2. \/ Checkout(Target("branch version", <<b>>, v)) = AtVersion(b, v)
        \/ Checkout(Target("branch version", <<b>>, v)) = {}
    BY DEF Checkout, Target
  <2> QED
    BY <2>1, <2>2 DEF AtVersion
<1> QED
  BY <1>1, <1>2

-----------------------------------------------------------------------------
(* Only Connect answers with a snapshot. *)
LEMMA OtherActions ==
    ASSUME Writer \/ Discover \/ UNCHANGED referencesVars
    PROVE  opened' = opened
  BY DEF Writer, Commit, Fork, SetTag, Discover, OpenRoot, ListBranches, ListTags,
         ReadVersions, Offer, referencesVars

(* A version's button opens that version of that branch (NodeOpensItself), for *)
(* every dataset whose branches are not called version, branch or tag, however *)
(* it changes between the discovery and the pick.                              *)
THEOREM NodesOpenThemselves ==
    ASSUME PlainNames
    PROVE  ReferencesSpec => []NodeOpensItself
<1>1. ReferencesInit => NodeOpensItself
  BY DEF ReferencesInit, NodeOpensItself
<1>2. ASSUME NodeOpensItself, [ReferencesNext]_referencesVars
      PROVE  NodeOpensItself'
  <2>1. CASE Writer \/ Discover \/ UNCHANGED referencesVars
    BY <1>2, <2>1, OtherActions DEF NodeOpensItself
  <2>2. ASSUME NEW b \in Branches, NEW v \in Versions, SelectVersion(b, v)
        PROVE  NodeOpensItself'
    <3>1. PICK s \in Checkout(Resolve(NodeReference(b, v))) :
             opened' = [button |-> [kind |-> "version", on |-> Snapshot(b, v)],
                        snapshot |-> s]
      BY <2>2 DEF SelectVersion, Connect
    <3>2. s = Snapshot(b, v)
      BY <3>1, NodeCheckout
    <3> QED
      BY <3>1, <3>2 DEF NodeOpensItself
  <2>3. ASSUME NEW t \in TagNames, SelectTag(t)
        PROVE  NodeOpensItself'
    BY <2>3 DEF SelectTag, Connect, NodeOpensItself
  <2>4. ASSUME NEW text \in Texts, SelectText(text)
        PROVE  NodeOpensItself'
    BY <2>4 DEF SelectText, Connect, NodeOpensItself
  <2>5. CASE SelectDefault
    BY <2>5 DEF SelectDefault, Connect, NodeOpensItself
  <2> QED
    BY <1>2, <2>1, <2>2, <2>3, <2>4, <2>5 DEF ReferencesNext, Select, Branches
<1> QED
  BY <1>1, <1>2, PTL DEF ReferencesSpec

-----------------------------------------------------------------------------
(* TagsHaveNodes and DefaultIsDiscovered.  TagsHaveNodes is no invariant a step *)
(* preserves by itself: that a version read after its tag was listed is among  *)
(* the versions read rests on the tag having been on a version of the dataset  *)
(* when it was listed, and on versions staying.                                *)

\* The snapshots of a table of tags are versions of the dataset.
Exist(table) ==
    \A t \in DOMAIN table : /\ table[t].branch \in DOMAIN versions
                            /\ table[t].version \in versions[table[t].branch]

\* The inductive invariant.
DInv ==
    /\ versions = [b \in DOMAIN versions |-> versions[b]]
    /\ Exist(tags)
    /\ phase \in {"start", "opened", "branches"} => DOMAIN catalog = {}
    /\ phase \in {"tags", "offered"} =>
          /\ Exist(listedTags)
          /\ \A t \in DOMAIN listedTags :
                LET on == listedTags[t]
                IN  on.branch \in DOMAIN catalog => on.version \in catalog[on.branch]
    /\ phase = "offered" => listed = DOMAIN catalog
    /\ phase # "offered" => opened = Nothing
    /\ DefaultIsDiscovered

(* Other programs only add versions, and tag versions that are there. *)
LEMMA WriterKeepsVersions ==
    ASSUME DInv, Writer
    PROVE  /\ versions' = [b \in DOMAIN versions' |-> versions'[b]]
           /\ DOMAIN versions \subseteq DOMAIN versions'
           /\ \A b \in DOMAIN versions : versions[b] \subseteq versions'[b]
           /\ Exist(tags)'
<1>1. ASSUME NEW b \in Branches, Commit(b)
      PROVE  /\ versions' = [c \in DOMAIN versions' |-> versions'[c]]
             /\ DOMAIN versions \subseteq DOMAIN versions'
             /\ \A c \in DOMAIN versions : versions[c] \subseteq versions'[c]
             /\ tags' = tags
  BY <1>1 DEF Commit, DInv
<1>2. ASSUME NEW b \in BranchNames, NEW p \in Branches, NEW v \in Versions,
             Fork(b, p, v)
      PROVE  /\ versions' = [c \in DOMAIN versions' |-> versions'[c]]
             /\ DOMAIN versions \subseteq DOMAIN versions'
             /\ \A c \in DOMAIN versions : versions[c] \subseteq versions'[c]
             /\ tags' = tags
  BY <1>2 DEF Fork, With, DInv
<1>3. ASSUME tags' = tags, DOMAIN versions \subseteq DOMAIN versions',
             \A c \in DOMAIN versions : versions[c] \subseteq versions'[c]
      PROVE  Exist(tags)'
  BY <1>3 DEF DInv, Exist
<1>4. ASSUME NEW t \in TagNames, NEW b \in Branches, NEW v \in Versions,
             SetTag(t, b, v)
      PROVE  versions' = versions /\ Exist(tags)'
  <2>1. b \in DOMAIN versions /\ v \in versions[b] /\ versions' = versions
    BY <1>4 DEF SetTag
  <2>2. /\ tags' = With(tags, t, Snapshot(b, v))
        /\ DOMAIN tags' = DOMAIN tags \cup {t}
        /\ \A u \in DOMAIN tags' : tags'[u] = IF u = t THEN Snapshot(b, v) ELSE tags[u]
    BY <1>4 DEF SetTag, With
  <2> QED
    BY <2>1, <2>2 DEF DInv, Exist, Snapshot
<1> QED
  BY <1>1, <1>2, <1>3, <1>4 DEF Writer, Branches, DInv

LEMMA DiscoveryInvariance == ReferencesSpec => []DInv
<1>1. ReferencesInit => DInv
  BY DEF ReferencesInit, DInv, Exist, NoBranch, DefaultIsDiscovered
<1>2. ASSUME DInv, [ReferencesNext]_referencesVars
      PROVE  DInv'
  <2>1. CASE Writer
    <3>1. UNCHANGED <<discovery, opened>>
      BY <2>1 DEF Writer, Commit, Fork, SetTag
    <3>2. Exist(listedTags) => Exist(listedTags)'
      BY <1>2, <2>1, <3>1, WriterKeepsVersions DEF Exist, discovery
    <3> QED
      BY <1>2, <2>1, <3>1, <3>2, WriterKeepsVersions
        DEF DInv, discovery, DefaultIsDiscovered
  <2>2. CASE OpenRoot
    BY <1>2, <2>2 DEF DInv, OpenRoot, dataset, Exist, DefaultIsDiscovered
  <2>3. CASE ListBranches
    BY <1>2, <2>3 DEF DInv, ListBranches, dataset, Exist, DefaultIsDiscovered
  <2>4. CASE ListTags
    BY <1>2, <2>4 DEF DInv, ListTags, dataset, Exist, DefaultIsDiscovered
  <2>5. ASSUME NEW b \in Branches, ReadVersions(b)
        PROVE  DInv'
    <3>1. /\ phase = "tags" /\ phase' = "tags"
          /\ UNCHANGED <<versions, tags, root, listed, listedTags, opened>>
          /\ DOMAIN catalog' = DOMAIN catalog \cup {b}
          /\ \A c \in DOMAIN catalog' :
                catalog'[c] = IF c = b THEN versions[b] ELSE catalog[c]
      BY <2>5 DEF ReadVersions, AfterTags, With, dataset
    <3> QED
      BY <1>2, <3>1 DEF DInv, Exist, DefaultIsDiscovered
  <2>6. CASE Offer
    BY <1>2, <2>6 DEF DInv, Offer, dataset, Exist, DefaultIsDiscovered
  <2>7. CASE Select
    <3>1. phase = "offered" /\ UNCHANGED <<dataset, discovery>>
      BY <2>7 DEF Select, SelectVersion, SelectTag, SelectText, SelectDefault, Connect
    <3>2. DefaultIsDiscovered'
      <4>1. CASE SelectDefault
        <5>1. Resolve(<<Main>>) = Target("main", << >>, Nothing)
          BY ReferencesAssumption DEF Resolve, Bare
        <5>2. Checkout(Target("main", << >>, Nothing)) = {Snapshot(Main, root)}
          BY DEF Checkout, Target, RootMain
        <5> QED
          BY <3>1, <4>1, <5>1, <5>2
            DEF SelectDefault, Connect, DefaultIsDiscovered, discovery, Snapshot
      <4>2. ASSUME ~SelectDefault
            PROVE  opened'.button.kind # "main"
        BY <2>7, <4>2 DEF Select, SelectVersion, SelectTag, SelectText, Connect
      <4> QED
        BY <4>1, <4>2 DEF DefaultIsDiscovered
    <3> QED
      BY <1>2, <3>1, <3>2 DEF DInv, dataset, discovery, Exist
  <2>8. CASE UNCHANGED referencesVars
    BY <1>2, <2>8 DEF DInv, referencesVars, dataset, discovery, Exist, DefaultIsDiscovered
  <2> QED
    BY <1>2, <2>1, <2>2, <2>3, <2>4, <2>5, <2>6, <2>7, <2>8
      DEF ReferencesNext, Discover, Branches
<1> QED
  BY <1>1, <1>2, PTL DEF ReferencesSpec

(* A tag listed has its node (TagsHaveNodes), whatever is committed, forked and *)
(* tagged between the reads of the discovery.                                   *)
THEOREM TagsKeepTheirNodes == ReferencesSpec => []TagsHaveNodes
<1>1. DInv => TagsHaveNodes
  BY DEF DInv, TagsHaveNodes
<1> QED
  BY <1>1, DiscoveryInvariance, PTL

(* A request with no reference opens main as discovered (DefaultIsDiscovered). *)
THEOREM DefaultStays == ReferencesSpec => []DefaultIsDiscovered
<1>1. DInv => DefaultIsDiscovered
  BY DEF DInv
<1> QED
  BY <1>1, DiscoveryInvariance, PTL
-----------------------------------------------------------------------------
(* ReferencesTypeOK.  Latest chooses a greatest version, so that each branch   *)
(* has one is part of the invariant; so is that the root of the discovery and  *)
(* the branches listed are still there.                                        *)

HasLatest(branch) == \E m \in versions[branch] : \A v \in versions[branch] : m >= v

ListedStay ==
    /\ listed \subseteq DOMAIN versions
    /\ phase # "start" => root \in versions[Main]

\* The inductive invariant.
RInv ==
    /\ ReferencesTypeOK /\ ListedStay
    /\ \A b \in DOMAIN versions : HasLatest(b)

LEMMA TableFacts ==
    ASSUME NEW t \in Tables
    PROVE  /\ DOMAIN t \subseteq Branches
           /\ t \in [DOMAIN t -> SUBSET Versions]
  BY DEF Tables

LEMMA TagTableFacts ==
    ASSUME NEW t \in TagTables
    PROVE  /\ DOMAIN t \subseteq TagNames
           /\ t \in [DOMAIN t -> Snapshots]
  BY DEF TagTables

\* Latest is a version of its branch, and none is later.
LEMMA LatestIsGreatest ==
    ASSUME NEW b, HasLatest(b)
    PROVE  /\ Latest(b) \in versions[b]
           /\ \A v \in versions[b] : Latest(b) >= v
  BY DEF Latest, Max, HasLatest

\* One more entry of a table.
LEMMA WithTable ==
    ASSUME NEW t \in Tables, NEW b \in Branches, NEW vs \in SUBSET Versions
    PROVE  /\ With(t, b, vs) \in Tables
           /\ DOMAIN With(t, b, vs) = DOMAIN t \cup {b}
           /\ \A c \in DOMAIN t \cup {b} : With(t, b, vs)[c] = IF c = b THEN vs ELSE t[c]
<1>1. With(t, b, vs) \in [DOMAIN t \cup {b} -> SUBSET Versions]
  BY TableFacts DEF With
<1>2. DOMAIN t \cup {b} \in SUBSET Branches
  BY TableFacts
<1> QED
  BY <1>1, <1>2 DEF Tables, With

LEMMA WithTag ==
    ASSUME NEW t \in TagTables, NEW tag \in TagNames, NEW s \in Snapshots
    PROVE  With(t, tag, s) \in TagTables
<1>1. With(t, tag, s) \in [DOMAIN t \cup {tag} -> Snapshots]
  BY TagTableFacts DEF With
<1>2. DOMAIN t \cup {tag} \in SUBSET TagNames
  BY TagTableFacts
<1> QED
  BY <1>1, <1>2 DEF TagTables

(* A snapshot checked out is one the dataset has. *)
LEMMA CheckedOutExists ==
    ASSUME RInv, DInv, phase = "offered", NEW target, NEW s \in Checkout(target)
    PROVE  s.branch \in DOMAIN versions /\ s.version \in versions[s.branch]
<1>1. CASE target.kind = "main"
  BY <1>1 DEF Checkout, RootMain, Snapshot, RInv, ListedStay, ReferencesTypeOK
<1>2. CASE target.kind = "version"
  BY <1>2 DEF Checkout, AtVersion, Snapshot, RInv, ReferencesTypeOK
<1>3. CASE target.kind = "branch"
  <2>1. Named(target, DOMAIN versions) /\ s = Snapshot(target.name[1], Latest(target.name[1]))
    BY <1>3 DEF Checkout
  <2> QED
    BY <2>1, LatestIsGreatest DEF Named, Snapshot, RInv
<1>4. CASE target.kind = "tag"
  BY <1>4 DEF Checkout, Named, DInv, Exist
<1>5. CASE target.kind = "branch version"
  <2>1. s \in AtVersion(target.name[1], target.version) /\ Named(target, DOMAIN versions)
    BY <1>5 DEF Checkout
  <2> QED
    BY <2>1 DEF AtVersion, Named, Snapshot
<1> QED
  BY <1>1, <1>2, <1>3, <1>4, <1>5 DEF Checkout

(* A commit or a fork adds a version to a branch, and it is the latest there. *)
LEMMA WriterKeepsTables ==
    ASSUME RInv, Writer
    PROVE  /\ versions' \in Tables /\ tags' \in TagTables
           /\ \A b \in DOMAIN versions' : HasLatest(b)'
<1>1. versions \in Tables /\ tags \in TagTables /\ \A b \in DOMAIN versions : HasLatest(b)
  BY DEF RInv, ReferencesTypeOK
<1>2. /\ DOMAIN versions \subseteq Branches
      /\ versions \in [DOMAIN versions -> SUBSET Versions]
      /\ Versions \subseteq Nat
  BY <1>1, TableFacts, ReferencesAssumption
<1>3. ASSUME NEW b \in Branches, Commit(b)
      PROVE  /\ versions' \in Tables /\ tags' \in TagTables
             /\ \A c \in DOMAIN versions' : HasLatest(c)'
  <2>1. PICK n \in Versions : /\ n = Latest(b) + 1 /\ b \in DOMAIN versions
                             /\ versions' = [versions EXCEPT ![b] = @ \cup {n}]
                             /\ tags' = tags
    BY <1>3 DEF Commit
  <2>2. Latest(b) \in versions[b] /\ \A v \in versions[b] : Latest(b) >= v
    BY <1>1, <2>1, LatestIsGreatest
  <2>3. n \in Nat /\ \A v \in versions[b] \cup {n} : n >= v
    BY <1>2, <2>1, <2>2
  <2>4. versions' \in [DOMAIN versions -> SUBSET Versions] /\ DOMAIN versions' = DOMAIN versions
    BY <1>2, <2>1
  <2>5. \A c \in DOMAIN versions' : HasLatest(c)'
    BY <1>1, <1>2, <2>1, <2>3, <2>4 DEF HasLatest
  <2> QED
    BY <1>1, <1>2, <2>1, <2>4, <2>5 DEF Tables
<1>4. ASSUME NEW b \in BranchNames, NEW p \in Branches, NEW v \in Versions, Fork(b, p, v)
      PROVE  /\ versions' \in Tables /\ tags' \in TagTables
             /\ \A c \in DOMAIN versions' : HasLatest(c)'
  <2>1. /\ versions' = With(versions, b, {v + 1}) /\ v + 1 \in Versions /\ tags' = tags
        /\ b \in Branches
    BY <1>4 DEF Fork, Branches
  <2>2. /\ versions' \in Tables /\ DOMAIN versions' = DOMAIN versions \cup {b}
        /\ \A c \in DOMAIN versions \cup {b} :
              versions'[c] = IF c = b THEN {v + 1} ELSE versions[c]
    BY <1>1, <2>1, WithTable
  <2>3. ASSUME NEW c \in DOMAIN versions' PROVE HasLatest(c)'
    <3>1. CASE c = b
      <4>1. versions'[c] = {v + 1} /\ v + 1 >= v + 1
        BY <1>2, <2>1, <2>2, <3>1
      <4> QED
        BY <4>1 DEF HasLatest
    <3>2. CASE c # b
      BY <1>1, <2>2, <3>2 DEF HasLatest
    <3> QED
      BY <3>1, <3>2
  <2> QED
    BY <1>1, <2>1, <2>2, <2>3
<1>5. ASSUME NEW t \in TagNames, NEW b \in Branches, NEW v \in Versions, SetTag(t, b, v)
      PROVE  /\ versions' \in Tables /\ tags' \in TagTables
             /\ \A c \in DOMAIN versions' : HasLatest(c)'
  <2>1. versions' = versions /\ tags' = With(tags, t, Snapshot(b, v))
    BY <1>5 DEF SetTag
  <2>2. Snapshot(b, v) \in Snapshots
    BY DEF Snapshot, Snapshots
  <2>3. \A c \in DOMAIN versions' : HasLatest(c)'
    BY <1>1, <2>1 DEF HasLatest
  <2> QED
    BY <1>1, <2>1, <2>2, <2>3, WithTag
<1> QED
  BY <1>3, <1>4, <1>5 DEF Writer, Branches

LEMMA ReferencesInvariance == ReferencesSpec => []RInv
<1>1. ReferencesInit => RInv
  <2> SUFFICES ASSUME ReferencesInit PROVE RInv
    OBVIOUS
  <2>1. versions \in [{Main} -> SUBSET Versions] /\ {Main} \in SUBSET Branches
    BY ReferencesAssumption DEF ReferencesInit, Branches
  <2>2. catalog \in [{} -> SUBSET Versions] /\ tags \in [{} -> Snapshots]
    BY DEF ReferencesInit, NoBranch
  <2>3. versions \in Tables /\ catalog \in Tables /\ tags \in TagTables
    BY <2>1, <2>2 DEF Tables, TagTables
  <2> QED
    BY <2>1, <2>3
      DEF ReferencesInit, RInv, ReferencesTypeOK, ListedStay, HasLatest, NoBranch
<1>2. ASSUME RInv, DInv, [ReferencesNext]_referencesVars
      PROVE  RInv'
  <2>1. CASE Writer
    <3>1. UNCHANGED <<discovery, opened>>
      BY <2>1 DEF Writer, Commit, Fork, SetTag
    <3>2. /\ DOMAIN versions \subseteq DOMAIN versions'
          /\ \A b \in DOMAIN versions : versions[b] \subseteq versions'[b]
      BY <1>2, <2>1, WriterKeepsVersions
    <3> QED
      BY <1>2, <2>1, <3>1, <3>2, WriterKeepsTables
        DEF RInv, ReferencesTypeOK, ListedStay, discovery
  <2>2. CASE OpenRoot
    <3>1. root' = Latest(Main) /\ Latest(Main) \in versions[Main]
      BY <1>2, <2>2, LatestIsGreatest DEF OpenRoot, RInv, ReferencesTypeOK
    <3>2. versions[Main] \subseteq Versions
      BY <1>2, TableFacts DEF RInv, ReferencesTypeOK
    <3> QED
      BY <1>2, <2>2, <3>1, <3>2
        DEF OpenRoot, dataset, RInv, ReferencesTypeOK, ListedStay, HasLatest
  <2>3. CASE ListBranches
    <3>1. DOMAIN catalog = {} /\ DOMAIN versions \subseteq Branches
      BY <1>2, <2>3, TableFacts DEF ListBranches, DInv, RInv, ReferencesTypeOK
    <3> QED
      BY <1>2, <2>3, <3>1
        DEF ListBranches, dataset, RInv, ReferencesTypeOK, ListedStay, HasLatest
  <2>4. CASE ListTags
    BY <1>2, <2>4 DEF ListTags, dataset, RInv, ReferencesTypeOK, ListedStay, HasLatest
  <2>5. ASSUME NEW b \in Branches, ReadVersions(b)
        PROVE  RInv'
    <3>1. b \in listed /\ b \in DOMAIN versions /\ catalog' = With(catalog, b, versions[b])
      BY <1>2, <2>5 DEF ReadVersions, RInv, ListedStay
    <3>2. versions[b] \subseteq Versions
      BY <1>2, <3>1, TableFacts DEF RInv, ReferencesTypeOK
    <3>3. catalog' \in Tables /\ DOMAIN catalog' = DOMAIN catalog \cup {b}
      BY <1>2, <3>1, <3>2, WithTable DEF RInv, ReferencesTypeOK
    <3> QED
      BY <1>2, <2>5, <3>1, <3>3
        DEF ReadVersions, AfterTags, dataset, RInv, ReferencesTypeOK, ListedStay, HasLatest
  <2>6. CASE Offer
    BY <1>2, <2>6 DEF Offer, dataset, RInv, ReferencesTypeOK, ListedStay, HasLatest
  <2>7. CASE Select
    <3>1. PICK button, text : Connect(button, text)
      BY <2>7 DEF Select, SelectVersion, SelectTag, SelectText, SelectDefault
    <3>2. PICK s \in Checkout(Resolve(text)) : opened' = [button |-> button, snapshot |-> s]
      BY <3>1 DEF Connect
    <3>3. s.branch \in DOMAIN versions /\ s.version \in versions[s.branch]
      BY <1>2, <3>1, <3>2, CheckedOutExists DEF Connect
    <3> QED
      BY <1>2, <3>1, <3>2, <3>3
        DEF Connect, dataset, discovery, RInv, ReferencesTypeOK, ListedStay, HasLatest
  <2>8. CASE UNCHANGED referencesVars
    BY <1>2, <2>8 DEF referencesVars, dataset, discovery, RInv, ReferencesTypeOK, ListedStay,
      HasLatest
  <2> QED
    BY <1>2, <2>1, <2>2, <2>3, <2>4, <2>5, <2>6, <2>7, <2>8
      DEF ReferencesNext, Discover, Branches
<1> QED
  BY <1>1, <1>2, DiscoveryInvariance, PTL DEF ReferencesSpec

(* Whatever is committed, forked and tagged, what is open is a snapshot the     *)
(* dataset has, and the tables of the catalog are tables of its versions        *)
(* (dataset.rs:53-127, 208-222).                                                *)
THEOREM ReferencesTyped == ReferencesSpec => []ReferencesTypeOK
<1>1. RInv => ReferencesTypeOK
  BY DEF RInv
<1> QED
  BY <1>1, ReferencesInvariance, PTL

-----------------------------------------------------------------------------
(* The browser: the shape of its state and the load waited for.  OneLoad speaks *)
(* of the loads of the present generation only; that these are never superseded *)
(* is part of the invariant, and so is, for TypeOK, that a pick has a catalog    *)
(* for its snapshot or there is one on screen already.                          *)

RequestShape ==
    /\ catalogs \in 0..MaxCatalogs /\ picks \in 0..MaxPicks
    /\ discoveries \subseteq [catalog : Catalogs, info : BOOLEAN, mounted : BOOLEAN]
    /\ connects \subseteq [pick : 1..MaxPicks, dataset : Catalogs,
                           pendingCatalog : Optional(Catalogs), mounted : BOOLEAN]
    /\ loads \subseteq [connection : Connections, pendingCatalog : Optional(Catalogs),
                        offset : 0..Pages, append : BOOLEAN, mounted : BOOLEAN,
                        generation : Nat, latest : BOOLEAN, refused : BOOLEAN]

StateShape ==
    /\ fileGeneration \in Nat /\ loadingFilesRef \in BOOLEAN
    /\ ui \in UiState /\ view \in UiState

\* Whoever can put a snapshot on screen has a catalog for it, or there is one.
CatalogKept ==
    /\ view.connection # None => view.catalog # None
    /\ view.catalog # None => ui.catalog # None
    /\ ui.connection # None => ui.catalog # None
    /\ \A c \in connects : c.pendingCatalog # None \/ ui.catalog # None
    /\ \A f \in loads : ~f.append => f.pendingCatalog # None \/ ui.catalog # None

\* The load of the present generation is one, and it is the latest.
CurrentInv ==
    /\ \A f \in loads : f.generation <= fileGeneration
    /\ \A f \in loads : Current(f) => f.latest
    /\ \A f, g \in loads : Current(f) /\ Current(g) => f = g
    /\ loadingFilesRef <=> \E f \in loads : Current(f)
    /\ ui.loadingFiles <=> \E f \in loads : Current(f) /\ f.append

\* The inductive invariant, whether events reach a stale page or not.
BInv == RequestShape /\ StateShape /\ CatalogKept /\ CurrentInv

LEMMA InitBInv == Init => BInv
<1> SUFFICES ASSUME Init PROVE BInv
  OBVIOUS
<1>1. Blank \in UiState
  BY DEF Blank, UiState, Optional
<1>2. RequestShape
  BY BrowserAssumption DEF Init, RequestShape
<1>3. StateShape
  BY <1>1 DEF Init, StateShape
<1>4. CatalogKept /\ CurrentInv
  BY DEF Init, CatalogKept, CurrentInv, Blank
<1> QED
  BY <1>2, <1>3, <1>4 DEF BInv

(* Dialogs that open and close, and requests that are forgotten, disturb nothing. *)
LEMMA DialogsKeepBInv ==
    ASSUME BInv, UNCHANGED <<refs, view, loads, catalogs, picks>>,
           discoveries' \subseteq discoveries, connects' \subseteq connects,
           ui' \in UiState, ui'.connection = ui.connection, ui'.catalog = ui.catalog,
           ui'.loadingFiles = ui.loadingFiles
    PROVE  BInv'
<1>1. RequestShape'
  BY DEF BInv, RequestShape
<1>2. StateShape'
  BY DEF BInv, StateShape, refs
<1>3. CatalogKept'
  BY DEF BInv, CatalogKept
<1>4. CurrentInv'
  BY DEF BInv, CurrentInv, Current, refs
<1> QED
  BY <1>1, <1>2, <1>3, <1>4 DEF BInv

\* The steps in which only dialogs and the selection change.
DialogAction ==
    \/ OpenConnector \/ OpenReference \/ CancelConnector \/ Back \/ ChooseAnother
    \/ SelectOverview \/ ConnectionExpired
    \/ \E d \in discoveries : Discovered(d) \/ DiscoveryFails(d)
    \/ \E c \in connects : ConnectFails(c)

SameSnapshotOnScreen ==
    /\ ui'.connection = ui.connection /\ ui'.catalog = ui.catalog
    /\ ui'.loadingFiles = ui.loadingFiles
    /\ ui'.files = ui.files /\ ui'.nextFileOffset = ui.nextFileOffset

LEMMA DialogActionFacts ==
    ASSUME BInv, DialogAction
    PROVE  /\ UNCHANGED <<refs, view, loads, catalogs, picks>>
           /\ discoveries' \subseteq discoveries /\ connects' \subseteq connects
           /\ ui' \in UiState /\ SameSnapshotOnScreen
           /\ ui'.selection \in {ui.selection, None}
<1>1. ui \in UiState
  BY DEF BInv, StateShape
<1>2. CASE OpenConnector \/ OpenReference \/ CancelConnector \/ ChooseAnother
  BY <1>1, <1>2 DEF OpenConnector, OpenReference, CancelConnector, ChooseAnother, Set,
    UiState, refs, requests, counts, SameSnapshotOnScreen
<1>3. CASE Back
  BY <1>1, <1>3 DEF Back, Set, UiState, Optional, refs, requests, counts,
    SameSnapshotOnScreen
<1>4. CASE SelectOverview
  BY <1>1, <1>4 DEF SelectOverview, Set, UiState, Optional, refs, requests, counts,
    SameSnapshotOnScreen
<1>5. CASE ConnectionExpired
  BY <1>1, <1>5 DEF ConnectionExpired, Reconnect, UiState, refs, requests, counts,
    SameSnapshotOnScreen
<1>6. ASSUME NEW d \in discoveries, Discovered(d)
      PROVE  /\ UNCHANGED <<refs, view, loads, catalogs, picks>>
             /\ discoveries' \subseteq discoveries /\ connects' \subseteq connects
             /\ ui' \in UiState /\ SameSnapshotOnScreen
             /\ ui'.selection = ui.selection
  <2>1. d.catalog \in Catalogs
    BY DEF BInv, RequestShape
  <2>2. PICK open \in BOOLEAN :
           ui' = [ui EXCEPT !.pendingCatalog = d.catalog, !.showConnector = FALSE,
                            !.showReference = open]
    BY <1>6, Zenon DEF Discovered
  <2>3. ui' \in UiState /\ SameSnapshotOnScreen /\ ui'.selection = ui.selection
    BY <1>1, <2>1, <2>2 DEF UiState, Optional, SameSnapshotOnScreen
  <2> QED
    BY <1>6, <2>3 DEF Discovered, refs, counts
<1>7. ASSUME NEW d \in discoveries, DiscoveryFails(d)
      PROVE  /\ UNCHANGED <<refs, ui, view, loads, catalogs, picks, connects>>
             /\ discoveries' \subseteq discoveries
  BY <1>7 DEF DiscoveryFails, refs
<1>8. ASSUME NEW c \in connects, ConnectFails(c)
      PROVE  /\ UNCHANGED <<refs, view, loads, catalogs, picks>>
             /\ discoveries' \subseteq discoveries /\ connects' \subseteq connects
             /\ ui' \in UiState /\ SameSnapshotOnScreen
             /\ ui'.selection = ui.selection
  BY <1>1, <1>8 DEF ConnectFails, Reconnect, UiState, refs, SameSnapshotOnScreen
<1> QED
  BY <1>1, <1>2, <1>3, <1>4, <1>5, <1>6, <1>7, <1>8 DEF DialogAction, SameSnapshotOnScreen

\* A file chosen is one of the files rendered.
LEMMA SelectFileFacts ==
    ASSUME BInv, NEW i \in 1..(Pages + 1), SelectFile(i)
    PROVE  /\ UNCHANGED <<refs, view, requests, counts>> /\ Event
           /\ ui' \in UiState /\ SameSnapshotOnScreen
           /\ i \in DOMAIN view.files /\ ui'.selection = view.files[i][1]
<1>1. ui \in UiState /\ view \in UiState
  BY DEF BInv, StateShape
<1>2. /\ UNCHANGED <<refs, view, requests, counts>> /\ Event
      /\ i \in DOMAIN view.files
      /\ ui' = [ui EXCEPT !.selection = view.files[i][1]]
  BY DEF SelectFile, Set
<1>3. view.files[i][1] \in 1..MaxPicks
  BY <1>1, <1>2 DEF UiState
<1> QED
  BY <1>1, <1>2, <1>3 DEF UiState, Optional, SameSnapshotOnScreen

\* What a dialog that goes forgets is only that it waits.
LEMMA MountedRequests ==
    ASSUME BInv, NEW stays \in BOOLEAN
    PROVE  /\ Mounted(discoveries, stays) \subseteq
                 [catalog : Catalogs, info : BOOLEAN, mounted : BOOLEAN]
           /\ Mounted(connects, stays) \subseteq
                 [pick : 1..MaxPicks, dataset : Catalogs,
                  pendingCatalog : Optional(Catalogs), mounted : BOOLEAN]
           /\ Mounted(loads, stays) \subseteq
                 [connection : Connections, pendingCatalog : Optional(Catalogs),
                  offset : 0..Pages, append : BOOLEAN, mounted : BOOLEAN,
                  generation : Nat, latest : BOOLEAN, refused : BOOLEAN]
<1>1. ASSUME NEW d \in discoveries
      PROVE  [d EXCEPT !.mounted = @ /\ stays] \in
                [catalog : Catalogs, info : BOOLEAN, mounted : BOOLEAN]
  BY DEF BInv, RequestShape
<1>2. ASSUME NEW c \in connects
      PROVE  [c EXCEPT !.mounted = @ /\ stays] \in
                [pick : 1..MaxPicks, dataset : Catalogs,
                 pendingCatalog : Optional(Catalogs), mounted : BOOLEAN]
  BY DEF BInv, RequestShape
<1>3. ASSUME NEW f \in loads
      PROVE  [f EXCEPT !.mounted = @ /\ stays] \in
                [connection : Connections, pendingCatalog : Optional(Catalogs),
                 offset : 0..Pages, append : BOOLEAN, mounted : BOOLEAN,
                 generation : Nat, latest : BOOLEAN, refused : BOOLEAN]
  BY DEF BInv, RequestShape
<1> QED
  BY <1>1, <1>2, <1>3, Zenon DEF Mounted

\* Two loads of which only `mounted` or `refused` differ.
Alike(f, g) ==
    /\ f.connection = g.connection /\ f.pendingCatalog = g.pendingCatalog
    /\ f.offset = g.offset /\ f.append = g.append
    /\ f.generation = g.generation /\ f.latest = g.latest

SameLoads ==
    /\ \A g \in loads' : \E f \in loads : Alike(f, g)
    /\ \A f \in loads : \E g \in loads' : Alike(f, g)
    /\ \A g, h \in loads' :
          g.generation = fileGeneration /\ h.generation = fileGeneration => g = h

LEMMA SameLoadsKeep ==
    ASSUME BInv, SameLoads, UNCHANGED <<refs, ui, catalogs, picks>>,
           RequestShape', view' \in {view, ui}, UNCHANGED connects \/
           \A c \in connects' : \E d \in connects : c.pendingCatalog = d.pendingCatalog
    PROVE  BInv'
<1>1. StateShape'
  BY DEF BInv, StateShape, refs
<1>2. CatalogKept'
  BY DEF BInv, CatalogKept, SameLoads, Alike
<1>3. CurrentInv'
  <2>1. fileGeneration' = fileGeneration /\ loadingFilesRef' = loadingFilesRef /\ ui' = ui
    BY DEF refs
  <2>2. /\ \A f \in loads' : f.generation <= fileGeneration
        /\ \A f \in loads' : f.generation = fileGeneration => f.latest
    BY DEF BInv, CurrentInv, Current, SameLoads, Alike
  <2>3. (\E f \in loads' : f.generation = fileGeneration)
          <=> (\E f \in loads : f.generation = fileGeneration)
    BY DEF SameLoads, Alike
  <2>4. (\E f \in loads' : f.generation = fileGeneration /\ f.append)
          <=> (\E f \in loads : f.generation = fileGeneration /\ f.append)
    BY DEF SameLoads, Alike
  <2> QED
    BY <2>1, <2>2, <2>3, <2>4 DEF BInv, CurrentInv, Current, SameLoads
<1> QED
  BY <1>1, <1>2, <1>3 DEF BInv

LEMMA RenderFacts ==
    ASSUME BInv, Render
    PROVE  BInv' /\ SameLoads /\ UNCHANGED <<refs, ui>>
<1>1. /\ UNCHANGED <<refs, ui, catalogs, picks>> /\ view' = ui
  BY DEF Render, counts
<1>2. PICK a \in BOOLEAN, b \in BOOLEAN :
         /\ discoveries' = Mounted(discoveries, a)
         /\ connects' = Mounted(connects, b) /\ loads' = Mounted(loads, b)
  <2> DEFINE a == Connector(ui) = Connector(view)
             b == Browser(ui) = Browser(view)
  <2>1. a \in BOOLEAN /\ b \in BOOLEAN
    OBVIOUS
  <2>2. /\ discoveries' = Mounted(discoveries, a)
        /\ connects' = Mounted(connects, b) /\ loads' = Mounted(loads, b)
    BY Zenon DEF Render
  <2> QED
    BY <2>1, <2>2, Zenon
<1>3. RequestShape'
  <2>1. /\ discoveries' \subseteq [catalog : Catalogs, info : BOOLEAN, mounted : BOOLEAN]
        /\ connects' \subseteq [pick : 1..MaxPicks, dataset : Catalogs,
                                pendingCatalog : Optional(Catalogs), mounted : BOOLEAN]
        /\ loads' \subseteq [connection : Connections, pendingCatalog : Optional(Catalogs),
                             offset : 0..Pages, append : BOOLEAN, mounted : BOOLEAN,
                             generation : Nat, latest : BOOLEAN, refused : BOOLEAN]
    BY <1>2, MountedRequests, Zenon
  <2> QED
    BY <1>1, <2>1 DEF BInv, RequestShape
<1>4. \A f \in loads : Alike(f, [f EXCEPT !.mounted = @ /\ b])
  BY DEF BInv, RequestShape, Alike
<1>5. \A g \in loads' : \E f \in loads : g = [f EXCEPT !.mounted = @ /\ b]
  BY <1>2, Zenon DEF Mounted
<1>6. \A f \in loads : [f EXCEPT !.mounted = @ /\ b] \in loads'
  BY <1>2, Zenon DEF Mounted
<1>7. SameLoads
  <2>1. ASSUME NEW g \in loads' PROVE \E f \in loads : Alike(f, g)
    BY <1>4, <1>5
  <2>2. ASSUME NEW f \in loads PROVE \E g \in loads' : Alike(f, g)
    BY <1>4, <1>6
  <2>3. ASSUME NEW g \in loads', NEW h \in loads',
               g.generation = fileGeneration, h.generation = fileGeneration
        PROVE  g = h
    <3>1. PICK e \in loads : g = [e EXCEPT !.mounted = @ /\ b]
      BY <1>5
    <3>2. PICK f \in loads : h = [f EXCEPT !.mounted = @ /\ b]
      BY <1>5
    <3>3. e.generation = fileGeneration /\ f.generation = fileGeneration
      BY <1>4, <2>3, <3>1, <3>2 DEF Alike
    <3>4. e = f
      BY <3>3 DEF BInv, CurrentInv, Current
    <3> QED
      BY <3>1, <3>2, <3>4
  <2> QED
    BY <2>1, <2>2, <2>3 DEF SameLoads
<1>8. \A c \in connects' : \E d \in connects : c.pendingCatalog = d.pendingCatalog
  <2> SUFFICES ASSUME NEW c \in connects'
               PROVE  \E d \in connects : c.pendingCatalog = d.pendingCatalog
    OBVIOUS
  <2>1. PICK d \in connects : c = [d EXCEPT !.mounted = @ /\ b]
    BY <1>2, Zenon DEF Mounted
  <2>2. c.pendingCatalog = d.pendingCatalog
    BY <2>1 DEF BInv, RequestShape
  <2> QED
    BY <2>2
<1> QED
  BY <1>1, <1>3, <1>7, <1>8, SameLoadsKeep

\* An error status changes no more than that the load was refused.
LEMMA RefusedFacts ==
    ASSUME BInv, NEW f \in loads, Refused(f)
    PROVE  BInv' /\ SameLoads /\ UNCHANGED <<refs, ui, view>>
<1> DEFINE r == [f EXCEPT !.refused = TRUE]
<1>1. /\ UNCHANGED <<refs, ui, view, discoveries, connects, catalogs, picks>>
      /\ loads' = (loads \ {f}) \cup {r}
  BY DEF Refused
<1>2. /\ Alike(f, r)
      /\ r \in [connection : Connections, pendingCatalog : Optional(Catalogs),
                 offset : 0..Pages, append : BOOLEAN, mounted : BOOLEAN,
                 generation : Nat, latest : BOOLEAN, refused : BOOLEAN]
  BY DEF BInv, RequestShape, Alike
<1> HIDE DEF r
<1>3. RequestShape'
  BY <1>1, <1>2 DEF BInv, RequestShape
<1>4. SameLoads
  <2>. \A e \in loads : Alike(e, e)
    BY DEF Alike
  <2>1. \A g \in loads' : \E e \in loads : Alike(e, g)
    BY <1>1, <1>2
  <2>2. \A e \in loads : \E g \in loads' : Alike(e, g)
    BY <1>1, <1>2
  <2>3. \A g, h \in loads' :
          g.generation = fileGeneration /\ h.generation = fileGeneration => g = h
    BY <1>1, <1>2 DEF BInv, CurrentInv, Current, Alike
  <2> QED
    BY <2>1, <2>2, <2>3 DEF SameLoads
<1> QED
  BY <1>1, <1>3, <1>4, SameLoadsKeep

LEMMA SubmitKeeps == BInv /\ Submit => BInv'
<1> SUFFICES ASSUME BInv, Submit PROVE BInv'
  OBVIOUS
<1> DEFINE d == [catalog |-> catalogs + 1, info |-> view.connection # None, mounted |-> TRUE]
<1>1. /\ UNCHANGED <<refs, ui, view, connects, loads, picks>>
      /\ catalogs' = catalogs + 1 /\ catalogs < MaxCatalogs
      /\ discoveries' = discoveries \cup {d}
  BY DEF Submit
<1>2. catalogs + 1 \in Catalogs /\ catalogs' \in 0..MaxCatalogs
  BY <1>1, BrowserAssumption DEF BInv, RequestShape, Catalogs
<1>3. d \in [catalog : Catalogs, info : BOOLEAN, mounted : BOOLEAN]
  BY <1>2
<1> HIDE DEF d
<1>4. RequestShape'
  BY <1>1, <1>2, <1>3 DEF BInv, RequestShape
<1>5. StateShape' /\ CatalogKept' /\ CurrentInv'
  BY <1>1 DEF BInv, StateShape, CatalogKept, CurrentInv, Current, refs
<1> QED
  BY <1>4, <1>5 DEF BInv

(* Where a reference is picked there is a catalog to pick it from, and either a  *)
(* dataset is pending or a snapshot is on screen, which has its catalog.         *)
LEMMA Offers ==
    ASSUME BInv, Browser(view) # None
    PROVE  /\ OfferedCatalog(view) \in Catalogs
           /\ view.pendingCatalog # None \/ ui.catalog # None
<1>1. view.catalog \in Optional(Catalogs) /\ view.pendingCatalog \in Optional(Catalogs)
  BY DEF BInv, StateShape, UiState
<1>2. CASE Screen(view) = "browser"
  <2>1. view.pendingCatalog # None
    BY <1>2 DEF Screen
  <2> QED
    BY <1>1, <2>1 DEF OfferedCatalog, Optional
<1>3. CASE Screen(view) # "browser"
  <2>1. Screen(view) = "app" /\ OfferedCatalog(view) # None
    BY <1>3 DEF Browser
  <2>2. view.connection # None
    BY <2>1 DEF Screen
  <2> QED
    BY <1>1, <2>1, <2>2 DEF OfferedCatalog, Optional, BInv, CatalogKept
<1> QED
  BY <1>2, <1>3

LEMMA PickKeeps == BInv /\ Pick => BInv'
<1> SUFFICES ASSUME BInv, Pick PROVE BInv'
  OBVIOUS
<1> DEFINE c == [pick |-> picks + 1, dataset |-> OfferedCatalog(view),
                 pendingCatalog |-> view.pendingCatalog, mounted |-> TRUE]
<1>1. /\ UNCHANGED <<refs, ui, view, discoveries, loads, catalogs>>
      /\ picks' = picks + 1 /\ picks < MaxPicks /\ Browser(view) # None
      /\ connects' = connects \cup {c}
  BY DEF Pick
<1>2. picks + 1 \in 1..MaxPicks /\ picks' \in 0..MaxPicks
  BY <1>1, BrowserAssumption DEF BInv, RequestShape
<1>3. view.pendingCatalog \in Optional(Catalogs)
  BY DEF BInv, StateShape, UiState
<1>4. c \in [pick : 1..MaxPicks, dataset : Catalogs,
             pendingCatalog : Optional(Catalogs), mounted : BOOLEAN]
  BY <1>1, <1>2, <1>3, Offers
<1>5. c.pendingCatalog # None \/ ui.catalog # None
  BY <1>1, Offers
<1> HIDE DEF c
<1>6. RequestShape'
  BY <1>1, <1>2, <1>4 DEF BInv, RequestShape
<1>7. CatalogKept'
  BY <1>1, <1>5 DEF BInv, CatalogKept
<1>8. StateShape' /\ CurrentInv'
  BY <1>1 DEF BInv, StateShape, CurrentInv, Current, refs
<1> QED
  BY <1>6, <1>7, <1>8 DEF BInv

\* The loads a new one supersedes; they keep their generation.
LEMMA SupersededFacts ==
    ASSUME BInv, NEW others \in SUBSET loads
    PROVE  /\ Superseded(others) \subseteq
                 [connection : Connections, pendingCatalog : Optional(Catalogs),
                  offset : 0..Pages, append : BOOLEAN, mounted : BOOLEAN,
                  generation : Nat, latest : BOOLEAN, refused : BOOLEAN]
           /\ \A g \in Superseded(others) : \E f \in loads :
                /\ g.pendingCatalog = f.pendingCatalog /\ g.connection = f.connection
                /\ g.append = f.append /\ g.offset = f.offset
                /\ g.generation = f.generation
<1> SUFFICES ASSUME NEW g \in Superseded(others)
             PROVE  /\ g \in [connection : Connections, pendingCatalog : Optional(Catalogs),
                              offset : 0..Pages, append : BOOLEAN, mounted : BOOLEAN,
                              generation : Nat, latest : BOOLEAN, refused : BOOLEAN]
                    /\ \E f \in loads :
                          /\ g.pendingCatalog = f.pendingCatalog
                          /\ g.connection = f.connection
                          /\ g.append = f.append /\ g.offset = f.offset
                          /\ g.generation = f.generation
  OBVIOUS
<1>1. PICK f \in loads : g = [f EXCEPT !.latest = FALSE]
  BY Zenon DEF Superseded
<1> QED
  BY <1>1 DEF BInv, RequestShape

\* The load sent is the one waited for from then on.
LEMMA LoadSent ==
    ASSUME BInv, NEW others \in SUBSET loads, NEW f,
           f \in [connection : Connections, pendingCatalog : Optional(Catalogs),
                  offset : 0..Pages, append : BOOLEAN, mounted : BOOLEAN,
                  generation : Nat, latest : BOOLEAN, refused : BOOLEAN],
           loads' = Superseded(others) \cup {f},
           f.generation = fileGeneration', f.latest, loadingFilesRef' = TRUE,
           fileGeneration' \in Nat,
           \A g \in loads : g.generation < fileGeneration',
           ~f.append => f.pendingCatalog # None \/ ui.catalog # None,
           ui' = [ui EXCEPT !.loadingFiles = f.append],
           UNCHANGED <<view, discoveries, catalogs, picks>>, connects' \subseteq connects
    PROVE  BInv'
<1>1. ui \in UiState /\ f.append \in BOOLEAN
  BY DEF BInv, StateShape
<1>2. /\ ui' \in UiState /\ ui'.connection = ui.connection /\ ui'.catalog = ui.catalog
      /\ ui'.loadingFiles = f.append
  BY <1>1 DEF UiState
<1>3. RequestShape'
  BY SupersededFacts DEF BInv, RequestShape
<1>4. StateShape'
  BY <1>2 DEF BInv, StateShape
<1>5. CatalogKept'
  BY <1>2, SupersededFacts DEF BInv, CatalogKept
<1>6. ASSUME NEW g \in Superseded(others) PROVE g.generation < fileGeneration'
  BY SupersededFacts
<1>7. \A g \in loads' : g.generation \in Nat
  BY <1>3 DEF RequestShape
<1>8. \A g \in loads' : g.generation = fileGeneration' <=> g = f
  BY <1>6, <1>7
<1>9. \A g \in loads' : g.generation <= fileGeneration'
  BY <1>6, <1>7
<1>10. CurrentInv'
  BY <1>2, <1>8, <1>9 DEF CurrentInv, Current
<1> QED
  BY <1>3, <1>4, <1>5, <1>10 DEF BInv

LEMMA ConnectedKeeps == ASSUME BInv, NEW c \in connects, Connected(c) PROVE BInv'
<1> DEFINE f == Load([pick |-> c.pick, dataset |-> c.dataset], c.pendingCatalog, 0,
                     FALSE, c.mounted, fileGeneration + 1)
<1>1. /\ UNCHANGED <<view, discoveries, catalogs, picks>> /\ connects' \subseteq connects
      /\ loads' = Superseded(Abort) \cup {f} /\ loadingFilesRef' = TRUE
      /\ fileGeneration' = fileGeneration + 1
      /\ ui' = [ui EXCEPT !.loadingFiles = FALSE]
  BY DEF Connected, counts
<1>2. fileGeneration \in Nat /\ fileGeneration' \in Nat
  BY <1>1 DEF BInv, StateShape
<1>3. /\ f \in [connection : Connections, pendingCatalog : Optional(Catalogs),
                offset : 0..Pages, append : BOOLEAN, mounted : BOOLEAN,
                generation : Nat, latest : BOOLEAN, refused : BOOLEAN]
      /\ f.generation = fileGeneration' /\ f.latest /\ f.append = FALSE
  <2>1. 0 \in 0..Pages
    BY BrowserAssumption
  <2> QED
    BY <1>1, <1>2, <2>1 DEF Load, Connections, BInv, RequestShape
<1>4. f.pendingCatalog # None \/ ui.catalog # None
  BY DEF Load, BInv, CatalogKept
<1>5. \A g \in loads : g.generation < fileGeneration'
  BY <1>1, <1>2 DEF BInv, CurrentInv, RequestShape
<1> HIDE DEF f
<1> QED
  BY <1>1, <1>2, <1>3, <1>4, <1>5, LoadSent DEF Abort

LEMMA LoadMoreKeeps == BInv /\ LoadMore => BInv'
<1> SUFFICES ASSUME BInv, LoadMore PROVE BInv'
  OBVIOUS
<1> DEFINE f == Load(view.connection, view.pendingCatalog, view.nextFileOffset, TRUE,
                     FALSE, fileGeneration)
<1>1. /\ UNCHANGED <<fileGeneration, view, discoveries, connects, catalogs, picks>>
      /\ loads' = Superseded(loads) \cup {f} /\ loadingFilesRef' = TRUE
      /\ ui' = [ui EXCEPT !.loadingFiles = TRUE]
      /\ ~loadingFilesRef /\ Screen(view) = "app" /\ view.nextFileOffset # None
  BY DEF LoadMore, counts, MayLoad
<1>2. fileGeneration \in Nat /\ view \in UiState
  BY DEF BInv, StateShape
<1>3. view.connection \in Connections /\ view.nextFileOffset \in 0..Pages
        /\ view.pendingCatalog \in Optional(Catalogs)
  BY <1>1, <1>2 DEF Screen, UiState, Optional
<1>4. /\ f \in [connection : Connections, pendingCatalog : Optional(Catalogs),
                offset : 0..Pages, append : BOOLEAN, mounted : BOOLEAN,
                generation : Nat, latest : BOOLEAN, refused : BOOLEAN]
      /\ f.generation = fileGeneration /\ f.latest /\ f.append = TRUE
  BY <1>2, <1>3 DEF Load
<1>5. \A g \in loads : g.generation < fileGeneration
  BY <1>1, <1>2 DEF BInv, CurrentInv, Current, RequestShape
<1> HIDE DEF f
<1> QED
  BY <1>1, <1>2, <1>4, <1>5, LoadSent

(* The answer or the failure of a load ends the wait if it is the load waited    *)
(* for, and only then.                                                           *)
LEMMA SettledKeeps ==
    ASSUME BInv, NEW f \in loads, NEW state \in UiState, Settled(f, state),
           state.loadingFiles = ui.loadingFiles,
           ui.catalog # None => state.catalog # None,
           state.connection # None => state.catalog # None,
           UNCHANGED <<fileGeneration, view, discoveries, connects, catalogs, picks>>
    PROVE  BInv'
<1>1. loads' = loads \ {f} /\ fileGeneration' = fileGeneration
  BY DEF Settled
<1>2. CASE Current(f)
  <2>1. loadingFilesRef' = FALSE /\ ui' = [state EXCEPT !.loadingFiles = FALSE]
    BY <1>2 DEF Settled, Settles, Current
  <2>2. /\ ui' \in UiState /\ ui'.loadingFiles = FALSE
        /\ ui'.connection = state.connection /\ ui'.catalog = state.catalog
    BY <2>1 DEF UiState
  <2>3. \A g \in loads' : g.generation # fileGeneration
    BY <1>1, <1>2 DEF BInv, CurrentInv, Current
  <2>4. RequestShape' /\ StateShape'
    BY <1>1, <2>1, <2>2 DEF BInv, RequestShape, StateShape
  <2>5. CatalogKept'
    BY <1>1, <2>2 DEF BInv, CatalogKept
  <2>6. CurrentInv'
    BY <1>1, <2>1, <2>2, <2>3 DEF BInv, CurrentInv, Current
  <2> QED
    BY <2>4, <2>5, <2>6 DEF BInv
<1>3. CASE ~Current(f)
  <2>1. loadingFilesRef' = loadingFilesRef /\ ui' = state
    <3>1. loadingFilesRef \in BOOLEAN /\ state.loadingFiles \in BOOLEAN
      BY DEF BInv, StateShape, UiState
    <3>2. loadingFilesRef' = (loadingFilesRef /\ TRUE)
            /\ ui' = [state EXCEPT !.loadingFiles = @ /\ TRUE]
      BY <1>3 DEF Settled, Settles, Current
    <3>3. (state.loadingFiles /\ TRUE) = state.loadingFiles
      BY <3>1
    <3>4. ui' = [state EXCEPT !.loadingFiles = state.loadingFiles]
      BY <3>2, <3>3
    <3> QED
      BY <3>1, <3>2, <3>4 DEF UiState
  <2>2. RequestShape' /\ StateShape'
    BY <1>1, <2>1 DEF BInv, RequestShape, StateShape
  <2>3. CatalogKept'
    BY <1>1, <2>1 DEF BInv, CatalogKept
  <2>4. CurrentInv'
    BY <1>1, <1>3, <2>1 DEF BInv, CurrentInv, Current
  <2> QED
    BY <2>2, <2>3, <2>4 DEF BInv
<1> QED
  BY <1>2, <1>3

\* What an answer makes of the page.
Answered(f) ==
    IF ~Current(f) THEN ui ELSE IF f.append THEN Appended(f) ELSE Opened(f)

LEMMA AnsweredFacts ==
    ASSUME BInv, NEW f \in loads
    PROVE  /\ Answered(f) \in UiState /\ Answered(f).loadingFiles = ui.loadingFiles
           /\ ui.catalog # None => Answered(f).catalog # None
           /\ Answered(f).connection # None => Answered(f).catalog # None
<1>1. /\ f.connection \in Connections /\ f.connection.pick \in 1..MaxPicks
      /\ f.pendingCatalog \in Optional(Catalogs) /\ f.offset \in 0..Pages
      /\ f.append \in BOOLEAN
  BY DEF BInv, RequestShape, Connections
<1>2. NextOffset(f) \in Optional(0..Pages)
  BY <1>1, BrowserAssumption DEF NextOffset, Optional
<1>3. ui \in UiState /\ (ui.connection # None => ui.catalog # None)
  BY DEF BInv, StateShape, CatalogKept
<1>4. CASE ~Current(f)
  BY <1>3, <1>4 DEF Answered
<1>5. CASE Current(f) /\ f.append
  <2>1. <<f.connection.pick, f.offset>> \in (1..MaxPicks) \X Nat
    BY <1>1
  <2>2. Append(ui.files, <<f.connection.pick, f.offset>>) \in Seq((1..MaxPicks) \X Nat)
    BY <1>3, <2>1, AppendProperties DEF UiState
  <2> DEFINE files == Append(ui.files, <<f.connection.pick, f.offset>>)
  <2>3. Answered(f) = [ui EXCEPT !.files = files, !.nextFileOffset = NextOffset(f)]
    BY <1>5 DEF Answered, Appended
  <2> HIDE DEF files
  <2> QED
    BY <1>2, <1>3, <2>2, <2>3 DEF UiState, files
<1>6. CASE Current(f) /\ ~f.append
  <2>1. <<f.connection.pick, f.offset>> \in (1..MaxPicks) \X Nat
    BY <1>1
  <2> DEFINE files == <<<<f.connection.pick, f.offset>>>>
             catalogKept == IF f.pendingCatalog # None THEN f.pendingCatalog ELSE ui.catalog
  <2>2. files \in Seq((1..MaxPicks) \X Nat)
    BY <2>1
  <2>3. catalogKept \in Optional(Catalogs) /\ catalogKept # None
    BY <1>1, <1>3, <1>6 DEF UiState, BInv, CatalogKept
  <2>4. Answered(f) =
          [ui EXCEPT !.connection = f.connection, !.catalog = catalogKept,
                     !.pendingCatalog = None, !.files = files,
                     !.nextFileOffset = NextOffset(f), !.selection = None,
                     !.showConnector = FALSE, !.showReference = FALSE, !.error = FALSE]
    BY <1>3, <1>6 DEF Answered, Opened, OpenedOn, UiState
  <2> HIDE DEF files, catalogKept
  <2> QED
    BY <1>1, <1>2, <1>3, <2>2, <2>3, <2>4 DEF UiState, Optional
<1> QED
  BY <1>1, <1>4, <1>5, <1>6

LEMMA LoadedKeeps == ASSUME BInv, NEW f \in loads, Loaded(f) PROVE BInv'
<1>1. /\ Settled(f, Answered(f))
      /\ UNCHANGED <<fileGeneration, view, discoveries, connects, catalogs, picks>>
  BY DEF Loaded, Answered, counts
<1> QED
  BY <1>1, AnsweredFacts, SettledKeeps

\* A failure changes dialogs only.
LEMMA LoadFailsFacts ==
    ASSUME BInv, NEW f \in loads, LoadFails(f)
    PROVE  \E state \in UiState :
              /\ Settled(f, state)
              /\ state.connection = ui.connection /\ state.catalog = ui.catalog
              /\ state.files = ui.files /\ state.nextFileOffset = ui.nextFileOffset
              /\ state.selection = ui.selection /\ state.loadingFiles = ui.loadingFiles
<1>1. PICK expired \in BOOLEAN :
        Settled(f, [(IF expired THEN Reconnect(ui) ELSE ui) EXCEPT !.error = TRUE])
  <2>1. PICK expired \in IF f.refused THEN BOOLEAN ELSE {FALSE} :
          Settled(f, [(IF expired THEN Reconnect(ui) ELSE ui) EXCEPT !.error = TRUE])
    BY Zenon DEF LoadFails
  <2> QED
    BY <2>1
<1> DEFINE state == [(IF expired THEN Reconnect(ui) ELSE ui) EXCEPT !.error = TRUE]
<1>2. /\ state \in UiState
      /\ state.connection = ui.connection /\ state.catalog = ui.catalog
      /\ state.files = ui.files /\ state.nextFileOffset = ui.nextFileOffset
      /\ state.selection = ui.selection /\ state.loadingFiles = ui.loadingFiles
  BY DEF BInv, StateShape, UiState, Reconnect
<1> QED
  BY <1>1, <1>2

LEMMA LoadFailsKeeps == ASSUME BInv, NEW f \in loads, LoadFails(f) PROVE BInv'
<1>1. PICK state \in UiState :
        /\ Settled(f, state)
        /\ state.connection = ui.connection /\ state.catalog = ui.catalog
        /\ state.loadingFiles = ui.loadingFiles
  BY LoadFailsFacts
<1>2. UNCHANGED <<fileGeneration, view, discoveries, connects, catalogs, picks>>
  BY DEF LoadFails
<1> QED
  BY <1>1, <1>2, SettledKeeps DEF BInv, CatalogKept

LEMMA NextBInv == BInv /\ [Next]_vars => BInv'
<1> SUFFICES ASSUME BInv, [Next]_vars PROVE BInv'
  OBVIOUS
<1>1. CASE DialogAction
  BY <1>1, DialogActionFacts, DialogsKeepBInv DEF SameSnapshotOnScreen
<1>2. ASSUME NEW i \in 1..(Pages + 1), SelectFile(i) PROVE BInv'
  BY <1>2, SelectFileFacts, DialogsKeepBInv DEF SameSnapshotOnScreen, requests, counts
<1>3. CASE Render
  BY <1>3, RenderFacts
<1>4. CASE Submit
  BY <1>4, SubmitKeeps
<1>5. CASE Pick
  BY <1>5, PickKeeps
<1>6. CASE LoadMore
  BY <1>6, LoadMoreKeeps
<1>7. ASSUME NEW c \in connects, Connected(c) PROVE BInv'
  BY <1>7, ConnectedKeeps
<1>8. ASSUME NEW f \in loads, Loaded(f) PROVE BInv'
  BY <1>8, LoadedKeeps
<1>9. ASSUME NEW f \in loads, Refused(f) PROVE BInv'
  BY <1>9, RefusedFacts
<1>10. ASSUME NEW f \in loads, LoadFails(f) PROVE BInv'
  BY <1>10, LoadFailsKeeps
<1>11. CASE UNCHANGED vars
  BY <1>11, DialogsKeepBInv DEF vars, refs, requests, counts, BInv, StateShape
<1> QED
  BY <1>1, <1>2, <1>3, <1>4, <1>5, <1>6, <1>7, <1>8, <1>9, <1>10, <1>11
    DEF Next, User, Answers, DialogAction

LEMMA BrowserInvariance == Spec => []BInv
  BY InitBInv, NextBInv, PTL DEF Spec

(* A snapshot on screen has a catalog to go back to, whatever dialogs were closed *)
(* before its files came (TypeOK, App.tsx:68), with stale events or without.      *)
THEOREM BrowserTyped == Spec => []TypeOK
<1>1. BInv => TypeOK
  BY DEF BInv, TypeOK, RequestShape, StateShape, CatalogKept
<1> QED
  BY <1>1, BrowserInvariance, PTL

(* At most one load is waited for, exactly while loadingFilesRef says so (OneLoad, *)
(* App.tsx:50-54, 79-83), however loads are superseded, refused and late.          *)
THEOREM OneLoadWaited == Spec => []OneLoad
<1>1. BInv => OneLoad
  <2> SUFFICES ASSUME BInv PROVE OneLoad
    OBVIOUS
  <2> DEFINE waited == {f \in loads : f.latest /\ Current(f)}
  <2>1. waited = {f \in loads : Current(f)}
    BY DEF BInv, CurrentInv
  <2>2. CASE loadingFilesRef
    <3>1. PICK f \in loads : Current(f)
      BY <2>2 DEF BInv, CurrentInv
    <3>2. waited = {f}
      BY <2>1, <3>1 DEF BInv, CurrentInv
    <3>3. Cardinality(waited) = 1
      BY <3>2, FS_Singleton
    <3> QED
      BY <2>1, <2>2, <3>3 DEF OneLoad, BInv, CurrentInv, StateShape, UiState
  <2>3. CASE ~loadingFilesRef
    <3>1. waited = {}
      BY <2>1, <2>3 DEF BInv, CurrentInv
    <3>2. Cardinality(waited) = 0
      BY <3>1, FS_EmptySet
    <3> QED
      BY <2>1, <2>3, <3>1, <3>2 DEF OneLoad, BInv, CurrentInv, StateShape, UiState
  <2> QED
    BY <2>2, <2>3
<1> QED
  BY <1>1, BrowserInvariance, PTL

-----------------------------------------------------------------------------
(* FilesAreListing.  It is kept by an answer because the load waited for, if it *)
(* is to append, was sent for the snapshot on screen and goes on where its      *)
(* files end; that the answer of any other load is dropped is CurrentInv.  Only *)
(* without stale events is a load sent for the snapshot on screen.              *)

AppendsFit ==
    \A f \in loads :
        /\ ~f.append => f.offset = 0
        /\ f.append /\ Current(f) =>
              f.connection = ui.connection /\ f.offset = ui.nextFileOffset

FInv == BInv /\ FilesAreListing /\ AppendsFit

\* What neither the files nor the loads of disturbs, keeps both.
LEMMA SameFiles ==
    ASSUME FInv, UNCHANGED fileGeneration,
           ui'.connection = ui.connection, ui'.files = ui.files,
           ui'.nextFileOffset = ui.nextFileOffset,
           \/ ui'.selection \in {ui.selection, None}
           \/ ui.connection # None /\ ui'.selection = ui.connection.pick,
           \A g \in loads' : \E f \in loads : Alike(f, g)
    PROVE  FilesAreListing' /\ AppendsFit'
<1>1. FilesAreListing'
  BY DEF FInv, FilesAreListing
<1>2. ASSUME NEW g \in loads'
      PROVE  /\ ~g.append => g.offset = 0
             /\ g.append /\ Current(g)' =>
                   g.connection = ui'.connection /\ g.offset = ui'.nextFileOffset
  <2>1. PICK f \in loads : Alike(f, g)
    OBVIOUS
  <2> QED
    BY <2>1 DEF Alike, Current, FInv, AppendsFit
<1> QED
  BY <1>1, <1>2 DEF AppendsFit

LEMMA AlikeItself == \A g \in loads : Alike(g, g)
  BY DEF Alike

\* A file chosen without a stale event is a file of the snapshot on screen.
LEMMA ChosenOnScreen ==
    ASSUME FInv, view = ui, NEW i \in DOMAIN view.files
    PROVE  ui.connection # None /\ view.files[i][1] = ui.connection.pick
<1>1. ui.files # << >>
  BY DEF FInv, BInv, StateShape, UiState
<1>2. ui.connection # None
  BY <1>1 DEF FInv, FilesAreListing
<1>3. /\ ui.files = [n \in 1..Len(ui.files) |-> <<ui.connection.pick, n - 1>>]
  BY <1>2 DEF FInv, FilesAreListing
<1>4. i \in 1..Len(ui.files) /\ ui.files[i] = <<ui.connection.pick, i - 1>>
  BY <1>3
<1> QED
  BY <1>2, <1>4

\* A load sent fits, if it fits itself: the others are of earlier generations.
LEMMA SentFits ==
    ASSUME FInv, BInv', NEW others \in SUBSET loads, NEW f,
           loads' = Superseded(others) \cup {f},
           \A g \in loads : g.generation # fileGeneration',
           ~f.append => f.offset = 0,
           f.append => f.connection = ui.connection /\ f.offset = ui.nextFileOffset,
           ui'.connection = ui.connection, ui'.files = ui.files,
           ui'.nextFileOffset = ui.nextFileOffset, ui'.selection = ui.selection
    PROVE  FilesAreListing' /\ AppendsFit'
<1>1. FilesAreListing'
  BY DEF FInv, FilesAreListing
<1>2. ASSUME NEW g \in Superseded(others)
      PROVE  (~g.append => g.offset = 0) /\ ~Current(g)'
  <2>1. PICK e \in loads : /\ g.append = e.append /\ g.offset = e.offset
                          /\ g.generation = e.generation
    BY SupersededFacts DEF FInv
  <2> QED
    BY <2>1 DEF FInv, AppendsFit, Current
<1> QED
  BY <1>1, <1>2 DEF AppendsFit

LEMMA LoadMoreFits ==
    ASSUME FInv, BInv', view = ui, LoadMore
    PROVE  FilesAreListing' /\ AppendsFit'
<1> DEFINE f == Load(view.connection, view.pendingCatalog, view.nextFileOffset, TRUE,
                     FALSE, fileGeneration)
<1>1. /\ fileGeneration' = fileGeneration /\ ~loadingFilesRef
      /\ loads' = Superseded(loads) \cup {f}
      /\ ui' = [ui EXCEPT !.loadingFiles = TRUE]
  BY DEF LoadMore, MayLoad
<1>2. /\ f.append = TRUE /\ f.connection = ui.connection
      /\ f.offset = ui.nextFileOffset
  BY DEF Load
<1>3. \A g \in loads : g.generation # fileGeneration'
  BY <1>1 DEF FInv, BInv, CurrentInv, Current
<1>4. /\ ui'.connection = ui.connection /\ ui'.files = ui.files
      /\ ui'.nextFileOffset = ui.nextFileOffset /\ ui'.selection = ui.selection
  BY <1>1 DEF FInv, BInv, StateShape, UiState
<1> HIDE DEF f
<1> QED
  BY <1>1, <1>2, <1>3, <1>4, SentFits

LEMMA ConnectedFits ==
    ASSUME FInv, BInv', NEW c \in connects, Connected(c)
    PROVE  FilesAreListing' /\ AppendsFit'
<1> DEFINE f == Load([pick |-> c.pick, dataset |-> c.dataset], c.pendingCatalog, 0,
                     FALSE, c.mounted, fileGeneration + 1)
<1>1. /\ fileGeneration' = fileGeneration + 1
      /\ loads' = Superseded(Abort) \cup {f}
      /\ ui' = [ui EXCEPT !.loadingFiles = FALSE]
  BY DEF Connected
<1>2. f.append = FALSE /\ f.offset = 0 /\ Abort \subseteq loads
  BY DEF Load, Abort
<1>3. \A g \in loads : g.generation # fileGeneration'
  BY <1>1 DEF FInv, BInv, CurrentInv, RequestShape, StateShape
<1>4. /\ ui'.connection = ui.connection /\ ui'.files = ui.files
      /\ ui'.nextFileOffset = ui.nextFileOffset /\ ui'.selection = ui.selection
  BY <1>1 DEF FInv, BInv, StateShape, UiState
<1> HIDE DEF f
<1> QED
  BY <1>1, <1>2, <1>3, <1>4, SentFits

LEMMA SettledState ==
    ASSUME NEW f, NEW state \in UiState, Settled(f, state)
    PROVE  /\ ui'.connection = state.connection /\ ui'.files = state.files
           /\ ui'.nextFileOffset = state.nextFileOffset
           /\ ui'.selection = state.selection
  BY DEF Settled, UiState

LEMMA ConnectionIsSomething == None \notin Connections
  BY BrowserAssumption DEF Connections, Catalogs

\* The next page of a listing, appended to the pages before it.
LEMMA NextPage ==
    ASSUME NEW files \in Seq((1..MaxPicks) \X Nat), NEW pick \in 1..MaxPicks,
           files = [i \in 1..Len(files) |-> <<pick, i - 1>>]
    PROVE  Append(files, <<pick, Len(files)>>) =
             [i \in 1..(Len(files) + 1) |-> <<pick, i - 1>>]
<1> DEFINE more == Append(files, <<pick, Len(files)>>)
<1>1. /\ Len(files) \in Nat /\ DOMAIN more = 1..(Len(files) + 1)
      /\ more \in Seq((1..MaxPicks) \X Nat)
      /\ \A i \in 1..Len(files) : more[i] = files[i]
      /\ more[Len(files) + 1] = <<pick, Len(files)>>
  <2>1. Len(files) \in Nat /\ <<pick, Len(files)>> \in (1..MaxPicks) \X Nat
    BY LenProperties
  <2> QED
    BY <2>1, AppendProperties, LenProperties
<1>2. \A i \in 1..(Len(files) + 1) : more[i] = <<pick, i - 1>>
  BY <1>1
<1>3. more = [i \in DOMAIN more |-> more[i]]
  BY <1>1
<1> HIDE DEF more
<1>4. more = [i \in 1..(Len(files) + 1) |-> <<pick, i - 1>>]
  BY <1>1, <1>2, <1>3
<1> QED
  BY <1>4 DEF more

LEMMA AppendedFits ==
    ASSUME FInv, NEW f \in loads, Current(f), f.append, Settled(f, Appended(f)),
           Appended(f) \in UiState
    PROVE  FilesAreListing'
<1>1. /\ f.connection \in Connections /\ f.offset \in 0..Pages
      /\ ui.files \in Seq((1..MaxPicks) \X Nat)
  BY DEF FInv, BInv, RequestShape, StateShape, UiState
<1>2. ui.connection = f.connection /\ ui.nextFileOffset = f.offset
  BY DEF FInv, AppendsFit
<1>3. ui.connection # None /\ f.offset # None /\ f.connection.pick \in 1..MaxPicks
  BY <1>1, <1>2, ConnectionIsSomething, BrowserAssumption DEF Connections
<1>4. /\ ui.selection \in {None, ui.connection.pick}
      /\ ui.files = [i \in 1..Len(ui.files) |-> <<f.connection.pick, i - 1>>]
      /\ f.offset = Len(ui.files) /\ f.offset < Pages /\ Len(ui.files) \in Nat
  BY <1>1, <1>2, <1>3, LenProperties DEF FInv, FilesAreListing
<1> DEFINE files == [i \in 1..(f.offset + 1) |-> <<f.connection.pick, i - 1>>]
<1>5. Append(ui.files, <<f.connection.pick, f.offset>>) = files
  <2>1. Append(ui.files, <<f.connection.pick, Len(ui.files)>>) =
          [i \in 1..(Len(ui.files) + 1) |-> <<f.connection.pick, i - 1>>]
    BY <1>1, <1>3, <1>4, NextPage
  <2>2. f.offset = Len(ui.files)
    BY <1>4
  <2> QED
    BY <2>1, <2>2, Zenon
<1>6. /\ ui'.connection = ui.connection /\ ui'.selection = ui.selection
      /\ ui'.files = files /\ ui'.nextFileOffset = NextOffset(f)
  <2>1. Appended(f) = [ui EXCEPT !.files = files, !.nextFileOffset = NextOffset(f)]
    BY <1>5 DEF Appended
  <2>2. ui \in UiState
    BY DEF FInv, BInv, StateShape
  <2> HIDE DEF files
  <2>3. /\ Appended(f).connection = ui.connection /\ Appended(f).selection = ui.selection
        /\ Appended(f).files = files /\ Appended(f).nextFileOffset = NextOffset(f)
    BY <2>1, <2>2 DEF UiState
  <2> QED
    BY <2>3, SettledState
<1>7. Len(files) = f.offset + 1 /\ files # << >>
  <2>1. <<f.connection.pick, f.offset>> \in (1..MaxPicks) \X Nat
    BY <1>3, <1>4
  <2>2. /\ Len(Append(ui.files, <<f.connection.pick, f.offset>>)) = Len(ui.files) + 1
        /\ Append(ui.files, <<f.connection.pick, f.offset>>) # << >>
    BY <1>1, <2>1, AppendProperties
  <2> HIDE DEF files
  <2> QED
    BY <1>4, <1>5, <2>2
<1>8. NextOffset(f) = IF f.offset + 1 < Pages THEN f.offset + 1 ELSE None
  BY <1>4 DEF NextOffset
<1>9. files = [i \in 1..Len(files) |-> <<f.connection.pick, i - 1>>]
  BY <1>7
<1> HIDE DEF files
<1> QED
  BY <1>2, <1>3, <1>4, <1>6, <1>7, <1>8, <1>9 DEF FilesAreListing

LEMMA OpenedFits ==
    ASSUME FInv, NEW f \in loads, Current(f), ~f.append, Settled(f, Opened(f)),
           Opened(f) \in UiState
    PROVE  FilesAreListing'
<1>1. f.connection \in Connections /\ f.offset = 0 /\ f.connection # None
  BY ConnectionIsSomething DEF FInv, BInv, RequestShape, AppendsFit
<1> DEFINE files == <<<<f.connection.pick, 0>>>>
<1>2. /\ ui'.connection = f.connection /\ ui'.selection = None
      /\ ui'.files = files /\ ui'.nextFileOffset = NextOffset(f)
  <2>1. ui \in UiState
    BY DEF FInv, BInv, StateShape
  <2>2. /\ Opened(f).connection = f.connection /\ Opened(f).selection = None
        /\ Opened(f).files = files /\ Opened(f).nextFileOffset = NextOffset(f)
    BY <1>1, <2>1 DEF Opened, OpenedOn, UiState
  <2> QED
    BY <2>2, SettledState
<1>3. /\ Len(files) = 1 /\ files # << >>
      /\ files = [i \in 1..Len(files) |-> <<f.connection.pick, i - 1>>]
  OBVIOUS
<1>4. NextOffset(f) = IF 1 < Pages THEN 1 ELSE None
  BY <1>1 DEF NextOffset
<1> HIDE DEF files
<1> QED
  BY <1>1, <1>2, <1>3, <1>4 DEF FilesAreListing

LEMMA LoadedFits ==
    ASSUME FInv, NEW f \in loads, Loaded(f)
    PROVE  FilesAreListing' /\ AppendsFit'
<1>1. /\ Settled(f, Answered(f)) /\ Answered(f) \in UiState
      /\ fileGeneration' = fileGeneration /\ loads' = loads \ {f}
  BY AnsweredFacts DEF Loaded, Answered, Settled, FInv
<1>2. CASE ~Current(f)
  <2>1. Answered(f) = ui
    BY <1>2 DEF Answered
  <2> QED
    BY <1>1, <2>1, SettledState, SameFiles, AlikeItself
<1>3. CASE Current(f)
  <2>1. \A g \in loads' : g \in loads /\ g.generation # fileGeneration'
    BY <1>1, <1>3 DEF FInv, BInv, CurrentInv, Current
  <2>2. AppendsFit'
    BY <2>1 DEF FInv, AppendsFit, Current
  <2>3. CASE f.append
    BY <1>1, <1>3, <2>2, <2>3, AppendedFits DEF Answered
  <2>4. CASE ~f.append
    BY <1>1, <1>3, <2>2, <2>4, OpenedFits DEF Answered
  <2> QED
    BY <2>3, <2>4
<1> QED
  BY <1>2, <1>3

LEMMA LoadFailsFits ==
    ASSUME FInv, NEW f \in loads, LoadFails(f)
    PROVE  FilesAreListing' /\ AppendsFit'
<1>1. PICK state \in UiState :
        /\ Settled(f, state)
        /\ state.connection = ui.connection /\ state.files = ui.files
        /\ state.nextFileOffset = ui.nextFileOffset /\ state.selection = ui.selection
  BY LoadFailsFacts DEF FInv
<1>2. fileGeneration' = fileGeneration /\ loads' = loads \ {f}
  BY <1>1 DEF LoadFails, Settled
<1> QED
  BY <1>1, <1>2, SettledState, SameFiles, AlikeItself

(* The file tree is the listing of the snapshot on screen, its first pages, each   *)
(* once and in order, and the file shown is one of that snapshot                   *)
(* (FilesAreListing, App.tsx:61-75, 173), when no event reaches a page that is not *)
(* rendered yet; MCSnapshotBrowser_stale.cfg is the counterexample when one does.  *)
THEOREM TreeIsListing ==
    ASSUME ~StaleEvents
    PROVE  Spec => []FilesAreListing
<1>1. Init => FilesAreListing /\ AppendsFit
  BY DEF Init, Blank, FilesAreListing, AppendsFit
<1>2. ASSUME FInv, BInv', [Next]_vars
      PROVE  FilesAreListing' /\ AppendsFit'
  <2>1. CASE DialogAction
    <3>1. /\ UNCHANGED <<fileGeneration, loads>>
          /\ SameSnapshotOnScreen /\ ui'.selection \in {ui.selection, None}
      BY <1>2, <2>1, DialogActionFacts DEF FInv, refs
    <3> QED
      BY <1>2, <3>1, SameFiles, AlikeItself DEF SameSnapshotOnScreen
  <2>2. ASSUME NEW i \in 1..(Pages + 1), SelectFile(i)
        PROVE  FilesAreListing' /\ AppendsFit'
    <3>1. /\ UNCHANGED <<fileGeneration, loads>> /\ view = ui
          /\ SameSnapshotOnScreen /\ i \in DOMAIN view.files
          /\ ui'.selection = view.files[i][1]
      BY <1>2, <2>2, SelectFileFacts DEF FInv, refs, requests, Event
    <3> QED
      BY <1>2, <3>1, ChosenOnScreen, SameFiles, AlikeItself DEF SameSnapshotOnScreen
  <2>3. CASE Render
    <3>1. SameLoads /\ UNCHANGED <<refs, ui>>
      BY <1>2, <2>3, RenderFacts DEF FInv
    <3> QED
      BY <1>2, <3>1, SameFiles DEF SameLoads, refs
  <2>4. CASE Submit \/ Pick
    <3>1. UNCHANGED <<refs, ui, loads>>
      BY <2>4 DEF Submit, Pick
    <3> QED
      BY <1>2, <3>1, SameFiles, AlikeItself DEF refs
  <2>5. CASE LoadMore
    BY <1>2, <2>5, LoadMoreFits DEF LoadMore, Event
  <2>6. ASSUME NEW c \in connects, Connected(c)
        PROVE  FilesAreListing' /\ AppendsFit'
    BY <1>2, <2>6, ConnectedFits
  <2>7. ASSUME NEW f \in loads, Loaded(f)
        PROVE  FilesAreListing' /\ AppendsFit'
    BY <1>2, <2>7, LoadedFits
  <2>8. ASSUME NEW f \in loads, Refused(f)
        PROVE  FilesAreListing' /\ AppendsFit'
    <3>1. SameLoads /\ UNCHANGED <<refs, ui>>
      BY <1>2, <2>8, RefusedFacts DEF FInv
    <3> QED
      BY <1>2, <3>1, SameFiles DEF SameLoads, refs
  <2>9. ASSUME NEW f \in loads, LoadFails(f)
        PROVE  FilesAreListing' /\ AppendsFit'
    BY <1>2, <2>9, LoadFailsFits
  <2>10. CASE UNCHANGED vars
    BY <1>2, <2>10, SameFiles, AlikeItself DEF vars, refs, requests
  <2> QED
    BY <1>2, <2>1, <2>2, <2>3, <2>4, <2>5, <2>6, <2>7, <2>8, <2>9, <2>10
      DEF Next, User, Answers, DialogAction
<1> QED
  BY <1>1, <1>2, BrowserInvariance, PTL DEF Spec, FInv
=============================================================================
