------------------------------ MODULE SeedStore ------------------------------
(***************************************************************************)
(* The seed store: an operator's run that gathers, bundles and publishes   *)
(* the store's members, and a client's gather that installs a snapshot of  *)
(* its corpus before it freshens it.                                       *)
(*                                                                         *)
(* Sources: ietf_llm/seed/publish.py, seed/format.py, seed/fetch.py and    *)
(* gather/sequencer.py (_maybe_seed).  The install's swap is SwapDirs's:   *)
(* its destinations are the corpus's index directory and its workspace.    *)
(*                                                                         *)
(* A gather's result is named by the time it was recorded, which is also   *)
(* the version of its bundle.  A bundle of one version that is written     *)
(* again has other bytes, hence another digest: a new build of it.         *)
(***************************************************************************)
EXTENDS SwapDirs, FiniteSets

CONSTANTS
  Corpus,    \* the corpora the store may have as members
  Local,     \* the one this client gathers
  MaxTime,   \* bound: how many gathers there are, of the operator and the client
  MaxBuilds, \* bound: builds of the bundle of one version
  MaxRuns,   \* bound: runs of the publisher
  Margin,    \* _seed_stale_jump_margin
  SeedFaults \* a subset of {"request", "short", "gather", "stage", "die"}

Broken == 0  \* what a cut off bundle unpacks to
Never  == 0  \* no gather, no version, no build
Time   == 1..MaxTime
Build  == 1..MaxBuilds

ASSUME SeedAssumption ==
  /\ N = 2 /\ Tree = Time \cup {Broken}
  /\ Local \in Corpus
  /\ MaxTime \in Nat \ {0} /\ MaxBuilds \in Nat \ {0} /\ MaxRuns \in Nat /\ Margin \in Nat
  /\ SeedFaults \subseteq {"request", "short", "gather", "stage", "die"}

IndexDir  == 1
Workspace == 2

VARIABLES
  clock,    \* the gathers so far, anywhere
  gathered, \* the last-gathered time of each corpus in the operator's cache
  members,  \* members.json
  index,    \* index.json: the version of each corpus it lists, or Never
  listed,   \* is there an index.json?
  manifest, \* each corpus's manifest.json: a version and its build
  bundles,  \* the build of each bundle file in each corpus's directory, or Never
  pub,      \* the publisher's run
  runs,     \* the runs begun
  built,    \* history: the builds made of each version's bundle
  torn,     \* history: corpora that a run left incomplete when it died
  client    \* the client's gather

store  == <<index, listed, manifest, bundles>>
pubVars == <<clock, gathered, members, store, pub, runs, built, torn>>
seedVars == <<pubVars, client, swapVars>>

NoFile    == [version |-> Never, build |-> Never]
Manifests == [version : Time \cup {Never}, build : Build \cup {Never}]
PubStages == {"idle", "next", "choose", "bundle", "manifest", "prune", "index"}
Publisher ==
  [pc      : PubStages,
   todo    : SUBSET Corpus,                    \* the members it has still to process
   cur     : Corpus,                           \* the one it is at
   force   : BOOLEAN, prune : BOOLEAN,         \* its options
   compat  : BOOLEAN,                          \* is the store's compatibility tuple known?
   entries : [Corpus -> Time \cup {Never}]]    \* the index it is going to write
NoEntries == [c \in Corpus |-> Never]
NoRun == [pc |-> "idle", todo |-> {}, cur |-> Local, force |-> FALSE, prune |-> FALSE,
          compat |-> FALSE, entries |-> NoEntries]

ClientStages == {"idle", "index", "manifest", "bundle", "verify", "stage", "swap", "stamp",
                 "gather", "record"}
Client ==
  [pc      : ClientStages,
   refresh : BOOLEAN,                          \* --refresh-base
   man     : Manifests,                        \* the manifest it has read
   got     : Build \cup {Never},               \* the build it has downloaded
   whole   : BOOLEAN]                          \*   and is that all of it?
NoClient == [pc |-> "idle", refresh |-> FALSE, man |-> NoFile, got |-> Never, whole |-> FALSE]

SeedInit ==
  /\ SwapInit /\ live = Empty
  /\ clock = 0 /\ gathered = NoEntries
  /\ members = {} /\ index = NoEntries /\ listed = FALSE
  /\ manifest = [c \in Corpus |-> NoFile]
  /\ bundles = [c \in Corpus |-> [t \in Time |-> Never]]
  /\ pub = NoRun /\ runs = 0
  /\ built = [c \in Corpus |-> [t \in Time |-> 0]] /\ torn = {}
  /\ client = NoClient

-----------------------------------------------------------------------------
(* The publisher (publish_store).                                          *)

PubAt(stage) == pub.pc = stage
NextMember == [pub EXCEPT !.pc = "next", !.todo = @ \ {pub.cur}, !.cur = Local]

\* A client that reads the manifest of c finds its bundle, of the digest it names.
Installable(c) ==
  manifest[c] # NoFile /\ bundles[c][manifest[c].version] = manifest[c].build

\* Mutant of CarriedForward: what is no member any more stays in the index.
CarriedForwardAll(now) == index

\* What the run starts its index from.
CarriedForward(now) == [c \in Corpus |-> IF c \in now THEN index[c] ELSE Never]

\* Membership is edited first, and saved; without an edit the run is of some
\* members or all.  Entries of members it does not process are carried forward.
StartRun(now, targets, force, prune) ==
  /\ PubAt("idle") /\ runs < MaxRuns
  /\ Cardinality((now \ members) \cup (members \ now)) <= 1
  /\ members' = now /\ targets \subseteq now
  /\ runs' = runs + 1
  /\ pub' = [pc |-> "next", todo |-> targets, cur |-> Local, force |-> force, prune |-> prune,
             compat |-> listed,
             entries |-> CarriedForward(now)]
  /\ UNCHANGED <<clock, gathered, store, built, torn, client, swapVars>>

\* The member is gathered, or with --no-gather taken as it is.
Take(c, fresh) ==
  /\ PubAt("next") /\ c \in pub.todo
  /\ pub' = [pub EXCEPT !.pc = "choose", !.cur = c]
  /\ IF fresh
     THEN /\ clock < MaxTime
          /\ clock' = clock + 1
          /\ gathered' = [gathered EXCEPT ![c] = clock + 1]
     ELSE UNCHANGED <<clock, gathered>>
  /\ UNCHANGED <<members, store, runs, built, torn, client, swapVars>>

\* Its gather fails, it has never been gathered, or its index does not fit the
\* store's tuple: reported, and its entry stays as it was.
Skip ==
  /\ \/ PubAt("choose") /\ gathered[pub.cur] = Never /\ pub' = NextMember
     \/ /\ "gather" \in SeedFaults /\ PubAt("next")
        /\ \E c \in pub.todo : pub' = [pub EXCEPT !.todo = @ \ {c}]
  /\ UNCHANGED <<clock, gathered, members, store, runs, built, torn, client, swapVars>>

Unchanged(c) == index[c] = gathered[c] /\ ~pub.force

\* Published at this version already.
UpToDate ==
  /\ PubAt("choose") /\ gathered[pub.cur] # Never /\ Unchanged(pub.cur)
  /\ pub' = [NextMember EXCEPT !.compat = TRUE]
  /\ UNCHANGED <<clock, gathered, members, store, runs, built, torn, client, swapVars>>

\* _write_member: the older bundles of the corpus go first ...
DropOldBundles ==
  LET c == pub.cur IN
  /\ PubAt("choose") /\ gathered[c] # Never /\ ~Unchanged(c)
  /\ built[c][gathered[c]] < MaxBuilds
  /\ bundles' = [bundles EXCEPT ![c] = [t \in Time |-> IF t = gathered[c] THEN @[t] ELSE Never]]
  /\ pub' = [pub EXCEPT !.pc = "bundle"]
  /\ UNCHANGED <<clock, gathered, members, index, listed, manifest, runs, built, torn, client, swapVars>>

\* ... then the new one is renamed into place ...
WriteBundle ==
  LET c == pub.cur  t == gathered[c] IN
  /\ PubAt("bundle")
  /\ bundles' = [bundles EXCEPT ![c][t] = built[c][t] + 1]
  /\ built' = [built EXCEPT ![c][t] = @ + 1]
  /\ pub' = [pub EXCEPT !.pc = "manifest"]
  /\ UNCHANGED <<clock, gathered, members, index, listed, manifest, runs, torn, client, swapVars>>

\* ... and the manifest.
WriteManifest ==
  LET c == pub.cur  t == gathered[c] IN
  /\ PubAt("manifest")
  /\ manifest' = [manifest EXCEPT ![c] = [version |-> t, build |-> bundles[c][t]]]
  /\ pub' = [NextMember EXCEPT !.compat = TRUE, !.entries[c] = t]
  /\ torn' = torn \ {c}
  /\ UNCHANGED <<clock, gathered, members, index, listed, bundles, runs, built, client, swapVars>>

MembersDone ==
  /\ PubAt("next") /\ pub.todo = {}
  /\ pub' = [pub EXCEPT !.pc = IF pub.prune THEN "prune" ELSE "index"]
  /\ UNCHANGED <<clock, gathered, members, store, runs, built, torn, client, swapVars>>

\* --prune: the directories of corpora that are no members.
Doomed == {c \in Corpus : manifest[c] # NoFile /\ c \notin members}

Prune ==
  /\ PubAt("prune")
  /\ \/ \E c \in Doomed :
          /\ manifest' = [manifest EXCEPT ![c] = NoFile]
          /\ bundles' = [bundles EXCEPT ![c] = [t \in Time |-> Never]]
          /\ UNCHANGED pub
     \/ Doomed = {} /\ pub' = [pub EXCEPT !.pc = "index"] /\ UNCHANGED <<manifest, bundles>>
  /\ UNCHANGED <<clock, gathered, members, index, listed, runs, built, torn, client, swapVars>>

\* The index comes last, unless no tuple is known for it.
WriteIndex ==
  /\ PubAt("index")
  /\ IF pub.compat THEN index' = pub.entries /\ listed' = TRUE ELSE UNCHANGED <<index, listed>>
  /\ pub' = NoRun
  /\ UNCHANGED <<clock, gathered, members, manifest, bundles, runs, built, torn, client, swapVars>>

\* The run dies, or an error ends it (a full disk).
PublisherDies ==
  /\ "die" \in SeedFaults /\ ~PubAt("idle")
  /\ pub' = NoRun
  /\ torn' = torn \cup {c \in Corpus : index[c] # Never /\ ~Installable(c)}
  /\ UNCHANGED <<clock, gathered, members, store, runs, built, client, swapVars>>

Publishing ==
  \/ \E now, targets \in SUBSET Corpus, force, prune \in BOOLEAN : StartRun(now, targets, force, prune)
  \/ \E c \in Corpus, fresh \in BOOLEAN : Take(c, fresh)
  \/ Skip \/ UpToDate \/ DropOldBundles \/ WriteBundle \/ WriteManifest
  \/ MembersDone \/ Prune \/ WriteIndex \/ PublisherDies

-----------------------------------------------------------------------------
(* The client (_maybe_seed, seed.fetch.install).                           *)

ClientAt(stage) == client.pc = stage

\* --clear-cache, --no-seed and the cloud backend go straight to the stages.
StartGather(seeding, refresh) ==
  /\ ClientAt("idle") /\ clock < MaxTime
  /\ client' = [NoClient EXCEPT !.pc = IF seeding THEN "index" ELSE "gather", !.refresh = refresh]
  /\ UNCHANGED <<pubVars, swapVars>>

\* Without a seed the gather goes on.
GoOn == client' = [NoClient EXCEPT !.pc = "gather"]

\* The local last-gathered sentinel, if it can be read.
Prior == IF live[Workspace] \in Time THEN live[Workspace] ELSE Never

\* _seed_decision: no local copy, --refresh-base, or well behind a snapshot that
\* covers the corpus's configuration.
Worthwhile(entry, covers) ==
  Prior = Never \/ client.refresh \/ (entry - Prior > Margin /\ covers)

\* The index says whether the corpus is covered and a seed is worth it.
LoadIndex(covers) ==
  /\ ClientAt("index")
  /\ IF index[Local] # Never /\ Worthwhile(index[Local], covers)
     THEN client' = [client EXCEPT !.pc = "manifest"] ELSE GoOn
  /\ UNCHANGED <<pubVars, swapVars>>

\* The manifest is read later, and may name a later version than the index did.
LoadManifest ==
  /\ ClientAt("manifest")
  /\ IF manifest[Local] = NoFile THEN GoOn
     ELSE client' = [client EXCEPT !.pc = "bundle", !.man = manifest[Local]]
  /\ UNCHANGED <<pubVars, swapVars>>

\* The bundle's file may be gone by now, be another build, or be cut off.
Download(whole) ==
  LET build == bundles[Local][client.man.version] IN
  /\ ClientAt("bundle") /\ (whole \/ "short" \in SeedFaults)
  /\ IF build = Never THEN GoOn
     ELSE client' = [client EXCEPT !.pc = "verify", !.got = build, !.whole = whole]
  /\ UNCHANGED <<pubVars, swapVars>>

\* Mutant of Verify: the digest is not compared.
VerifyNothing ==
  /\ ClientAt("verify")
  /\ client' = [client EXCEPT !.pc = "stage"]
  /\ UNCHANGED <<pubVars, swapVars>>

\* verify_sha256
Verify ==
  /\ ClientAt("verify")
  /\ IF client.whole /\ client.got = client.man.build
     THEN client' = [client EXCEPT !.pc = "stage"] ELSE GoOn
  /\ UNCHANGED <<pubVars, swapVars>>

Unpacked == IF client.whole THEN client.man.version ELSE Broken

\* _install_tree: both trees are staged; where the index shares the workspace,
\* or the snapshot has none, the workspace is swapped alone.
StageTree(first) ==
  /\ ClientAt("stage")
  /\ client' = [client EXCEPT !.pc = "swap"]
  /\ Begin(first, [d \in Dest |-> Unpacked])
  /\ UNCHANGED pubVars

\* A request fails, or the staging of the index; or the bundle cannot be unpacked, or
\* the directory it is unpacked in not be made (a full disk), which nothing catches: the
\* gather fails.  Nothing has been touched.
SeedFails ==
  /\ \/ "request" \in SeedFaults /\ client.pc \in {"index", "manifest", "bundle"} /\ GoOn
     \/ "stage" \in SeedFaults /\ ClientAt("stage") /\ GoOn
     \/ "stage" \in SeedFaults /\ client.pc \in {"bundle", "stage"} /\ client' = NoClient
  /\ UNCHANGED <<pubVars, swapVars>>

Swap == ClientAt("swap") /\ SwapStep /\ UNCHANGED <<pubVars, client>>

\* The install succeeds, and its provenance is recorded; or it has failed.
Installed ==
  /\ ClientAt("swap") /\ swap.pc \in {"returned", "raised"}
  /\ IF Swapping("returned") THEN client' = [client EXCEPT !.pc = "stamp"] ELSE GoOn
  /\ UNCHANGED <<pubVars, swapVars>>

Stamp ==
  /\ ClientAt("stamp")
  /\ GoOn
  /\ UNCHANGED <<pubVars, swapVars>>

\* The stages freshen the workspace and build its index ...
Gather ==
  /\ ClientAt("gather")
  /\ \/ /\ clock < MaxTime
        /\ clock' = clock + 1
        /\ Rewrite(IndexDir, clock + 1)
        /\ client' = [client EXCEPT !.pc = "record"]
     \/ /\ "gather" \in SeedFaults \/ clock = MaxTime
        /\ client' = NoClient
        /\ UNCHANGED <<clock, swapVars>>
  /\ UNCHANGED <<gathered, members, store, pub, runs, built, torn>>

\* ... and record_gather names what it holds.
Record ==
  /\ ClientAt("record")
  /\ Rewrite(Workspace, live[IndexDir])
  /\ client' = NoClient
  /\ UNCHANGED pubVars

\* The gather is killed.
ClientDies ==
  /\ "die" \in SeedFaults /\ ~ClientAt("idle")
  /\ client' = NoClient
  /\ IF swap.pc \in Busy THEN SwapDies ELSE UNCHANGED swapVars
  /\ UNCHANGED pubVars

Seeding ==
  \/ \E seeding, refresh \in BOOLEAN : StartGather(seeding, refresh)
  \/ \E covers \in BOOLEAN : LoadIndex(covers)
  \/ LoadManifest
  \/ \E whole \in BOOLEAN : Download(whole)
  \/ Verify \/ (\E first \in Dest : StageTree(first)) \/ SeedFails
  \/ Swap \/ Installed \/ Stamp \/ Gather \/ Record \/ ClientDies

SeedNext == Publishing \/ Seeding

SeedSpec == SeedInit /\ [][SeedNext]_seedVars

-----------------------------------------------------------------------------
(* Properties.                                                             *)

\* Every variable stays within the values its comment gives.
SeedTypeOK ==
  /\ SwapTypeOK
  /\ clock \in 0..MaxTime /\ runs \in 0..MaxRuns
  /\ gathered \in [Corpus -> Time \cup {Never}] /\ index \in [Corpus -> Time \cup {Never}]
  /\ members \in SUBSET Corpus /\ torn \in SUBSET Corpus /\ listed \in BOOLEAN
  /\ manifest \in [Corpus -> Manifests]
  /\ bundles \in [Corpus -> [Time -> Build \cup {Never}]]
  /\ built \in [Corpus -> [Time -> 0..MaxBuilds]]
  /\ pub \in Publisher /\ client \in Client

\* Whenever no run is under way a client can install everything the index lists,
\* but what a run broke when it died (publish_store rebuilds the index last).
IndexInstallable ==
  PubAt("idle") => \A c \in Corpus \ torn : index[c] # Never => Installable(c)

\* What an install reports as done is the whole tree its manifest names, although
\* the bundle is read after the manifest and may be rebuilt, or cut off, meanwhile.
InstalledAsPublished ==
  ClientAt("stamp") => \A d \in Batch : live[d] = client.man.version

\* A reader may find a stale workspace beside a new index, and never a new
\* workspace beside the stale index, also while a swap is undone and after the
\* process has died ("never the reverse", seed_workspace).
IndexFirst ==
  (swap.pc # "idle" /\ swap.first = IndexDir
     /\ live[Workspace] = target[Workspace] /\ target[Workspace] # before[Workspace])
    => live[IndexDir] = target[IndexDir]

\* A seed that fails leaves the gather to go on ("Any failure logs and falls through to a
\* normal gather", sequencer.py:455-456).  The code breaks it (README.md):
\* where the bundle cannot be unpacked the gather fails.
SeedFallsThrough ==
  [][client.pc \in ClientStages \ {"idle", "gather", "record"} => client'.pc # "idle"]_seedVars
=============================================================================
