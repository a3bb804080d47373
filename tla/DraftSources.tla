----------------------------- MODULE DraftSources -----------------------------
(***************************************************************************)
(* The drafts of a subscription corpus: those a user names, those of an    *)
(* author, those submitted within a rolling window, and those that the     *)
(* corpus mentions.  Every gather fetches them anew, prunes what is in     *)
(* none of the four, and remembers the named and the mentioned ones.  The  *)
(* Datatracker may answer in part or not at all, and a gather from the     *)
(* command line reads what is remembered before it has the lease.  The     *)
(* store is the local one.                                                 *)
(*                                                                         *)
(* Sources: ietf_llm/gather/sequencer.py, config/__init__.py (merge),      *)
(* gather/sources/recent_drafts.py, author.py and drafts.py.               *)
(***************************************************************************)
EXTENDS Integers, FiniteSets

CONSTANTS
  Run,         \* gathers of the corpus
  NoRun,       \* "the lease is free"
  Draft,
  Named,       \* the drafts that a user may name (--draft)
  Authored,    \* those of the author followed (--author)
  Cited,       \* those that its mail and issues may mention
  MaxRuns,     \* bound: gathers begun
  DraftFaults  \* a subset of {"outage", "crash", "early"}

ASSUME DraftAssumption ==
  /\ NoRun \notin Run
  /\ Named \subseteq Draft /\ Authored \subseteq Draft /\ Cited \subseteq Draft
  /\ MaxRuns \in Nat
  /\ DraftFaults \subseteq {"outage", "crash", "early"}

VARIABLES
  gathers,   \* the gathers begun so far
  posted,    \* upstream: the drafts there are
  recent,    \* upstream: those whose first revision is within the window
  named,     \* gather.json: draft
  mentioned, \* gather.json: mentioned_drafts
  present,   \* the drafts in the corpus
  holder,    \* the gather that has the lease, or NoRun
  run,       \* the gathers' local variables, below
  behind     \* history: has a gather begun on a list of mentioned drafts that had grown since?

upstream  == <<posted, recent>>
draftVars == <<gathers, upstream, named, mentioned, present, holder, run, behind>>

RunStage == {"idle", "decided", "ready", "named", "authored", "listed", "pruned", "mentioned"}
RunFrame ==
  [pc     : RunStage,
   cli    : SUBSET Draft,  \* args.draft
   snap   : SUBSET Draft,  \* persisted["mentioned_drafts"], as preflight read it
   author : SUBSET Draft,  \* author_names
   fresh  : SUBSET Draft]  \* new_names

IdleRun == [pc |-> "idle", cli |-> {}, snap |-> {}, author |-> {}, fresh |-> {}]
RunAt(g, stage) == run[g].pc = stage

DraftInit ==
  /\ gathers = 0
  /\ posted \in SUBSET Draft
  /\ recent = {}
  /\ named = {} /\ mentioned = {} /\ present = {}
  /\ holder = NoRun
  /\ run = [g \in Run |-> IdleRun]
  /\ behind = FALSE

\* What the Datatracker says of these drafts: a paged list that ends early, a name it
\* does not resolve or a file it does not give look like a shorter answer.
Answers(drafts) == IF "outage" \in DraftFaults THEN SUBSET drafts ELSE {drafts}

\* process_extra_drafts: what is there is fetched.
Fetches(drafts) == {present \cup got : got \in Answers(drafts \cap posted)}

-----------------------------------------------------------------------------
(* preflight and the lease.                                                *)

\* A server's gather has the lease when its preflight reads gather.json ...
Preflight(g, cli) ==
  /\ RunAt(g, "idle") /\ holder = NoRun /\ gathers < MaxRuns
  /\ gathers' = gathers + 1
  /\ holder' = g
  /\ run' = [run EXCEPT ![g] = [IdleRun EXCEPT !.pc = "ready", !.cli = cli, !.snap = mentioned]]
  /\ UNCHANGED <<upstream, named, mentioned, present, behind>>

\* ... and one from the command line takes it afterwards.
PreflightEarly(g, cli) ==
  /\ "early" \in DraftFaults
  /\ RunAt(g, "idle") /\ gathers < MaxRuns
  /\ gathers' = gathers + 1
  /\ run' = [run EXCEPT ![g] = [IdleRun EXCEPT !.pc = "decided", !.cli = cli, !.snap = mentioned]]
  /\ UNCHANGED <<upstream, named, mentioned, present, holder, behind>>

TakeLease(g) ==
  /\ RunAt(g, "decided") /\ holder = NoRun
  /\ holder' = g
  /\ run' = [run EXCEPT ![g].pc = "ready"]
  /\ behind' = (behind \/ run[g].snap # mentioned)
  /\ UNCHANGED <<gathers, upstream, named, mentioned, present>>

\* GatherBusy
TurnAway(g) ==
  /\ RunAt(g, "decided") /\ holder # NoRun
  /\ run' = [run EXCEPT ![g] = IdleRun]
  /\ UNCHANGED <<gathers, upstream, named, mentioned, present, holder, behind>>

-----------------------------------------------------------------------------
(* The stages.                                                             *)

\* _validate_new_sources drops what is not resolved, unless it is remembered; merge
\* remembers the rest, and adds what was; then they are fetched.
NamedDrafts(g) ==
  /\ RunAt(g, "ready")
  /\ \E ok \in Answers(run[g].cli \cap posted) :
       /\ named' = named \cup ok
       /\ \E there \in Fetches(named \cup ok) :
            /\ present' = there
            /\ run' = [run EXCEPT ![g].pc = "named", ![g].cli = named \cup ok]
  /\ UNCHANGED <<gathers, upstream, mentioned, holder, behind>>

AuthoredDrafts(g) ==
  /\ RunAt(g, "named")
  /\ \E names \in Answers(Authored \cap posted) :
       /\ run' = [run EXCEPT ![g].pc = "authored", ![g].author = names]
       /\ present' \in Fetches(names)
  /\ UNCHANGED <<gathers, upstream, named, mentioned, holder, behind>>

NewDrafts(g) ==
  /\ RunAt(g, "authored")
  /\ \E names \in Answers(recent) :
       /\ run' = [run EXCEPT ![g].pc = "listed", ![g].fresh = names]
       /\ present' \in Fetches(names)
  /\ UNCHANGED <<gathers, upstream, named, mentioned, holder, behind>>

\* Mutant of Keep: the window is all there is.
KeepWindow(g) == run[g].fresh

\* What prune_drafts keeps: the snapshot's mentioned drafts, not gather.json's.
Keep(g) == run[g].fresh \cup run[g].cli \cup run[g].author \cup run[g].snap

Prune(g) ==
  /\ RunAt(g, "listed")
  /\ present' = present \cap Keep(g)
  /\ run' = [run EXCEPT ![g].pc = "pruned"]
  /\ UNCHANGED <<gathers, upstream, named, mentioned, holder, behind>>

\* gather.json is written when this gather has found more.
RememberMentioned(g, valid) == mentioned' = IF valid \subseteq run[g].snap THEN mentioned ELSE run[g].snap \cup valid

\* _gather_mentioned_drafts: what the threads and issues of this gather mention, and the
\* corpus has not, is resolved and fetched.
MentionedDrafts(g) ==
  /\ RunAt(g, "pruned")
  /\ \E citations \in SUBSET Cited :
     \E valid \in Answers((citations \ (present \cup run[g].snap)) \cap posted) :
       /\ present' \in Fetches(valid)
       /\ RememberMentioned(g, valid)
  /\ run' = [run EXCEPT ![g].pc = "mentioned"]
  /\ UNCHANGED <<gathers, upstream, named, holder, behind>>

\* The other stages follow, and the lease is given back.
Finish(g) ==
  /\ RunAt(g, "mentioned")
  /\ holder' = NoRun
  /\ run' = [run EXCEPT ![g] = IdleRun]
  /\ UNCHANGED <<gathers, upstream, named, mentioned, present, behind>>

\* A gather dies; its lease lapses.
Die(g) ==
  /\ "crash" \in DraftFaults /\ ~RunAt(g, "idle")
  /\ holder' = IF holder = g THEN NoRun ELSE holder
  /\ run' = [run EXCEPT ![g] = IdleRun]
  /\ UNCHANGED <<gathers, upstream, named, mentioned, present, behind>>

-----------------------------------------------------------------------------
(* The Datatracker.                                                        *)

Submit(d) ==
  /\ d \notin posted
  /\ posted' = posted \cup {d} /\ recent' = recent \cup {d}
  /\ UNCHANGED <<gathers, named, mentioned, present, holder, run, behind>>

AgeOut(d) ==
  /\ d \in recent
  /\ recent' = recent \ {d}
  /\ UNCHANGED <<gathers, posted, named, mentioned, present, holder, run, behind>>

GatherStep(g) ==
  \/ (\E cli \in SUBSET Named : Preflight(g, cli) \/ PreflightEarly(g, cli))
  \/ TakeLease(g) \/ TurnAway(g) \/ NamedDrafts(g) \/ AuthoredDrafts(g) \/ NewDrafts(g)
  \/ Prune(g) \/ MentionedDrafts(g) \/ Finish(g) \/ Die(g)

DraftNext ==
  \/ \E g \in Run : GatherStep(g)
  \/ \E d \in Draft : Submit(d) \/ AgeOut(d)

DraftSpec == DraftInit /\ [][DraftNext]_draftVars

-----------------------------------------------------------------------------
(* Properties.                                                             *)

\* Every variable stays within the values its comment gives.
DraftTypeOK ==
  /\ gathers \in 0..MaxRuns
  /\ recent \in SUBSET posted /\ posted \in SUBSET Draft
  /\ named \in SUBSET Draft /\ mentioned \in SUBSET Draft /\ present \in SUBSET Draft
  /\ holder \in Run \cup {NoRun}
  /\ run \in [Run -> RunFrame]
  /\ behind \in BOOLEAN

\* A draft that a user has named, and the corpus has, is never pruned, whatever the
\* Datatracker answers and wherever a gather dies (prune_drafts: "explicit --draft
\* additions ... are never pruned"), also by a gather that was started without it.
NamedStay == named \cap present \subseteq present' /\ named \subseteq named'

\* A mentioned draft "stays once added and survives the new-drafts prune", although what
\* mentioned it is gone, as long as every gather begins on the latest list of them.
MentionedStay ==
  ~behind' => mentioned \cap present \subseteq present' /\ mentioned \subseteq mentioned'

\* What was chosen once is not lost again.
ChosenStay == [][NamedStay /\ MentionedStay]_draftVars

\* The docstring of _gather_dynamic_drafts: "authored drafts ... retained".  An answer cut
\* short by an outage prunes them: the code breaks it
\* (README.md).
AuthoredStay == [][Authored \cap present \subseteq present']_draftVars

\* The docstring of _gather_mentioned_drafts, without a condition: "a draft stays once
\* added".  A gather from the command line that read the list before another added to
\* it prunes the draft, and may forget it: the code breaks it (README.md).
MentionedAlwaysStay == [][mentioned \cap present \subseteq present']_draftVars
===============================================================================
