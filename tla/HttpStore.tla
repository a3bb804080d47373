------------------------------ MODULE HttpStore ------------------------------
(***************************************************************************)
(* The store of validated responses behind the Datatracker client: an      *)
(* index of the ETag last seen of each URL, a file per body, and the       *)
(* processes that revalidate against the server, each with a copy of the   *)
(* index of its own that it writes back when it ends.                      *)
(*                                                                         *)
(* Sources: ietf_llm/gather/sources/http_cache.py and datatracker.py       *)
(* (_get_json, _get_url).  The store is the local backend's, which all     *)
(* gathers of a machine share; each runs in a process of its own, whose    *)
(* life is GatherChild's.                                                  *)
(*                                                                         *)
(* A body is named by the ETag that came with it.  What a process keeps of *)
(* a URL is its ETag: the file follows from the two.                       *)
(***************************************************************************)
EXTENDS Integers, FiniteSets

CONSTANTS
  Child,       \* the places of the gathers' processes, one for each corpus
  Url, Etag,   \* what they ask for, and the bodies it may have
  Absent,     \* "no such entry", "no such file"
  MaxChanges,  \* bound: changes of a body at the server
  MaxRequests, \* bound: requests of one run of a process
  HttpFaults   \* a subset of {"net", "unread", "full"}

ASSUME HttpAssumption ==
  /\ Etag # {} /\ Absent \notin Etag \cup Url
  /\ MaxChanges \in Nat /\ MaxRequests \in Nat
  /\ HttpFaults \subseteq {"net", "unread", "full"}

FileName == Url \X Etag
Known    == Etag \cup {Absent}

VARIABLES
  served,   \* the body the server has for each URL
  changes,  \* its changes so far
  stored,   \* index.json: the ETag of each URL
  body,     \* what each body file holds
  young,    \* the files that are not old enough to be strays (_ORPHAN_GRACE)
  child,    \* the processes, below
  together  \* history: have two processes used the store at the same time?

httpVars == <<served, changes, stored, body, young, child, together>>

ChildStage == {"gone", "ready", "sent", "answered", "kept", "removing", "flushed"}
ChildFrame ==
  [pc      : ChildStage,
   loaded  : BOOLEAN,             \* has it read the index?
   entries : [Url -> Known],      \* _entries
   dirty   : BOOLEAN,             \* _dirty
   used    : SUBSET Url,          \* the entries it has asked for: the youngest
   dropped : SUBSET FileName,     \* _dropped
   left    : 0..MaxRequests,
   url     : Url \cup {Absent},  \* the request it is at:
   etag    : Known,               \*   its If-None-Match, then the answer's ETag,
   retry   : BOOLEAN,             \*   may it ask again?
   same    : BOOLEAN,             \*   is the answer a 304?
   seen    : SUBSET Etag,         \*   history: what the server has had meanwhile
   wrong   : SUBSET {"stale", "nothing"}] \* history: what was wrong with its last answer

NoProcess == [pc |-> "gone", loaded |-> FALSE, entries |-> [u \in Url |-> Absent], dirty |-> FALSE,
              used |-> {}, dropped |-> {}, left |-> MaxRequests, url |-> Absent, etag |-> Absent,
              retry |-> FALSE, same |-> FALSE, seen |-> {}, wrong |-> {}]

Flushed == [NoProcess EXCEPT !.pc = "flushed"]

ChildAt(c, stage) == child[c].pc = stage
Running(c) == ~ChildAt(c, "gone")

\* body_file_name
BodyFile(u, e) == <<u, e>>

HttpInit ==
  /\ served = [u \in Url |-> CHOOSE e \in Etag : TRUE]  \* any: what they are called makes no difference
  /\ changes = 0
  /\ stored \in [Url -> Known]     \* what earlier gathers have left
  /\ body = [f \in FileName |->
               IF \E u \in Url : stored[u] # Absent /\ BodyFile(u, stored[u]) = f
               THEN stored[f[1]] ELSE Absent]
  /\ young = {}
  /\ child = [c \in Child |-> NoProcess]
  /\ together = FALSE

-----------------------------------------------------------------------------
(* _get_url                                                                *)

\* What the process knows, once it has read the index.
Entries(c) == IF child[c].loaded THEN child[c].entries ELSE stored

\* _drop: the entry goes, and its file after the next flush.
Dropping(p, u) == [p EXCEPT !.entries[u] = Absent, !.dirty = TRUE,
                            !.dropped = @ \cup {BodyFile(u, p.entries[u])}]

\* HttpCache.get: an entry whose file has gone is dropped, any other is touched.
Touched(p, u) ==
  IF p.entries[u] = Absent THEN p
  ELSE IF body[BodyFile(u, p.entries[u])] = Absent THEN Dropping(p, u)
  ELSE [p EXCEPT !.used = @ \cup {u}, !.dirty = TRUE]

\* The process p asks for u, with the ETag it has of it.
Sending(p, u, again) ==
  LET q == Touched(p, u) IN
  [q EXCEPT !.pc = "sent", !.url = u, !.etag = q.entries[u], !.retry = ~again,
            !.seen = (IF again THEN @ ELSE {}) \cup {served[u]}, !.wrong = {}]

Send(c, u) ==
  /\ ChildAt(c, "ready") /\ child[c].left > 0
  /\ LET p == [child[c] EXCEPT !.loaded = TRUE, !.entries = Entries(c), !.left = @ - 1] IN
     child' = [child EXCEPT ![c] = Sending(p, u, FALSE)]
  /\ UNCHANGED <<served, changes, stored, body, young, together>>

\* The server compares the ETag with what it has.
Respond(c) ==
  LET now == served[child[c].url] IN
  /\ ChildAt(c, "sent")
  /\ child' = [child EXCEPT ![c] = [@ EXCEPT !.pc = "answered", !.etag = now,
                                               !.same = (child[c].etag = now)]]
  /\ UNCHANGED <<served, changes, stored, body, young, together>>

\* p returns this body, or nothing; the server said so, or has not answered with a body.
Returning(p, got, failed) ==
  [p EXCEPT !.pc = "ready", !.url = Absent, !.etag = Absent, !.retry = FALSE, !.same = FALSE, !.seen = {},
            !.wrong = IF failed THEN {}
                      ELSE IF got = Absent THEN {"nothing"}
                      ELSE IF got \in p.seen THEN {} ELSE {"stale"}]

\* What the process can read of the body it has an entry for: nothing, if the file has
\* gone, or cannot be read or unpacked.
Bodies(c) ==
  LET u == child[c].url  e == child[c].entries[u] IN
  (IF e = Absent THEN {Absent} ELSE {body[BodyFile(u, e)]})
    \cup (IF "unread" \in HttpFaults THEN {Absent} ELSE {})

\* HttpCache.body: an unreadable body is dropped.
AfterBody(c, got) == IF got = Absent /\ child[c].entries[child[c].url] # Absent
                     THEN Dropping(child[c], child[c].url) ELSE child[c]

\* The request fails, or its answer is not JSON: the body it has is returned, if there
\* was an entry.  Of JSON that is no object nothing is returned, whatever it has.
RequestError(c) ==
  /\ "net" \in HttpFaults /\ ChildAt(c, "sent")
  /\ \/ \E got \in Bodies(c) :
          child' = [child EXCEPT ![c] =
            Returning(IF child[c].etag = Absent THEN @ ELSE AfterBody(c, got), got, TRUE)]
     \/ child' = [child EXCEPT ![c] = Returning(@, Absent, TRUE)]
  /\ UNCHANGED <<served, changes, stored, body, young, together>>

\* 304: the body it has, or else it asks once more, without an ETag.
Revalidated(c) ==
  /\ ChildAt(c, "answered") /\ child[c].same
  /\ \E got \in Bodies(c) :
       child' = [child EXCEPT ![c] =
         IF got = Absent /\ child[c].retry THEN Sending(AfterBody(c, got), child[c].url, TRUE)
         ELSE Returning(AfterBody(c, got), got, FALSE)]
  /\ UNCHANGED <<served, changes, stored, body, young, together>>

\* 200: the body is written to a file of its own first; without an ETag, or on a full
\* disk, it is only returned ...
WriteBody(c) ==
  LET f == BodyFile(child[c].url, child[c].etag) IN
  /\ ChildAt(c, "answered") /\ ~child[c].same
  /\ \/ /\ body' = [body EXCEPT ![f] = child[c].etag]
        /\ young' = young \cup {f}
        /\ child' = [child EXCEPT ![c].pc = "kept"]
     \/ /\ "full" \in HttpFaults
        /\ child' = [child EXCEPT ![c] = Returning(@, child[c].etag, FALSE)]
        /\ UNCHANGED <<body, young>>
  /\ UNCHANGED <<served, changes, stored, together>>

\* ... and then entered; the file of the entry before is dropped.
Entered(p) ==
  LET u == p.url  old == p.entries[u] IN
  [p EXCEPT !.entries[u] = p.etag, !.dirty = TRUE, !.used = @ \cup {u},
            !.dropped = (IF old = Absent THEN @ ELSE @ \cup {BodyFile(u, old)}) \ {BodyFile(u, p.etag)}]

EnterBody(c) ==
  /\ ChildAt(c, "kept")
  /\ child' = [child EXCEPT ![c] = Returning(Entered(@), child[c].etag, FALSE)]
  /\ UNCHANGED <<served, changes, stored, body, young, together>>

-----------------------------------------------------------------------------
(* flush                                                                   *)

\* Mutant of Flush: the dropped files go first.
FlushRemovesFirst(c, evicted) ==
  /\ ChildAt(c, "ready") /\ child[c].dirty
  /\ IF child[c].dropped # {}
     THEN \E f \in child[c].dropped : body' = [body EXCEPT ![f] = Absent]
                                      /\ child' = [child EXCEPT ![c].dropped = @ \ {f}]
                                      /\ UNCHANGED stored
     ELSE /\ stored' = child[c].entries /\ child' = [child EXCEPT ![c] = Flushed]
          /\ UNCHANGED body
  /\ UNCHANGED <<served, changes, young, together>>

\* Entries are evicted, the least recently used first, and the index is replaced;
\* when that fails the files stay.
Flush(c, evicted) ==
  LET kept == [u \in Url |-> IF u \in evicted THEN Absent ELSE child[c].entries[u]]
      gone == {BodyFile(u, child[c].entries[u]) : u \in evicted} IN
  /\ ChildAt(c, "ready") /\ child[c].dirty
  /\ \A u \in evicted : child[c].entries[u] # Absent /\ u \notin child[c].used
  /\ \/ /\ stored' = kept
        /\ child' = [child EXCEPT ![c] = [child[c] EXCEPT !.pc = "removing", !.entries = kept,
                                                          !.dropped = @ \cup gone]]
     \/ /\ "full" \in HttpFaults
        /\ child' = [child EXCEPT ![c] = Flushed]
        /\ UNCHANGED stored
  /\ UNCHANGED <<served, changes, body, young, together>>

\* Nothing has been asked of the store, or nothing it had an entry for.
FlushNothing(c) ==
  /\ ChildAt(c, "ready") /\ ~child[c].dirty
  /\ child' = [child EXCEPT ![c] = Flushed]
  /\ UNCHANGED <<served, changes, stored, body, young, together>>

\* _remove_unreferenced: the files it has dropped ...
RemoveDropped(c, f) ==
  /\ ChildAt(c, "removing") /\ f \in child[c].dropped
  /\ body' = [body EXCEPT ![f] = Absent]
  /\ young' = young \ {f}
  /\ child' = [child EXCEPT ![c].dropped = @ \ {f}]
  /\ UNCHANGED <<served, changes, stored, together>>

\* ... and old files that its index does not name.
SweepStrays(c) ==
  LET named == {BodyFile(u, child[c].entries[u]) : u \in {v \in Url : child[c].entries[v] # Absent}} IN
  /\ ChildAt(c, "removing") /\ child[c].dropped = {}
  /\ body' = [f \in FileName |-> IF f \in named \cup young THEN body[f] ELSE Absent]
  /\ child' = [child EXCEPT ![c] = Flushed]
  /\ UNCHANGED <<served, changes, stored, young, together>>

-----------------------------------------------------------------------------
(* The processes, the server, the disk and the clock.                      *)

\* A process begins.
Launched(c) ==
  /\ child' = [child EXCEPT ![c] = [NoProcess EXCEPT !.pc = "ready"]]
  /\ together' = (together \/ \E d \in Child \ {c} : Running(d))
  /\ UNCHANGED <<served, changes, stored, body, young>>

\* Processes end, at whatever they are.
Ended(cs) ==
  /\ child' = [c \in Child |-> IF c \in cs THEN NoProcess ELSE child[c]]
  /\ UNCHANGED <<served, changes, stored, body, young, together>>

\* A body changes at the server; requests under way may see either.
ServerChanges(u, e) ==
  /\ changes < MaxChanges /\ e # served[u]
  /\ changes' = changes + 1
  /\ served' = [served EXCEPT ![u] = e]
  /\ child' = [c \in Child |-> IF child[c].url = u THEN [child[c] EXCEPT !.seen = @ \cup {e}]
                                                    ELSE child[c]]
  /\ UNCHANGED <<stored, body, young, together>>

\* A day without a gather: no file is young.
NextDay ==
  /\ young # {} /\ \A c \in Child : ~Running(c)
  /\ young' = {}
  /\ UNCHANGED <<served, changes, stored, body, child, together>>

Requesting(c) ==
  \/ (\E u \in Url : Send(c, u)) \/ Respond(c) \/ RequestError(c)
  \/ Revalidated(c) \/ WriteBody(c) \/ EnterBody(c)
Flushing(c) ==
  \/ (\E evicted \in SUBSET Url : Flush(c, evicted)) \/ FlushNothing(c)
  \/ (\E f \in FileName : RemoveDropped(c, f)) \/ SweepStrays(c)
World ==
  \/ \E u \in Url, e \in Etag : ServerChanges(u, e)
  \/ NextDay

-----------------------------------------------------------------------------
(* Properties.                                                             *)

\* Every variable stays within the values its comment gives.
HttpTypeOK ==
  /\ served \in [Url -> Etag] /\ changes \in 0..MaxChanges
  /\ stored \in [Url -> Known]
  /\ body \in [FileName -> Known] /\ young \in SUBSET FileName
  /\ child \in [Child -> ChildFrame]
  /\ together \in BOOLEAN

\* What a request returns when the server has answered is what the server had at
\* some moment of that request, also when the body comes from the store, whatever
\* other processes write there, and when a body goes back to an earlier one.
ServedWasCurrent == \A c \in Child : "stale" \notin child[c].wrong

\* When the server has answered with a body, or that it has not changed, a request never
\* returns nothing ("None would read as 'no data' and end a paged listing early"),
\* although its body file may be unreadable, or removed by another process after the
\* index was read.
NeverNothing == \A c \in Child : "nothing" \notin child[c].wrong

\* As long as one process at a time uses the store, the index on disk names files
\* that are there, wherever a process is killed ("a crash before the flush leaves
\* the previous state intact").
IndexedIsThere ==
  ~together => \A u \in Url : stored[u] # Absent => body[BodyFile(u, stored[u])] # Absent

\* A request that was answered returns what the server had, and the store keeps it.
ResponsesTrue == ServedWasCurrent /\ NeverNothing /\ IndexedIsThere
=============================================================================
