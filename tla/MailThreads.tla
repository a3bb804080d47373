------------------------------ MODULE MailThreads ------------------------------
(***************************************************************************)
(* The conversations of a corpus's mail: replies are put under what they   *)
(* reply to, and a message without a known parent whose subject says that  *)
(* it is a reply joins a conversation of the same subject, if it begins    *)
(* soon enough after it.  The threads are built anew from all the mail     *)
(* there is; the mail arrives in any order, some of it never.              *)
(*                                                                         *)
(* Source: ietf_llm/gather/sources/mail_threads.py (build_threads).  A     *)
(* message is named by its Message-Id, of which the archive keeps one      *)
(* copy; all have one subject, since others never meet.                    *)
(***************************************************************************)
EXTENDS Integers, FiniteSetsExt

CONSTANTS
  MaxMail,  \* bound: messages are numbered in the order of their files
  MaxDate,  \* bound: dates
  MaxRefs,  \* bound: messages that one refers to
  Window    \* SUBJECT_MERGE_WINDOW

ASSUME MailAssumption ==
  /\ MaxMail \in Nat \ {0} /\ MaxDate \in Nat /\ MaxRefs \in Nat /\ Window \in Nat

Mail    == 1..MaxMail
NoMail  == 0
Undated == 0

Header ==
  [refs    : UNION {[1..n -> Mail] : n \in 0..MaxRefs},  \* In-Reply-To, then References from the last
   subject : {"plain", "reply", "blank"},  \* without prefixes, with a reply prefix, nothing but prefixes
   date    : 0..MaxDate]

VARIABLE archive  \* the headers of the messages that have been fetched

Fetched == DOMAIN archive

MailInit == archive = <<>>

\* A message is fetched.
Arrive(m, header) ==
  /\ m \notin Fetched
  /\ archive' = [n \in Fetched \cup {m} |-> IF n = m THEN header ELSE archive[n]]

MailNext == \E m \in Mail, header \in Header : Arrive(m, header)

MailSpec == MailInit /\ [][MailNext]_archive

-----------------------------------------------------------------------------
(* Replies.                                                                *)

\* The first message referred to that is in the archive, which may be the message itself.
Parent(m) ==
  LET refs == archive[m].refs  known == {i \in DOMAIN refs : refs[i] \in Fetched} IN
  IF known = {} THEN NoMail ELSE refs[Min(known)]

ReplyTo == [m \in Fetched |-> Parent(m)]

\* What one parent leads to: with a message of S it has those whose parent that is.
Closed(S, parent) == \A m \in Fetched : parent[m] \in S => m \in S

\* _collect_subtree: the root and what leads to it, in a walk that meets no message twice.
Subtree(root, parent) ==
  {m \in Fetched : \A S \in SUBSET Fetched : root \in S /\ Closed(S, parent) => m \in S}

LastDate(messages) ==
  LET dates == {archive[m].date : m \in messages} \ {Undated} IN
  IF dates = {} THEN Undated ELSE Max(dates)

-----------------------------------------------------------------------------
(* Roots of one subject.                                                   *)

\* Oldest first, undated last, and files in their order.
Before(m, n) ==
  LET d == archive[m].date  e == archive[n].date IN
  IF d = e THEN m < n ELSE e = Undated \/ (d # Undated /\ d < e)
Oldest(S)   == CHOOSE m \in S : \A n \in S \ {m} : Before(m, n)
Youngest(S) == CHOOSE m \in S : \A n \in S \ {m} : Before(n, m)

\* What has no subject at all starts no thread.
Roots == {m \in Fetched : ReplyTo[m] = NoMail /\ archive[m].subject # "blank"}

\* Where the merging is: the roots still to be placed, what is the parent of each
\* message by now (parent_id), and the date to which each cluster lasts, by its root.
Unmerged == [left |-> Roots, parents |-> ReplyTo, last |-> [r \in {} |-> Undated]]

\* _mergeable_cluster: the clusters that a reply may join.
Near(last, m) ==
  {r \in DOMAIN last :
     /\ archive[m].subject = "reply"
     /\ Undated \in {archive[m].date, last[r]} \/ archive[m].date - last[r] <= Window}

\* Mutant of Join: the root keeps no parent.
JoinLoosely(s, m, r, date) ==
  [left |-> s.left \ {m}, parents |-> s.parents,
   last |-> [s.last EXCEPT ![r] = IF date > @ THEN date ELSE @]]

\* A root joins the cluster of r, which then lasts as long as both ...
Join(s, m, r, date) ==
  [left |-> s.left \ {m}, parents |-> [s.parents EXCEPT ![m] = r],
   last |-> [s.last EXCEPT ![r] = IF date > @ THEN date ELSE @]]

\* ... or starts its own.
Start(s, m, date) ==
  [left |-> s.left \ {m}, parents |-> s.parents,
   last |-> [r \in DOMAIN s.last \cup {m} |-> IF r = m THEN date ELSE s.last[r]]]

\* The next root joins the latest of the clusters it may join.
Place(s, m) ==
  LET near == Near(s.last, m)  date == LastDate(Subtree(m, ReplyTo)) IN
  IF near = {} THEN Start(s, m, date) ELSE Join(s, m, Youngest(near), date)

\* The merging after n roots.
Merging[n \in 0..MaxMail] ==
  IF n = 0 THEN Unmerged
  ELSE LET s == Merging[n - 1] IN IF s.left = {} THEN s ELSE Place(s, Oldest(s.left))

\* The threads: what is collected from the root of each cluster.
Threads ==
  LET merged == Merging[MaxMail] IN {Subtree(r, merged.parents) : r \in DOMAIN merged.last}

-----------------------------------------------------------------------------
(* Properties.                                                             *)

\* Every message that a root leads to is in one thread, together with what it
\* replies to; in none are only messages that reply to each other in a circle or to
\* one without a subject.
Partition(threads) ==
  /\ \A S, T \in threads : S = T \/ S \cap T = {}
  /\ UNION threads = UNION {Subtree(m, ReplyTo) : m \in Roots}
  /\ \A T \in threads : \A m \in T : ReplyTo[m] # NoMail => ReplyTo[m] \in T

\* A message joins others by its subject only as a reply, and within the window of
\* one of them, unless dates are missing: no chain of notices that share a subject,
\* and no silence bridged.
JoinedInTime(threads) ==
  \A T \in threads :
    \A m \in {n \in T : ReplyTo[n] = NoMail /\ \E o \in T : ReplyTo[o] = NoMail /\ Before(o, n)} :
       /\ archive[m].subject = "reply"
       /\ \E n \in T \ Subtree(m, ReplyTo) :
            Undated \in {archive[m].date, archive[n].date} \/ archive[m].date - archive[n].date <= Window

\* The threads hold the mail, once each, and what belongs together.
ThreadsTrue == LET threads == Threads IN Partition(threads) /\ JoinedInTime(threads)

\* Later mail never takes a thread apart.  No run keeps this: a late reply to one
\* conversation can draw a message away from another, and an undated message goes
\* with the latest conversation, whichever that is.
ThreadsStay == [][\A T \in Threads : \E S \in Threads' : T \subseteq S]_archive

\* Every message is in a thread.  No run keeps this: a message without a subject that
\* replies to nothing known is in none, nor is what replies to it, nor a circle.
NothingDropped == UNION Threads = Fetched
=============================================================================
